-------------------------- MODULE HybridKlinesProofs --------------------------
(***************************************************************************)
(* The chart of the page: proofs of TypeOK, OwnCandles, FinalShown and     *)
(* Aligned for any keys, intervals, clocks, bounds and faults.             *)
(*                                                                         *)
(* OwnCandles is not inductive.  A handler writes what the chart shows     *)
(* into the cache of its own key: the chart must be live by then, and the  *)
(* handler that of the last choice (Listening).  The clock and the trades  *)
(* copy the last candle, so that a series must have one (Charts), which it *)
(* has because the stamps on it are bounded.                               *)
(*                                                                         *)
(* FinalShown follows the event that closed a candle from its place on the *)
(* bus to the chart (Followed): all behind it on the bus tells of later    *)
(* times (Later), so that nothing puts other values in its place.          *)
(*                                                                         *)
(* Aligned needs that candles open at multiples of their interval (Epoch), *)
(* and then that the stamps on the chart are those of candles that have    *)
(* opened by the clock (Gridded).  Items that stem from candles the REST   *)
(* service made up are left out, and nothing but those stems from them: an *)
(* update that goes on from the last item passes on what that one was.     *)
(***************************************************************************)
EXTENDS HybridKlines,
        SequenceTheorems, FiniteSetTheorems, WellFoundedInduction, TLAPS

Items  == [key : Keys, final : BOOLEAN, mock : BOOLEAN]
Events == [kind : {"kline", "trade", "late"},
           of : Keys \cup {Symbol[k] : k \in Keys}, at : Nat, final : BOOLEAN]

Bounded(S) == \E b \in Nat : \A s \in S : s <= b

\* A series with a last candle, if it has any; one that is no longer than the
\* limit; and one of the candles of k.
Stamped(f) == /\ DOMAIN f \in SUBSET Nat
              /\ Bounded(DOMAIN f)
              /\ \A s \in DOMAIN f : f[s] \in Items
Chart(f) == Stamped(f) /\ Cardinality(DOMAIN f) <= Limit
Of(f, k) == \A s \in DOMAIN f : f[s].key = k

-----------------------------------------------------------------------------
\* A set of numbers has a least element.
LEMMA NatSetMin ==
  ASSUME NEW T \in SUBSET Nat, T /= {}
  PROVE  \E m \in T : \A k \in T : m <= k
<1> DEFINE U == {0..k : k \in T}
<1>1. U \subseteq FiniteSubsetsOf(Nat) /\ U /= {}
  <2> SUFFICES ASSUME NEW k \in T
               PROVE  0..k \in SUBSET Nat /\ IsFiniteSet(0..k)
    BY DEF FiniteSubsetsOf
  <2> QED
    BY FS_Interval
<1>2. PICK x \in U : \A y \in U : <<y, x>> \notin StrictSubsetOrdering(Nat)
  <2> HIDE DEF U
  <2> QED
    BY <1>1, FS_StrictSubsetOrderingWellFounded, WFMin
<1>3. PICK m \in T : x = 0..m
  OBVIOUS
<1>4. ASSUME NEW k \in T, k < m
      PROVE  <<0..k, 0..m>> \in StrictSubsetOrdering(Nat)
  BY <1>4 DEF StrictSubsetOrdering
<1>5. \A k \in T : ~(k < m)
  BY <1>2, <1>3, <1>4
<1> QED
  BY <1>5

-----------------------------------------------------------------------------
\* A bounded set of numbers has a last element: a bound is least or can be lowered.
LEMMA HasMax ==
  ASSUME NEW S \in SUBSET Nat, S /= {}, Bounded(S)
  PROVE  Max(S) \in S /\ \A s \in S : s <= Max(S)
<1> DEFINE T == {b \in Nat : \A s \in S : s <= b}
<1>1. PICK m \in T : \A b \in T : m <= b
  <2>1. T \in SUBSET Nat /\ T /= {}
    BY DEF Bounded
  <2> HIDE DEF T
  <2> QED
    BY <2>1, NatSetMin
<1>2. m \in S
  <2> SUFFICES ASSUME m \notin S
               PROVE  FALSE
    OBVIOUS
  <2>1. \A s \in S : s < m /\ s <= m - 1
    OBVIOUS
  <2>2. m - 1 \in Nat
    <3>1. PICK s \in S : TRUE
      OBVIOUS
    <3> QED
      BY <2>1, <3>1
  <2>3. m - 1 \in T
    BY <2>1, <2>2
  <2>4. m <= m - 1
    <3> HIDE DEF T
    <3> QED
      BY <1>1, <2>3
  <2> QED
    BY <2>2, <2>4
<1>3. \E x \in S : \A y \in S : x >= y
  BY <1>2
<1> QED
  BY <1>3 DEF Max

LEMMA ProductMonotone ==
  ASSUME NEW a \in Nat, NEW b \in Nat, NEW c \in Nat, a <= b
  PROVE  a * c \in Nat /\ a * c <= b * c
<1>1. (b - a) * c >= 0
  BY SMT
<1>2. b * c = (b - a) * c + a * c
  BY SMT
<1>3. a * c \in Nat /\ b * c \in Nat /\ (b - a) * c \in Nat
  BY SMT
<1> QED
  BY <1>1, <1>2, <1>3

LEMMA QuotientNat ==
  ASSUME NEW a \in Nat, NEW c \in Nat, c > 0
  PROVE  a \div c \in Nat
OBVIOUS

LEMMA BoundedFinite ==
  ASSUME NEW S \in SUBSET Nat, Bounded(S)
  PROVE  IsFiniteSet(S)
<1>1. PICK b \in Nat : \A s \in S : s <= b
  BY DEF Bounded
<1> QED
  BY <1>1, FS_BoundedSetOfNaturals

Above(S, s) == {t \in S : t > s}

\* slice(-limit): no two of the stamps kept have equally many above them.
LEMMA NewestFew ==
  ASSUME NEW S \in SUBSET Nat, IsFiniteSet(S)
  PROVE  Cardinality(Newest(S)) <= Limit
<1> DEFINE f == [s \in Newest(S) |-> Cardinality(Above(S, s))]
<1>1. \A s \in S : /\ IsFiniteSet(Above(S, s)) /\ Cardinality(Above(S, s)) \in Nat
  <2>1. \A s \in S : Above(S, s) \in SUBSET S
    BY DEF Above
  <2> QED
    BY <2>1, FS_Subset, FS_CardinalityType
<1>2. Newest(S) \in SUBSET S /\ \A s \in Newest(S) : Cardinality(Above(S, s)) < Limit
  BY DEF Newest, Above
<1>3. ASSUME NEW s \in S, NEW t \in S, s < t
      PROVE  Cardinality(Above(S, s)) /= Cardinality(Above(S, t))
  <2>1. s \in Nat /\ t \in Nat /\ \A u \in S : u \in Nat
    OBVIOUS
  <2>2. \A u \in S : u > t => u > s
    BY <1>3, <2>1
  <2>3. ~(t > t) /\ t > s
    BY <1>3, <2>1
  <2>4. Above(S, t) \in SUBSET Above(S, s) /\ t \in Above(S, s) /\ t \notin Above(S, t)
    BY <2>2, <2>3 DEF Above
  <2> QED
    BY <1>1, <2>4, FS_Subset
<1>4. Limit \in Nat \ {0}
  BY HybridKlinesAssumption
<1>5. f \in [Newest(S) -> 0..(Limit - 1)]
  <2>1. \A c \in Nat : c < Limit => c \in 0..(Limit - 1)
    BY <1>4
  <2>2. \A s \in Newest(S) : Cardinality(Above(S, s)) \in 0..(Limit - 1)
    BY <1>1, <1>2, <2>1
  <2> QED
    BY <2>2
<1>6. \A s, t \in Newest(S) : f[s] = f[t] => s = t
  <2>1. \A s, t \in Nat : s < t \/ t < s \/ s = t
    OBVIOUS
  <2> QED
    BY <1>2, <1>3, <2>1
<1>7. f \in Injection(Newest(S), 0..(Limit - 1))
  BY <1>5, <1>6 DEF Injection, IsInjective
<1>8. IsFiniteSet(0..(Limit - 1)) /\ Cardinality(0..(Limit - 1)) = Limit
  BY <1>4, FS_Interval
<1> HIDE DEF f
<1> QED
  BY <1>7, <1>8, FS_Injection

LEMMA NormalizedKeeps ==
  ASSUME NEW f, Stamped(f)
  PROVE  /\ Chart(Normalized(f))
         /\ \A k : Of(f, k) => Of(Normalized(f), k)
<1>1. DOMAIN Normalized(f) = Newest(DOMAIN f)
  BY DEF Normalized, Restrict
<1>2. Newest(DOMAIN f) \in SUBSET DOMAIN f
  BY DEF Newest
<1>3. \A s \in DOMAIN Normalized(f) : Normalized(f)[s] = f[s]
  BY DEF Normalized, Restrict
<1>4. Cardinality(Newest(DOMAIN f)) <= Limit
  BY NewestFew, BoundedFinite DEF Stamped
<1> QED
  BY <1>1, <1>2, <1>3, <1>4 DEF Chart, Stamped, Of, Bounded

LEMMA BoundedUnion ==
  ASSUME NEW S \in SUBSET Nat, NEW T \in SUBSET Nat, Bounded(S), Bounded(T)
  PROVE  Bounded(S \cup T)
<1>1. PICK b \in Nat : \A s \in S : s <= b
  BY DEF Bounded
<1>2. PICK c \in Nat : \A s \in T : s <= c
  BY DEF Bounded
<1>3. b + c \in Nat /\ \A s \in S \cup T : s <= b + c
  BY <1>1, <1>2
<1> QED
  BY <1>3 DEF Bounded

\* A stamp may be replaced or added.
LEMMA UpsertKeeps ==
  ASSUME NEW f, Chart(f), NEW s \in Nat, NEW item \in Items
  PROVE  /\ Chart(Upsert(f, s, item))
         /\ Of(f, item.key) => Of(Upsert(f, s, item), item.key)
<1> DEFINE g == [t \in DOMAIN f \cup {s} |-> IF t = s THEN item ELSE f[t]]
<1>1. Bounded({s}) /\ {s} \in SUBSET Nat
  BY DEF Bounded
<1>2. Bounded(DOMAIN g) /\ DOMAIN g \in SUBSET Nat
  BY <1>1, BoundedUnion DEF Chart, Stamped
<1>3. Stamped(g)
  BY <1>2 DEF Chart, Stamped
<1>4. Of(f, item.key) => Of(g, item.key)
  BY DEF Of
<1>5. Upsert(f, s, item) = Normalized(g)
  BY DEF Upsert
<1> HIDE DEF g
<1> QED
  BY <1>3, <1>4, <1>5, NormalizedKeeps

LEMMA UnfinishedItem ==
  ASSUME NEW item \in Items
  PROVE  /\ Unfinished(item) \in Items
         /\ Unfinished(item).key = item.key /\ Unfinished(item).mock = item.mock
BY DEF Items, Unfinished

-----------------------------------------------------------------------------
\* What the client computes as a close time is a number: no interval is shorter
\* than the second it leaves out.
LEMMA KeyIntervals ==
  ASSUME NEW k \in Keys
  PROVE  /\ Interval[k] \in Nat /\ Interval[k] >= Second
         /\ Phase[k] \in Nat
<1>1. Interval[k] \in Nat \ {0} /\ Interval[k] % 2 = 0 /\ Phase[k] \in Nat
  BY HybridKlinesAssumption DEF Second
<1> QED
  BY <1>1 DEF Second

LEMMA CanonicalNat ==
  ASSUME NEW t \in Nat
  PROVE  Canonical(t) \in Nat /\ Canonical(t) <= t
BY DEF Canonical, Second

LEMMA ClientCloseNat ==
  ASSUME NEW t \in Nat, NEW len \in Nat, len >= Second
  PROVE  ClientClose(t, len) \in Nat
<1>1. t \div len \in Nat
  BY DEF Second
<1>2. (t \div len) * len \in Nat
  BY <1>1, ProductMonotone
<1> QED
  BY <1>2 DEF ClientClose, Second

\* The clock adds candles after the last one, with its key.
LEMMA AdvancedIs ==
  ASSUME NEW f, Chart(f), DOMAIN f /= {},
         NEW t \in Nat, NEW len \in Nat, len >= Second
  PROVE  \E g : /\ Advanced(f, t, len) = Normalized(g) /\ Stamped(g)
                /\ \A k : Of(f, k) => Of(g, k)
                /\ DOMAIN f \in SUBSET DOMAIN g
                /\ \A u \in DOMAIN g :
                     \/ u \in DOMAIN f /\ g[u] = f[u]
                     \/ /\ u \in Nat /\ u > Max(DOMAIN f)
                        /\ g[u].mock = f[Max(DOMAIN f)].mock
                        /\ \E i \in Nat \ {0} :
                             /\ u = Max(DOMAIN f) + i * len
                             /\ Max(DOMAIN f) + (i - 1) * len < ClientClose(t, len)
<1> DEFINE last  == Max(DOMAIN f)
           steps == {i \in 1..MaxFill : last + (i - 1) * len < ClientClose(t, len)}
           added == {last + i * len : i \in steps}
           g == [s \in DOMAIN f \cup added |->
                   IF s \in added THEN Unfinished(f[last]) ELSE f[s]]
<1>1. last \in DOMAIN f /\ last \in Nat /\ f[last] \in Items
  BY HasMax DEF Chart, Stamped
<1>2. MaxFill \in Nat
  BY HybridKlinesAssumption
<1>3. \A i \in steps : /\ i \in Nat \ {0} /\ i <= MaxFill
                       /\ last + (i - 1) * len < ClientClose(t, len)
  BY <1>2
<1> HIDE DEF steps, last
<1>4. \A i \in steps : /\ i * len \in Nat /\ i * len <= MaxFill * len
                       /\ i * len > 0
  <2>1. \A i \in Nat \ {0} : i * len >= len /\ i * len \in Nat
    BY SMT DEF Second
  <2> QED
    BY <1>2, <1>3, <2>1, ProductMonotone DEF Second
<1>5. MaxFill * len \in Nat
  BY <1>2, ProductMonotone
<1>6. \A i \in steps : /\ last + i * len \in Nat /\ last + i * len > last
                       /\ last + i * len <= last + MaxFill * len
  BY <1>1, <1>4, <1>5
<1>7. last + MaxFill * len \in Nat
  BY <1>1, <1>5
<1>8. added \in SUBSET Nat /\ Bounded(added)
  BY <1>6, <1>7 DEF Bounded
<1>9. \A u \in added : /\ u \in Nat /\ u > last
                       /\ \E i \in Nat \ {0} :
                            /\ u = last + i * len
                            /\ last + (i - 1) * len < ClientClose(t, len)
  BY <1>3, <1>6
<1>10. Advanced(f, t, len) = Normalized(g)
  BY DEF Advanced, last, steps
<1> HIDE DEF added
<1>11. /\ Unfinished(f[last]) \in Items
       /\ Unfinished(f[last]).key = f[last].key /\ Unfinished(f[last]).mock = f[last].mock
  BY <1>1, UnfinishedItem
<1>12. Bounded(DOMAIN f \cup added) /\ DOMAIN f \cup added \in SUBSET Nat
  BY <1>8, BoundedUnion DEF Chart, Stamped
<1>13. Stamped(g)
  BY <1>11, <1>12 DEF Chart, Stamped
<1>14. \A k : Of(f, k) => Of(g, k)
  BY <1>1, <1>11 DEF Of
<1>15. /\ DOMAIN f \in SUBSET DOMAIN g
       /\ \A u \in DOMAIN g : \/ u \in DOMAIN f /\ g[u] = f[u]
                              \/ u \in added /\ g[u].mock = f[last].mock
  BY <1>11
<1> HIDE DEF g
<1> QED
  BY <1>9, <1>10, <1>13, <1>14, <1>15 DEF last

LEMMA AdvancedKeeps ==
  ASSUME NEW f, Chart(f), NEW t \in Nat, NEW len \in Nat, len >= Second
  PROVE  /\ Chart(Advanced(f, t, len))
         /\ \A k : Of(f, k) => Of(Advanced(f, t, len), k)
<1>1. CASE DOMAIN f = {}
  BY <1>1 DEF Advanced
<1>2. CASE DOMAIN f /= {}
  <2>1. PICK g : /\ Advanced(f, t, len) = Normalized(g) /\ Stamped(g)
                 /\ \A k : Of(f, k) => Of(g, k)
    BY <1>2, AdvancedIs
  <2> QED
    BY <2>1, NormalizedKeeps
<1> QED
  BY <1>1, <1>2

\* A trade goes into a candle with the key of the last one.
LEMMA TickedKeeps ==
  ASSUME NEW f, Chart(f), DOMAIN f /= {},
         NEW t \in Nat, NEW len \in Nat, len >= Second
  PROVE  /\ Chart(Ticked(f, t, len))
         /\ \A k : Of(f, k) => Of(Ticked(f, t, len), k)
<1> DEFINE last == Max(DOMAIN f)
           its  == ClientClose(t, len)
           s    == IF its <= last THEN last ELSE its
           item == Unfinished(Newer(f))
<1>1. last \in DOMAIN f /\ last \in Nat /\ Newer(f) = f[last] /\ f[last] \in Items
  BY HasMax DEF Chart, Stamped, Newer
<1>2. item \in Items /\ item.key = f[last].key
  BY <1>1, UnfinishedItem
<1>3. s \in Nat
  BY <1>1, ClientCloseNat
<1>4. Ticked(f, t, len) = Upsert(f, s, item)
  BY DEF Ticked
<1>5. \A k : Of(f, k) => item.key = k
  BY <1>1, <1>2 DEF Of
<1> HIDE DEF s, item
<1> QED
  BY <1>2, <1>3, <1>4, <1>5, UpsertKeeps

LEMMA StampNat ==
  ASSUME NEW k \in Keys, NEW n \in Nat, NEW m \in Nat, n <= m
  PROVE  /\ CloseTime(k, n) \in Nat /\ Stamp(k, n) \in Nat
         /\ CloseTime(k, m) \in Nat /\ Stamp(k, n) <= CloseTime(k, m)
<1> DEFINE len == Interval[k]
<1>1. len \in Nat /\ len >= 2 /\ Phase[k] \in Nat
  BY KeyIntervals DEF Second
<1> HIDE DEF len
<1>2. 1 * len <= (n + 1) * len /\ (n + 1) * len \in Nat
  BY <1>1, ProductMonotone, n + 1 \in Nat, 1 <= n + 1
<1>3. (n + 1) * len <= (m + 1) * len
  BY <1>1, ProductMonotone, n + 1 \in Nat, m + 1 \in Nat, n + 1 <= m + 1
<1>4. (m + 1) * len \in Nat
  BY <1>1, ProductMonotone, m + 1 \in Nat, m + 1 <= m + 1
<1>5. 1 * len = len
  BY <1>1
<1>6. /\ CloseTime(k, n) = Phase[k] + (n + 1) * len - 1
      /\ CloseTime(k, m) = Phase[k] + (m + 1) * len - 1
  BY DEF CloseTime, len
<1> DEFINE p == (n + 1) * len
           q == (m + 1) * len
<1>7. p \in Nat /\ q \in Nat /\ len <= p /\ p <= q
  BY <1>2, <1>3, <1>4, <1>5
<1> HIDE DEF p, q
<1>8. /\ CloseTime(k, n) \in Nat /\ CloseTime(k, m) \in Nat
      /\ CloseTime(k, n) <= CloseTime(k, m)
  <2>1. CloseTime(k, n) = Phase[k] + p - 1 /\ CloseTime(k, m) = Phase[k] + q - 1
    BY <1>6 DEF p, q
  <2> QED
    BY <1>1, <1>7, <2>1
<1> QED
  BY <1>8, CanonicalNat DEF Stamp

\* Whatever the REST service answers is a series of its key.
LEMMA AnswersOwn ==
  ASSUME NEW k \in Keys, now \in Nat, NEW f \in Answers(k)
  PROVE  Chart(f) /\ Of(f, k)
<1>1. ASSUME NEW m \in Int, NEW final \in BOOLEAN
      PROVE  Chart(UpTo(k, m, final)) /\ Of(UpTo(k, m, final), k)
  <2> DEFINE S == {Stamp(k, n) : n \in 0..m}
             g == [s \in S |-> Item(k, s < Stamp(k, m) \/ final)]
  <2>1. S \in SUBSET Nat
    <3>1. \A n \in 0..m : n \in Nat
      OBVIOUS
    <3> QED
      BY <3>1, StampNat
  <2>2. Bounded(S)
    <3>1. CASE m >= 0
      <4>1. \A n \in 0..m : n \in Nat /\ m \in Nat /\ n <= m
        BY <3>1
      <4>2. CloseTime(k, m) \in Nat /\ \A n \in 0..m : Stamp(k, n) <= CloseTime(k, m)
        BY <3>1, <4>1, StampNat
      <4> QED
        BY <4>2 DEF Bounded
    <3>2. CASE m < 0
      <4>1. S = {}
        BY <3>2
      <4> QED
        BY <4>1 DEF Bounded
    <3> QED
      BY <3>1, <3>2
  <2> HIDE DEF S
  <2>3. \A s \in S : g[s] \in Items /\ g[s].key = k
    BY DEF Item, Items
  <2>4. DOMAIN g = S
    OBVIOUS
  <2> HIDE DEF g
  <2>5. Stamped(g) /\ Of(g, k)
    BY <2>1, <2>2, <2>3, <2>4 DEF Stamped, Of
  <2>6. UpTo(k, m, final) = Normalized(g)
    BY DEF UpTo, g, S
  <2> QED
    BY <2>5, <2>6, NormalizedKeeps
<1>2. InProgress(k, now) \in Int
  BY KeyIntervals DEF InProgress, Second
<1>3. \E m \in Int, final \in BOOLEAN : f = UpTo(k, m, final)
  <2> DEFINE older == (InProgress(k, now) - MaxStale..InProgress(k, now) - 1) \cap Nat
  <2>1. older \cup {InProgress(k, now)} \in SUBSET Int
    BY <1>2
  <2>2. f \in {UpTo(k, m, FALSE) : m \in older \cup {InProgress(k, now)}} \cup
              {UpTo(k, m, TRUE) : m \in older}
    BY DEF Answers
  <2> HIDE DEF older
  <2> QED
    BY <2>1, <2>2
<1> QED
  BY <1>1, <1>3

\* And so is what it makes up.
LEMMA MockOwn ==
  ASSUME NEW k \in Keys, now \in Nat
  PROVE  Chart(Mock(k)) /\ Of(Mock(k), k)
<1> DEFINE S == {Canonical(now - i * Interval[k]) : i \in 1..Limit} \cap Nat
           g == [s \in S |-> [Item(k, FALSE) EXCEPT !.mock = TRUE]]
<1>1. S \in SUBSET Nat
  OBVIOUS
<1>2. \A s \in S : s <= now
  <2> SUFFICES ASSUME NEW i \in 1..Limit
               PROVE  Canonical(now - i * Interval[k]) <= now
    OBVIOUS
  <2>1. i \in Nat /\ i * Interval[k] \in Nat
    BY KeyIntervals, ProductMonotone, HybridKlinesAssumption
  <2> DEFINE p == i * Interval[k]
  <2>2. p \in Nat
    BY <2>1
  <2> HIDE DEF p
  <2>3. (now - p) % Second \in Nat /\ now - p - ((now - p) % Second) <= now
    BY <2>2 DEF Second
  <2> QED
    BY <2>3 DEF Canonical, p
<1> HIDE DEF S
<1>3. Bounded(S)
  BY <1>2 DEF Bounded
<1>4. \A s \in S : g[s] \in Items /\ g[s].key = k
  BY DEF Item, Items
<1>5. DOMAIN g = S
  OBVIOUS
<1> HIDE DEF g
<1>6. Stamped(g) /\ Of(g, k)
  BY <1>1, <1>3, <1>4, <1>5 DEF Stamped, Of
<1>7. Mock(k) = Normalized(g)
  BY DEF Mock, g, S
<1> QED
  BY <1>6, <1>7, NormalizedKeeps

-----------------------------------------------------------------------------
Typed == /\ now \in Nat
         /\ bus \in Seq(Events)
         /\ effects \in Seq(Keys) /\ effects /= <<>>
         /\ pending \subseteq 1..active
         /\ clock \in Nat
         /\ DOMAIN cache = Keys

Charts == Chart(series) /\ \A k \in Keys : Chart(cache[k])

\* Handlers are those of the last choice, once its history has arrived.
Listening == /\ handlers \subseteq {active}
             /\ handlers /= {} => status = "live" /\ active \notin pending

OwnInv == Typed /\ Charts /\ Listening /\ OwnCandles

LEMMA EffectsLast ==
  ASSUME effects \in Seq(Keys), effects /= <<>>
  PROVE  /\ active \in Nat /\ active > 0
         /\ chosen \in Keys /\ chosen = effects[active]
BY DEF active, chosen, Last

LEMMA EffectsGrow ==
  ASSUME effects \in Seq(Keys), NEW k \in Keys, effects' = Append(effects, k)
  PROVE  /\ effects' \in Seq(Keys) /\ effects' /= <<>>
         /\ active' = active + 1 /\ chosen' = k
BY DEF active, chosen, Last

LEMMA PublishedTyped ==
  ASSUME bus \in Seq(Events), NEW e \in Events, Published(e)
  PROVE  bus' \in Seq(Events)
BY DEF Published

LEMMA CacheOwnStored ==
  ASSUME Charts, CacheOwn, DOMAIN cache = Keys,
         NEW k \in Keys, NEW f, Chart(f), Of(f, k), Stored(k, f)
  PROVE  /\ DOMAIN cache' = Keys
         /\ \A j \in Keys : Chart(cache'[j])
         /\ CacheOwn'
<1>1. DOMAIN cache' = Keys /\ \A j \in Keys : cache'[j] = IF j = k THEN f ELSE cache[j]
  BY DEF Stored
<1> QED
  BY <1>1 DEF Charts, CacheOwn, Of

LEMMA EmptyChart == Chart(EmptySeries)
<1>1. DOMAIN EmptySeries = {}
  BY DEF EmptySeries
<1>2. Cardinality(DOMAIN EmptySeries) <= Limit
  BY <1>1, FS_EmptySet, HybridKlinesAssumption
<1> QED
  BY <1>1, <1>2 DEF Chart, Stamped, Bounded

LEMMA InitOwn == Init => OwnInv
<1> SUFFICES ASSUME Init
             PROVE  OwnInv
  OBVIOUS
<1>1. /\ now \in Nat /\ clock \in Nat
  BY HybridKlinesAssumption DEF Init
<1>2. /\ effects \in Seq(Keys) /\ effects /= <<>> /\ active = 1
  <2>1. PICK k \in Keys : effects = <<k>>
    BY DEF Init
  <2> QED
    BY <2>1 DEF active
<1>3. bus \in Seq(Events) /\ pending \subseteq 1..active
  BY <1>2 DEF Init
<1>4. DOMAIN EmptySeries = {}
  BY DEF EmptySeries
<1>5. Chart(EmptySeries)
  BY EmptyChart
<1>6. /\ DOMAIN cache = Keys /\ \A k \in Keys : cache[k] = EmptySeries
      /\ series = EmptySeries
  BY DEF Init
<1>7. Typed /\ Charts
  BY <1>1, <1>2, <1>3, <1>5, <1>6 DEF Typed, Charts
<1>8. Listening /\ LiveShowsOwn
  BY DEF Init, Listening, LiveShowsOwn
<1>9. CacheOwn
  BY <1>4, <1>6 DEF CacheOwn
<1> QED
  BY <1>7, <1>8, <1>9 DEF OwnInv, OwnCandles

\* The exchange adds events and time.
LEMMA ExchangeOwn ==
  ASSUME OwnInv, Pass \/ Publish
  PROVE  OwnInv'
<1>1. /\ effects \in Seq(Keys) /\ chosen \in Keys /\ now \in Nat /\ bus \in Seq(Events)
  BY EffectsLast DEF OwnInv, Typed
<1>2. /\ Interval[chosen] \in Nat /\ Interval[chosen] >= 2 /\ Phase[chosen] \in Nat
  BY <1>1, KeyIntervals DEF Second
<1>3. now' \in Nat /\ bus' \in Seq(Events)
  <2>1. CASE Pass
    <3>1. now' \in Nat
      BY <1>1, <2>1 DEF Pass
    <3>2. CASE bus' = bus
      BY <1>1, <3>1, <3>2
    <3>3. CASE bus' /= bus
      <4>1. CloseTime(chosen, Current) \in Nat
        BY <1>1, <2>1, <3>3 DEF Pass
      <4>2. Published(Kline(chosen, Current, TRUE))
        BY <2>1, <3>3 DEF Pass
      <4>3. Kline(chosen, Current, TRUE) \in Events
        BY <1>1, <4>1 DEF Kline, Events
      <4> QED
        BY <1>1, <3>1, <4>2, <4>3, PublishedTyped
    <3> QED
      BY <3>2, <3>3
  <2>2. CASE Publish
    <3>1. now' = now /\ now > Phase[chosen]
      BY <2>2 DEF Publish
    <3>2. Current \in Nat
      <4>1. now - Phase[chosen] \in Nat
        BY <1>1, <1>2, <3>1
      <4> QED
        BY <1>2, <4>1, QuotientNat DEF Current, InProgress
    <3>3. CloseTime(chosen, Current) \in Nat
      <4>1. Current <= Current
        BY <3>2
      <4> QED
        BY <1>1, <3>2, <4>1, StampNat
    <3>4. Kline(chosen, Current, FALSE) \in Events
      BY <1>1, <3>3 DEF Kline, Events
    <3>5. /\ Trade("trade", Symbol[chosen], now) \in Events
          /\ Trade("late", Symbol[chosen], now - 1) \in Events
      <4>1. now - 1 \in Nat
        BY <1>1, <1>2, <3>1
      <4> QED
        BY <1>1, <4>1 DEF Trade, Events
    <3>6. \/ Published(Kline(chosen, Current, FALSE))
          \/ Published(Trade("trade", Symbol[chosen], now))
          \/ Published(Trade("late", Symbol[chosen], now - 1))
      BY <2>2 DEF Publish
    <3> QED
      BY <1>1, <3>1, <3>4, <3>5, <3>6, PublishedTyped
  <2> QED
    BY <2>1, <2>2
<1>4. UNCHANGED <<effects, pending, series, status, clock, cache, handlers>>
  BY DEF Pass, Publish, page, link
<1>5. active' = active /\ chosen' = chosen
  BY <1>4 DEF active, chosen
<1> QED
  BY <1>3, <1>4, <1>5
     DEF OwnInv, Typed, Charts, Listening, OwnCandles, LiveShowsOwn, CacheOwn

\* What a choice shows at first is a series, of whatever key.
LEMMA BootstrapCharts ==
  ASSUME Typed, Charts, NEW k \in Keys, NEW old, Chart(old), NEW t \in Nat,
         NEW len, Bootstrap(k, old, t, len)
  PROVE  /\ Chart(series') /\ clock' \in Nat /\ status' = "loading"
         /\ effects' \in Seq(Keys) /\ effects' /= <<>>
         /\ active \in Nat /\ active' = active + 1
<1> DEFINE kept == IF DOMAIN cache[k] = {} THEN old ELSE Normalized(cache[k])
<1>1. Chart(kept)
  BY NormalizedKeeps DEF Charts, Chart
<1>2. Chart(Advanced(kept, t, Interval[k]))
  <2> HIDE DEF kept
  <2> QED
    BY <1>1, KeyIntervals, AdvancedKeeps
<1>3. Chart(series')
  <2>1. series' = IF Interval[k] /= len THEN Advanced(kept, t, Interval[k]) ELSE kept
    BY DEF Bootstrap
  <2> HIDE DEF kept
  <2> QED
    BY <1>1, <1>2, <2>1
<1>4. effects' = Append(effects, k) /\ clock' = t /\ status' = "loading"
  BY DEF Bootstrap
<1> QED
  BY <1>3, <1>4, EffectsGrow, EffectsLast DEF Typed

\* While the page loads, nothing listens and nothing is claimed of the chart.
LEMMA ChoiceOwn ==
  ASSUME OwnInv, (\E k \in Keys : Choose(k)) \/ Reload
  PROVE  OwnInv'
<1>1. /\ Chart(series') /\ clock' \in Nat /\ status' = "loading"
      /\ effects' \in Seq(Keys) /\ effects' /= <<>>
      /\ active \in Nat /\ active' = active + 1
  <2>1. CASE \E k \in Keys : Choose(k)
    <3>1. PICK k \in Keys : Bootstrap(k, series, clock, Interval[chosen])
      BY <2>1 DEF Choose
    <3> QED
      BY <3>1, BootstrapCharts DEF OwnInv, Typed, Charts
  <2>2. CASE Reload
    <3>1. PICK skew \in Skews : Bootstrap(chosen, EmptySeries, now + skew, 0)
      BY <2>2 DEF Reload
    <3>2. Chart(EmptySeries)
      BY EmptyChart
    <3>3. now + skew \in Nat
      BY HybridKlinesAssumption DEF OwnInv, Typed
    <3>4. chosen \in Keys
      BY EffectsLast DEF OwnInv, Typed
    <3> QED
      BY <3>1, <3>2, <3>3, <3>4, BootstrapCharts DEF OwnInv
  <2> QED
    BY <2>1, <2>2
<1>2. pending' \subseteq 1..active'
  <2>1. pending \subseteq 1..active
    BY DEF OwnInv, Typed
  <2>2. pending' \subseteq pending \cup {active + 1}
    BY DEF Choose, Reload
  <2> QED
    BY <1>1, <2>1, <2>2
<1>3. handlers' = {} /\ UNCHANGED <<now, bus, cache>>
  BY DEF Choose, Reload, Dispose, exchange
<1>4. Typed' /\ Charts'
  BY <1>1, <1>2, <1>3 DEF OwnInv, Typed, Charts
<1> QED
  BY <1>1, <1>3, <1>4 DEF OwnInv, Listening, OwnCandles, LiveShowsOwn, CacheOwn

\* Only the last choice's request may write; what it writes is of its key.
LEMMA AnswerOwn ==
  ASSUME OwnInv, NEW e \in pending, Answer(e)
  PROVE  OwnInv'
<1>1. /\ effects \in Seq(Keys) /\ effects /= <<>> /\ now \in Nat
      /\ active \in Nat /\ active > 0 /\ chosen \in Keys /\ chosen = effects[active]
  BY EffectsLast DEF OwnInv, Typed
<1>2. /\ UNCHANGED <<now, bus, effects, clock>> /\ pending' = pending \ {e}
      /\ active' = active /\ chosen' = chosen
  BY DEF Answer, exchange, active, chosen
<1>3. CASE Disposed(e)
  <2>1. UNCHANGED <<series, status, cache, handlers>>
    BY <1>3 DEF Answer, link
  <2> QED
    BY <1>2, <2>1 DEF OwnInv, Typed, Charts, Listening, OwnCandles, LiveShowsOwn,
                      CacheOwn
<1>4. CASE ~Disposed(e)
  <2>1. e = active
    BY <1>1, <1>4 DEF Disposed, OwnInv, Typed
  <2>2. PICK f : /\ f \in Answers(chosen) \/ f = Mock(chosen)
                 /\ series' = f /\ Stored(chosen, f)
    BY <1>1, <1>4, <2>1 DEF Answer
  <2>3. Chart(f) /\ Of(f, chosen)
    BY <1>1, <2>2, AnswersOwn, MockOwn
  <2>4. /\ DOMAIN cache' = Keys /\ CacheOwn'
        /\ \A j \in Keys : Chart(cache'[j])
    BY <1>1, <2>2, <2>3, CacheOwnStored DEF OwnInv, Typed, OwnCandles
  <2>5. status' = "live" /\ handlers' = handlers \cup {active}
    BY <1>4, <2>1 DEF Answer
  <2>6. Typed' /\ Charts'
    BY <1>2, <2>2, <2>3, <2>4 DEF OwnInv, Typed, Charts
  <2>7. Listening'
    BY <1>2, <2>1, <2>5 DEF OwnInv, Listening
  <2>8. LiveShowsOwn'
    BY <1>2, <2>2, <2>3 DEF LiveShowsOwn, Of
  <2> QED
    BY <2>4, <2>6, <2>7, <2>8 DEF OwnInv, OwnCandles
<1> QED
  BY <1>3, <1>4

LEMMA FetchFailsOwn ==
  ASSUME OwnInv, NEW e \in pending, FetchFails(e)
  PROVE  OwnInv'
<1>1. active \in Nat /\ pending \subseteq 1..active
  BY EffectsLast DEF OwnInv, Typed
<1>2. /\ UNCHANGED <<now, bus, effects, series, clock, cache, handlers>>
      /\ pending' = pending \ {e} /\ active' = active /\ chosen' = chosen
      /\ status' = IF Disposed(e) THEN status ELSE "error"
  BY DEF FetchFails, exchange, link, active, chosen
<1>3. Listening'
  <2>1. CASE Disposed(e)
    BY <1>2, <2>1 DEF OwnInv, Listening
  <2>2. CASE ~Disposed(e)
    <3>1. e = active
      BY <1>1, <2>2 DEF Disposed
    <3> QED
      BY <1>2, <3>1 DEF OwnInv, Listening
  <2> QED
    BY <2>1, <2>2
<1> QED
  BY <1>2, <1>3
     DEF OwnInv, Typed, Charts, OwnCandles, LiveShowsOwn, CacheOwn

LEMMA TickOwn ==
  ASSUME OwnInv, Tick
  PROVE  OwnInv'
<1>1. chosen \in Keys /\ now \in Nat
  BY EffectsLast DEF OwnInv, Typed
<1>2. clock' \in Nat
  BY <1>1, HybridKlinesAssumption DEF Tick
<1>3. series' = Advanced(series, clock', Interval[chosen])
  BY DEF Tick
<1>4. Chart(series') /\ (Of(series, chosen) => Of(series', chosen))
  BY <1>1, <1>2, <1>3, KeyIntervals, AdvancedKeeps DEF OwnInv, Charts
<1>5. /\ UNCHANGED <<now, bus, effects, pending, status, cache, handlers>>
      /\ active' = active /\ chosen' = chosen
  BY DEF Tick, exchange, link, active, chosen
<1>6. Typed' /\ Charts' /\ Listening' /\ CacheOwn'
  BY <1>2, <1>4, <1>5
     DEF OwnInv, Typed, Charts, Listening, OwnCandles, CacheOwn
<1>7. LiveShowsOwn'
  BY <1>4, <1>5 DEF OwnInv, OwnCandles, LiveShowsOwn, Of
<1> QED
  BY <1>6, <1>7 DEF OwnInv, OwnCandles

LEMMA SocketOwn ==
  ASSUME OwnInv, SocketOpens \/ SocketDrops
  PROVE  OwnInv'
<1>1. /\ UNCHANGED <<now, bus, effects, pending, series, status, clock, cache, handlers>>
      /\ active' = active /\ chosen' = chosen
  BY DEF SocketOpens, SocketDrops, exchange, page, active, chosen
<1> QED
  BY <1>1 DEF OwnInv, Typed, Charts, Listening, OwnCandles, LiveShowsOwn, CacheOwn

\* An event that reaches a handler reaches that of the last choice, while the
\* chart is live; and it leaves a series of the chosen key.
LEMMA DeliverOwn ==
  ASSUME OwnInv, Deliver
  PROVE  OwnInv'
<1> DEFINE e == Head(bus)
           heard == {h \in handlers : /\ socket = "open"
                                      /\ ForKey(e, watched)
                                      /\ ForKey(e, effects[h])}
           idle == heard = {} \/ (e.kind /= "kline" /\ DOMAIN series = {})
<1>1. /\ effects \in Seq(Keys) /\ chosen \in Keys /\ chosen = effects[active]
  BY EffectsLast DEF OwnInv, Typed
<1>2. e \in Events /\ bus' \in Seq(Events)
  BY DEF Deliver, OwnInv, Typed
<1>3. /\ UNCHANGED <<now, effects, pending, status, clock, handlers>>
      /\ active' = active /\ chosen' = chosen
  BY DEF Deliver, link, active, chosen
<1>4. CASE idle
  <2>1. UNCHANGED <<series, cache>>
    BY <1>4 DEF Deliver
  <2> QED
    BY <1>2, <1>3, <2>1
       DEF OwnInv, Typed, Charts, Listening, OwnCandles, LiveShowsOwn, CacheOwn
<1>5. CASE ~idle
  <2>1. PICK h \in heard : series' = Shown(e, effects[h]) /\ Stored(effects[h], series')
    BY <1>5 DEF Deliver
  <2>2. h = active /\ effects[h] = chosen /\ status = "live"
    BY <1>1, <2>1 DEF OwnInv, Listening
  <2>3. Of(series, chosen) /\ Chart(series)
    BY <2>2 DEF OwnInv, OwnCandles, LiveShowsOwn, Charts, Of
  <2>4. Chart(series') /\ Of(series', chosen)
    <3>1. CASE e.kind = "kline"
      <4>1. series' = Upsert(series, Canonical(e.at), Item(chosen, e.final))
        BY <2>1, <2>2, <3>1 DEF Shown
      <4>2. Item(chosen, e.final) \in Items /\ Item(chosen, e.final).key = chosen
        BY <1>1, <1>2 DEF Item, Items, Events
      <4>3. Canonical(e.at) \in Nat
        BY <1>2, CanonicalNat DEF Events
      <4> HIDE DEF e
      <4> QED
        BY <2>3, <4>1, <4>2, <4>3, UpsertKeeps
    <3>2. CASE e.kind /= "kline"
      <4>1. series' = Ticked(series, e.at, Interval[chosen]) /\ DOMAIN series /= {}
        BY <1>5, <2>1, <2>2, <3>2 DEF Shown
      <4>2. e.at \in Nat
        BY <1>2 DEF Events
      <4> HIDE DEF e
      <4> QED
        BY <1>1, <2>3, <4>1, <4>2, KeyIntervals, TickedKeeps
    <3> QED
      BY <3>1, <3>2
  <2>5. /\ DOMAIN cache' = Keys /\ CacheOwn'
        /\ \A j \in Keys : Chart(cache'[j])
    BY <1>1, <2>1, <2>2, <2>4, CacheOwnStored DEF OwnInv, Typed, OwnCandles
  <2>6. Typed' /\ Charts' /\ Listening'
    BY <1>2, <1>3, <2>4, <2>5 DEF OwnInv, Typed, Charts, Listening
  <2>7. LiveShowsOwn'
    BY <1>3, <2>4 DEF LiveShowsOwn, Of
  <2> QED
    BY <2>5, <2>6, <2>7 DEF OwnInv, OwnCandles
<1> QED
  BY <1>4, <1>5

LEMMA StutterOwn ==
  ASSUME OwnInv, UNCHANGED vars
  PROVE  OwnInv'
<1>1. /\ UNCHANGED <<now, bus, effects, pending, series, status, clock, cache, handlers>>
      /\ active' = active /\ chosen' = chosen
  BY DEF vars, exchange, page, link, active, chosen
<1> QED
  BY <1>1 DEF OwnInv, Typed, Charts, Listening, OwnCandles, LiveShowsOwn, CacheOwn

LEMMA OwnStep == OwnInv /\ [Next]_vars => OwnInv'
<1> SUFFICES ASSUME OwnInv, [Next]_vars
             PROVE  OwnInv'
  OBVIOUS
<1>1. CASE Pass \/ Publish
  BY <1>1, ExchangeOwn
<1>2. CASE (\E k \in Keys : Choose(k)) \/ Reload
  BY <1>2, ChoiceOwn
<1>3. CASE \E e \in pending : Answer(e) \/ FetchFails(e)
  BY <1>3, AnswerOwn, FetchFailsOwn
<1>4. CASE Tick
  BY <1>4, TickOwn
<1>5. CASE SocketOpens \/ SocketDrops
  BY <1>5, SocketOwn
<1>6. CASE Deliver
  BY <1>6, DeliverOwn
<1>7. CASE UNCHANGED vars
  BY <1>7, StutterOwn
<1> QED
  BY <1>1, <1>2, <1>3, <1>4, <1>5, <1>6, <1>7 DEF Next

-----------------------------------------------------------------------------
\* Candles and time.
Opens(k, n) == Phase[k] + n * Interval[k]

LEMMA Candle ==
  ASSUME NEW k \in Keys, NEW n \in Nat
  PROVE  /\ Opens(k, n) \in Nat
         /\ CloseTime(k, n) \in Nat /\ CloseTime(k, n) = Opens(k, n) + Interval[k] - 1
         /\ Stamp(k, n) \in Nat /\ Stamp(k, n) = CloseTime(k, n) - 1
         /\ Opens(k, n + 1) = CloseTime(k, n) + 1
<1>1. /\ Interval[k] \in Nat \ {0} /\ Interval[k] % 2 = 0
      /\ Phase[k] \in Nat /\ Phase[k] % 2 = 0
  BY HybridKlinesAssumption DEF Second
<1>2. PICK h \in Nat : Interval[k] = 2 * h /\ h > 0
  <2>1. Interval[k] \div 2 \in Nat /\ Interval[k] = 2 * (Interval[k] \div 2)
    BY <1>1
  <2> QED
    BY <1>1, <2>1
<1>3. PICK g \in Nat : Phase[k] = 2 * g
  <2>1. Phase[k] \div 2 \in Nat /\ Phase[k] = 2 * (Phase[k] \div 2)
    BY <1>1
  <2> QED
    BY <2>1
<1>4. (n + 1) * (2 * h) = 2 * ((n + 1) * h) /\ (n + 1) * h \in Nat
  BY SMT
<1>5. (n + 1) * h = n * h + h /\ n * h \in Nat /\ n * (2 * h) = 2 * (n * h)
  BY SMT
<1> DEFINE p == n * h
<1>6. p \in Nat
  BY <1>5
<1>7. /\ CloseTime(k, n) = 2 * g + 2 * (p + h) - 1
      /\ Opens(k, n) = 2 * g + 2 * p
      /\ Opens(k, n + 1) = 2 * g + 2 * (p + h)
  BY <1>2, <1>3, <1>4, <1>5 DEF CloseTime, Opens
<1> HIDE DEF p
<1>8. (2 * g + 2 * (p + h) - 1) % 2 = 1
  BY <1>2, <1>6
<1>9. Stamp(k, n) = CloseTime(k, n) - 1
  BY <1>2, <1>6, <1>7, <1>8 DEF Stamp, Canonical, Second
<1> QED
  BY <1>2, <1>6, <1>7, <1>9

\* Later candles close later, and those that close later are later.
LEMMA CandleOrder ==
  ASSUME NEW k \in Keys, NEW n \in Nat, NEW m \in Nat
  PROVE  /\ n < m => CloseTime(k, n) < Opens(k, m) + 1 /\ CloseTime(k, n) < CloseTime(k, m)
         /\ Opens(k, n) <= CloseTime(k, m) => n <= m
<1>1. Interval[k] \in Nat /\ Interval[k] >= 2 /\ Phase[k] \in Nat
  BY KeyIntervals DEF Second
<1>2. n < m => n * Interval[k] + Interval[k] <= m * Interval[k]
  BY <1>1, SMT
<1>3. m < n => m * Interval[k] + Interval[k] <= n * Interval[k]
  BY <1>1, SMT
<1> DEFINE p == n * Interval[k]
           q == m * Interval[k]
<1>4. p \in Nat /\ q \in Nat
  BY <1>1, SMT
<1>5. /\ Opens(k, n) = Phase[k] + p /\ Opens(k, m) = Phase[k] + q
      /\ CloseTime(k, n) = Phase[k] + p + Interval[k] - 1
      /\ CloseTime(k, m) = Phase[k] + q + Interval[k] - 1
  BY Candle DEF Opens
<1>6. (n < m => p + Interval[k] <= q) /\ (m < n => q + Interval[k] <= p)
  BY <1>2, <1>3
<1> HIDE DEF p, q
<1> QED
  BY <1>1, <1>4, <1>5, <1>6

\* The candle in progress at a time has opened, and closes at that time or later.
LEMMA InProgressNow ==
  ASSUME NEW k \in Keys, NEW t \in Nat, t >= Phase[k]
  PROVE  /\ InProgress(k, t) \in Nat
         /\ Opens(k, InProgress(k, t)) <= t /\ t <= CloseTime(k, InProgress(k, t))
<1>1. Interval[k] \in Nat /\ Interval[k] >= 2 /\ Phase[k] \in Nat
  BY KeyIntervals DEF Second
<1> DEFINE a == t - Phase[k]
           c == a \div Interval[k]
<1>2. a \in Nat
  BY <1>1
<1>3. /\ c \in Nat /\ c * Interval[k] \in Nat
      /\ c * Interval[k] <= a /\ a < c * Interval[k] + Interval[k]
  <2> HIDE DEF a
  <2> QED
    BY <1>1, <1>2, SMT
<1>4. InProgress(k, t) = c
  BY DEF InProgress
<1>5. Opens(k, c) = Phase[k] + c * Interval[k]
  BY DEF Opens
<1>6. CloseTime(k, c) = Opens(k, c) + Interval[k] - 1
  BY <1>3, Candle
<1> DEFINE p == c * Interval[k]
<1>7. p \in Nat /\ p <= t - Phase[k] /\ t - Phase[k] < p + Interval[k]
      /\ Opens(k, c) = Phase[k] + p
  BY <1>3, <1>5
<1> HIDE DEF p, c
<1> QED
  BY <1>1, <1>3, <1>4, <1>6, <1>7

\* The client never expects a candle to close before a trade that is in it.
LEMMA ClientCloseAbove ==
  ASSUME NEW t \in Nat, NEW len \in Nat, len >= Second
  PROVE  ClientClose(t, len) \in Nat /\ ClientClose(t, len) >= t - 1
<1>1. ClientClose(t, len) \in Nat
  BY ClientCloseNat
<1> DEFINE p == (t \div len) * len
<1>2. p \in Nat /\ t < p + len
  BY SMT DEF Second
<1>3. ClientClose(t, len) = p + len - 2
  BY DEF ClientClose, Second
<1> HIDE DEF p
<1> QED
  BY <1>1, <1>2, <1>3 DEF Second

-----------------------------------------------------------------------------
\* Types, beside OwnInv.
Rest ==
  /\ status \in {"loading", "live", "error"}
  /\ socket \in {"none", "connecting", "open", "dead"}
  /\ watched \in Keys
  /\ opened \in Nat
  /\ missed \subseteq Keys \X Nat
  /\ spoilt \subseteq Nat
  /\ faults \in 0..MaxFaults

\* A socket is there for the last choice, whose handlers listen to it.
Linked == socket /= "none" => handlers = {active} /\ watched = chosen

LEMMA RestTypes == OwnInv /\ Rest => TypeOK
<1> SUFFICES ASSUME OwnInv, Rest PROVE TypeOK
  OBVIOUS
<1>1. \A f : Chart(f) => IsSeries(f)
  BY DEF Chart, Stamped, IsSeries, Items
<1>2. IsSeries(series) /\ \A k \in Keys : IsSeries(cache[k])
  BY <1>1 DEF OwnInv, Charts
<1>3. \A i \in DOMAIN bus : bus[i].kind \in {"kline", "trade", "late"}
  <2>1. \A i \in DOMAIN bus : bus[i] \in Events
    BY DEF OwnInv, Typed
  <2> QED
    BY <2>1 DEF Events
<1> QED
  BY <1>2, <1>3 DEF OwnInv, Typed, Listening, Rest, TypeOK

LEMMA InitRest == Init => Rest /\ Linked
<1> SUFFICES ASSUME Init PROVE Rest /\ Linked
  OBVIOUS
<1>1. chosen \in Keys
  BY InitOwn, EffectsLast DEF OwnInv, Typed
<1>2. 0 \in 0..MaxFaults
  BY HybridKlinesAssumption
<1> QED
  BY <1>1, <1>2 DEF Init, Rest, Linked

LEMMA RestStep ==
  ASSUME OwnInv, Rest, Linked, [Next]_vars
  PROVE  Rest' /\ Linked'
<1> USE DEF Rest
<1>0. /\ effects \in Seq(Keys) /\ effects /= <<>> /\ chosen \in Keys
      /\ chosen = effects[active] /\ active \in Nat /\ now \in Nat
      /\ pending \subseteq 1..active
  BY EffectsLast DEF OwnInv, Typed
<1>1. ASSUME NEW kind, Fault(kind)
      PROVE  faults' \in 0..MaxFaults
  BY <1>1, HybridKlinesAssumption DEF Fault
<1>2. ASSUME UNCHANGED <<effects, socket, watched, handlers>>
      PROVE  Linked'
  BY <1>2 DEF Linked, active, chosen
<1>3. CASE Pass
  <2>1. /\ UNCHANGED <<status, socket, watched, opened, spoilt, effects, handlers>>
        /\ \/ UNCHANGED <<missed, faults>>
           \/ /\ Fault("outage") /\ missed' = missed \cup {<<chosen, Current>>}
              /\ ~(now < Phase[chosen])
    BY <1>3 DEF Pass, page, link
  <2>2. ~(now < Phase[chosen]) => Current \in Nat
    BY <1>0, InProgressNow, KeyIntervals DEF Current
  <2> QED
    BY <1>0, <1>1, <1>2, <2>1, <2>2
<1>4. CASE Publish
  BY <1>2, <1>4 DEF Publish, page, link
<1>5. CASE (\E k \in Keys : Choose(k)) \/ Reload
  <2>1. /\ status' = "loading" /\ socket' = "none" /\ opened' = 0 /\ spoilt' = {}
        /\ UNCHANGED <<watched, missed, faults>>
    BY <1>5 DEF Choose, Reload, Bootstrap, Dispose, exchange
  <2> QED
    BY <2>1 DEF Linked
<1>6. ASSUME NEW e \in pending, Answer(e)
      PROVE  Rest' /\ Linked'
  <2>1. UNCHANGED <<opened, missed, effects>> /\ faults' \in 0..MaxFaults
    BY <1>1, <1>6 DEF Answer, exchange, link
  <2>2. CASE Disposed(e)
    BY <1>2, <1>6, <2>1, <2>2 DEF Answer, link
  <2>3. CASE ~Disposed(e)
    <3>1. e = active
      BY <1>0, <2>3 DEF Disposed
    <3>2. handlers = {} /\ socket = "none"
      BY <3>1 DEF OwnInv, Listening, Linked
    <3>3. /\ status' = "live" /\ spoilt' = {} /\ socket' = "connecting"
          /\ handlers' = {active} /\ watched' = chosen
      BY <1>0, <1>6, <2>3, <3>1, <3>2 DEF Answer
    <3> QED
      BY <1>0, <2>1, <3>3 DEF Linked, active, chosen
  <2> QED
    BY <2>2, <2>3
<1>7. ASSUME NEW e \in pending, FetchFails(e)
      PROVE  Rest' /\ Linked'
  BY <1>1, <1>2, <1>7 DEF FetchFails, exchange, link
<1>8. CASE Tick
  BY <1>2, <1>8 DEF Tick, exchange, link
<1>9. CASE SocketOpens
  BY <1>0, <1>9 DEF SocketOpens, exchange, page, Linked, active, chosen
<1>10. CASE SocketDrops
  BY <1>1, <1>10 DEF SocketDrops, exchange, page, Linked, active, chosen
<1>11. CASE Deliver
  <2>1. UNCHANGED <<missed, effects, status, socket, watched, handlers, opened, faults>>
    BY <1>11 DEF Deliver, link
  <2>2. spoilt' \subseteq Nat
    <3>1. \/ spoilt' = spoilt
          \/ DOMAIN series /= {} /\ spoilt' = spoilt \cup {Max(DOMAIN series)}
      BY <1>11 DEF Deliver
    <3>2. DOMAIN series \in SUBSET Nat /\ Bounded(DOMAIN series)
      BY DEF OwnInv, Charts, Chart, Stamped
    <3> QED
      BY <3>1, <3>2, HasMax
  <2> QED
    BY <1>2, <2>1, <2>2
<1>12. CASE UNCHANGED vars
  BY <1>2, <1>12 DEF vars, exchange, page, link
<1> QED
  BY <1>3, <1>4, <1>5, <1>6, <1>7, <1>8, <1>9, <1>10, <1>11, <1>12 DEF Next

-----------------------------------------------------------------------------
\* Where the values of a closed candle are on the chart: under its stamp, or it
\* is older than all that is shown.
Holds(f, s) ==
  \/ s \in DOMAIN f /\ f[s].final
  \/ \A t \in DOMAIN f : s < t

LEMMA NormalizedHolds ==
  ASSUME NEW f, Stamped(f), NEW s \in Nat, Holds(f, s)
  PROVE  Holds(Normalized(f), s)
<1> DEFINE D == DOMAIN f
<1>1. D \in SUBSET Nat /\ IsFiniteSet(D)
  BY BoundedFinite DEF Stamped
<1>2. /\ DOMAIN Normalized(f) = Newest(D)
      /\ \A t \in Newest(D) : Normalized(f)[t] = f[t]
  BY DEF Normalized, Restrict
<1> HIDE DEF D
<1>3. /\ Newest(D) \in SUBSET D
      /\ \A t \in D : t \in Newest(D) <=> Cardinality(Above(D, t)) < Limit
  BY DEF Newest, Above
<1>4. ASSUME s \in D, s \notin Newest(D), NEW t \in Newest(D)
      PROVE  s < t
  <2> SUFFICES ASSUME ~(s < t) PROVE FALSE
    OBVIOUS
  <2>1. t < s /\ t \in Nat /\ t \in D
    <3>1. t \in D /\ t \in Nat /\ t /= s
      BY <1>1, <1>3, <1>4
    <3> QED
      BY <3>1
  <2>2. \A u \in D : u > s => u > t
    BY <1>1, <2>1
  <2>3. Above(D, s) \in SUBSET Above(D, t) /\ Above(D, t) \in SUBSET D
    BY <2>2 DEF Above
  <2>4. /\ IsFiniteSet(Above(D, t))
        /\ Cardinality(Above(D, s)) <= Cardinality(Above(D, t))
    BY <1>1, <2>3, FS_Subset
  <2>5. IsFiniteSet(Above(D, s))
    BY <2>3, <2>4, FS_Subset
  <2>6. /\ Cardinality(Above(D, s)) \in Nat /\ Cardinality(Above(D, t)) \in Nat
        /\ Limit \in Nat
    BY <2>4, <2>5, FS_CardinalityType, HybridKlinesAssumption
  <2>7. Cardinality(Above(D, t)) < Limit /\ ~(Cardinality(Above(D, s)) < Limit)
    BY <1>3, <1>4
  <2> QED
    BY <2>4, <2>6, <2>7
<1>5. CASE s \in D /\ f[s].final
  BY <1>2, <1>4, <1>5 DEF Holds
<1>6. CASE \A t \in D : s < t
  BY <1>2, <1>3, <1>6 DEF Holds
<1> QED
  BY <1>5, <1>6 DEF Holds, D

\* Nothing older than the candle is put on the chart, and of itself only what
\* it closed with.
LEMMA UpsertHolds ==
  ASSUME NEW f, Chart(f), NEW s \in Nat, NEW t \in Nat, NEW item \in Items,
         \/ t = s /\ item.final
         \/ s < t /\ Holds(f, s)
  PROVE  Holds(Upsert(f, t, item), s)
<1> DEFINE g == [u \in DOMAIN f \cup {t} |-> IF u = t THEN item ELSE f[u]]
<1>1. Bounded({t}) /\ {t} \in SUBSET Nat
  BY DEF Bounded
<1>2. Bounded(DOMAIN g) /\ DOMAIN g \in SUBSET Nat
  BY <1>1, BoundedUnion DEF Chart, Stamped
<1>3. Stamped(g)
  BY <1>2 DEF Chart, Stamped
<1>4. Holds(g, s)
  <2>1. CASE t = s /\ item.final
    BY <2>1 DEF Holds
  <2>2. CASE s < t /\ s \in DOMAIN f /\ f[s].final
    BY <2>2 DEF Holds
  <2>3. CASE s < t /\ \A u \in DOMAIN f : s < u
    BY <2>3 DEF Holds
  <2> QED
    BY <2>1, <2>2, <2>3 DEF Holds
<1>5. Upsert(f, t, item) = Normalized(g)
  BY DEF Upsert
<1> HIDE DEF g
<1> QED
  BY <1>3, <1>4, <1>5, NormalizedHolds

\* The candles of the clock come after all others.
LEMMA AdvancedHolds ==
  ASSUME NEW f, Chart(f), NEW t \in Nat, NEW len \in Nat, len >= Second,
         NEW s \in Nat, Holds(f, s)
  PROVE  Holds(Advanced(f, t, len), s)
<1>1. CASE DOMAIN f = {}
  BY <1>1 DEF Advanced
<1>2. CASE DOMAIN f /= {}
  <2> DEFINE last == Max(DOMAIN f)
  <2>1. PICK g : /\ Advanced(f, t, len) = Normalized(g) /\ Stamped(g)
                 /\ DOMAIN f \in SUBSET DOMAIN g
                 /\ \A u \in DOMAIN g : \/ u \in DOMAIN f /\ g[u] = f[u]
                                        \/ u \in Nat /\ u > last
    BY <1>2, AdvancedIs
  <2>2. last \in Nat /\ last \in DOMAIN f /\ \A u \in DOMAIN f : u <= last /\ u \in Nat
    BY <1>2, HasMax DEF Chart, Stamped
  <2> HIDE DEF last
  <2>3. CASE s \in DOMAIN f /\ f[s].final
    <3>1. s <= last /\ ~(s > last)
      BY <2>2, <2>3
    <3> QED
      BY <2>1, <2>3, <3>1, NormalizedHolds DEF Holds
  <2>4. CASE \A u \in DOMAIN f : s < u
    <3>1. \A u \in DOMAIN g : s < u
      BY <2>1, <2>2, <2>4
    <3> QED
      BY <2>1, <3>1, NormalizedHolds DEF Holds
  <2> QED
    BY <2>3, <2>4 DEF Holds
<1> QED
  BY <1>1, <1>2

\* A trade spoils a candle only if it comes after the event that closed it, and
\* only the last one on the chart.
LEMMA TickedHolds ==
  ASSUME NEW f, Chart(f), DOMAIN f /= {},
         NEW t \in Nat, NEW len \in Nat, len >= Second,
         NEW s \in Nat, Holds(f, s), t > s
  PROVE  \/ Holds(Ticked(f, t, len), s)
         \/ t = s + 1 /\ Max(DOMAIN f) = s
<1> DEFINE last == Max(DOMAIN f)
           its  == ClientClose(t, len)
           u    == IF its <= last THEN last ELSE its
           item == Unfinished(Newer(f))
<1>1. /\ last \in DOMAIN f /\ last \in Nat /\ Newer(f) = f[last] /\ f[last] \in Items
      /\ \A v \in DOMAIN f : v <= last
  BY HasMax DEF Chart, Stamped, Newer
<1>2. item \in Items
  BY <1>1, UnfinishedItem
<1>3. its \in Nat /\ its >= t - 1
  BY ClientCloseAbove
<1>4. Ticked(f, t, len) = Upsert(f, u, item)
  BY DEF Ticked
<1>5. u \in Nat /\ u >= its /\ u >= last /\ (u = its \/ u = last)
  <2> HIDE DEF its, last
  <2> QED
    BY <1>1, <1>3
<1> HIDE DEF u, item, its, last
<1>6. CASE u > s
  BY <1>2, <1>4, <1>5, <1>6, UpsertHolds
<1>7. CASE ~(u > s)
  <2>1. u = s /\ its = s /\ t = s + 1
    BY <1>3, <1>5, <1>7
  <2>2. last = s
    <3>1. CASE s \in DOMAIN f
      <4>1. s <= last
        BY <1>1, <3>1
      <4> QED
        BY <1>1, <1>5, <2>1, <4>1
    <3>2. CASE \A v \in DOMAIN f : s < v
      <4>1. s < last
        BY <1>1, <3>2
      <4> QED
        BY <1>1, <1>5, <2>1, <4>1
    <3> QED
      BY <3>1, <3>2 DEF Holds
  <2> QED
    BY <2>1, <2>2 DEF last
<1> QED
  BY <1>6, <1>7

-----------------------------------------------------------------------------
\* Events tell of candles that have opened and of trades that were made.
OnTime(e, t) ==
  IF e.kind = "kline"
    THEN /\ e.of \in Keys
         /\ \E n \in Nat : e.at = CloseTime(e.of, n) /\ Opens(e.of, n) <= t
    ELSE e.at <= t
BusTimes == \A i \in 1..Len(bus) : OnTime(bus[i], now)

\* What an event that is published now tells of: nothing that closed before.
LEMMA PublishedNow ==
  ASSUME OwnInv, Pass \/ Publish,
         bus' /= bus
  PROVE  \E e \in Events :
           /\ bus' = Append(bus, e) /\ OnTime(e, now)
           /\ e.kind = "late" => e.at = now - 1
           /\ e.kind /= "late" => e.at >= now
<1>0. /\ chosen \in Keys /\ now \in Nat
  BY EffectsLast DEF OwnInv, Typed
<1>1. Phase[chosen] \in Nat
  BY <1>0, KeyIntervals
<1>2. now >= Phase[chosen]
  <2>1. ~(now < Phase[chosen]) \/ now > Phase[chosen]
    BY DEF Pass, Publish
  <2> QED
    BY <1>0, <1>1, <2>1
<1>3. /\ Current \in Nat /\ Opens(chosen, Current) <= now
      /\ CloseTime(chosen, Current) \in Nat /\ now <= CloseTime(chosen, Current)
  BY <1>0, <1>2, InProgressNow, Candle DEF Current
<1>4. ASSUME NEW final \in BOOLEAN
      PROVE  LET e == Kline(chosen, Current, final)
             IN  /\ e \in Events /\ OnTime(e, now) /\ e.kind = "kline" /\ e.at >= now
  BY <1>0, <1>3 DEF Kline, Events, OnTime
<1>5. LET e == Trade("trade", Symbol[chosen], now)
      IN  e \in Events /\ OnTime(e, now) /\ e.kind = "trade" /\ e.at >= now
  BY <1>0 DEF Trade, Events, OnTime
<1>6. ASSUME Publish
      PROVE  LET e == Trade("late", Symbol[chosen], now - 1)
             IN  e \in Events /\ OnTime(e, now) /\ e.kind = "late" /\ e.at = now - 1
  <2>1. now > Phase[chosen]
    BY <1>6 DEF Publish
  <2>2. now - 1 \in Nat
    BY <1>0, <1>1, <2>1
  <2> QED
    BY <1>0, <2>2 DEF Trade, Events, OnTime
<1>7. \/ bus' = Append(bus, Kline(chosen, Current, TRUE))
      \/ bus' = Append(bus, Kline(chosen, Current, FALSE))
      \/ bus' = Append(bus, Trade("trade", Symbol[chosen], now))
      \/ Publish /\ bus' = Append(bus, Trade("late", Symbol[chosen], now - 1))
  BY DEF Pass, Publish, Published
<1> QED
  BY <1>4, <1>5, <1>6, <1>7

LEMMA BusTimesStep ==
  ASSUME OwnInv, BusTimes, [Next]_vars
  PROVE  BusTimes'
<1>0. bus \in Seq(Events) /\ now \in Nat
  BY DEF OwnInv, Typed
<1>1. now' \in Nat /\ now' >= now
  <2>1. now' = now \/ now' = now + 1
    BY DEF Next, vars, exchange, Pass, Publish, Choose, Answer, FetchFails, Reload, Tick,
           SocketOpens, SocketDrops, Deliver
  <2> QED
    BY <1>0, <2>1
<1>2. ASSUME NEW e \in Events, OnTime(e, now)
      PROVE  OnTime(e, now')
  <2>1. CASE e.kind = "kline"
    <3>1. PICK n \in Nat : e.at = CloseTime(e.of, n) /\ Opens(e.of, n) <= now
      BY <1>2, <2>1 DEF OnTime
    <3>2. e.of \in Keys /\ Opens(e.of, n) \in Nat
      BY <1>2, <2>1, Candle DEF OnTime
    <3>3. Opens(e.of, n) <= now'
      BY <1>0, <1>1, <3>1, <3>2
    <3> QED
      BY <2>1, <3>1, <3>2, <3>3 DEF OnTime
  <2>2. CASE e.kind /= "kline"
    <3>1. e.at \in Nat
      BY DEF Events
    <3> QED
      BY <1>0, <1>1, <1>2, <2>2, <3>1 DEF OnTime
  <2> QED
    BY <2>1, <2>2
<1>3. \A i \in 1..Len(bus) : bus[i] \in Events /\ OnTime(bus[i], now')
  <2>1. \A i \in 1..Len(bus) : bus[i] \in Events /\ OnTime(bus[i], now)
    BY <1>0 DEF BusTimes
  <2>2. \A e \in Events : OnTime(e, now) => OnTime(e, now')
    BY <1>2
  <2> QED
    BY <2>1, <2>2
<1>4. CASE UNCHANGED bus
  BY <1>3, <1>4 DEF BusTimes
<1>5. CASE (Pass \/ Publish) /\ bus' /= bus
  <2>1. PICK e \in Events : bus' = Append(bus, e) /\ OnTime(e, now)
    BY <1>5, PublishedNow
  <2>2. OnTime(e, now')
    BY <1>2, <2>1
  <2>3. /\ Len(bus') = Len(bus) + 1 /\ Len(bus) \in Nat
        /\ \A i \in 1..Len(bus) : bus'[i] = bus[i]
        /\ bus'[Len(bus) + 1] = e
    BY <1>0, <2>1, AppendProperties
  <2>4. \A i \in 1..Len(bus') : i \in 1..Len(bus) \/ i = Len(bus) + 1
    BY <2>3
  <2> QED
    BY <1>3, <2>2, <2>3, <2>4 DEF BusTimes
<1>6. CASE Deliver
  <2>1. bus /= <<>> /\ bus' = Tail(bus)
    BY <1>6 DEF Deliver
  <2>2. /\ Len(bus) \in Nat \ {0} /\ Len(bus') = Len(bus) - 1
        /\ \A i \in 1..(Len(bus) - 1) : bus'[i] = bus[i + 1]
    BY <1>0, <2>1, HeadTailProperties
  <2>3. \A i \in 1..(Len(bus) - 1) : i + 1 \in 1..Len(bus)
    BY <2>2
  <2> QED
    BY <1>3, <2>2, <2>3 DEF BusTimes
<1> QED
  BY <1>4, <1>5, <1>6 DEF Next, vars, exchange, Choose, Answer, FetchFails, Reload, Tick,
     SocketOpens, SocketDrops

-----------------------------------------------------------------------------
\* The way of a closed candle from the bus to the chart.  While the socket is
\* open, the event of a candle that closed since it opened is at some place i of
\* the bus, or (i = 0) it was delivered and the chart holds its values; and what
\* comes after it on the bus tells of later candles, but for trades that are
\* late.
Settled(n) == \/ Holds(series, Stamp(chosen, n))
              \/ Stamp(chosen, n) \in spoilt

Later(e, n) == /\ e.kind /= "late" => e.at > CloseTime(chosen, n)
               /\ e.kind = "late" => e.at >= CloseTime(chosen, n)

Reached(i, n) ==
  /\ i = 0 => Settled(n)
  /\ i /= 0 => bus[i] = Kline(chosen, n, TRUE)
  /\ \A j \in (i + 1)..Len(bus) : Later(bus[j], n)

Due(n) == /\ CloseTime(chosen, n) \in opened..(now - 1)
          /\ <<chosen, n>> \notin missed

Followed ==
  socket = "open" => \A n \in Nat : Due(n) => \E i \in 0..Len(bus) : Reached(i, n)

LEMMA ExchangeFollowed ==
  ASSUME OwnInv, Rest, Followed, Pass \/ Publish
  PROVE  Followed'
<1> SUFFICES ASSUME socket' = "open", NEW n \in Nat, Due(n)'
             PROVE  \E i \in 0..Len(bus') : Reached(i, n)'
  BY DEF Followed
<1>0. /\ bus \in Seq(Events) /\ now \in Nat /\ chosen \in Keys /\ opened \in Nat
      /\ Len(bus) \in Nat
  BY EffectsLast DEF OwnInv, Typed, Rest
<1>1. /\ UNCHANGED <<effects, series, spoilt, opened, socket>> /\ chosen' = chosen
      /\ missed \subseteq missed' /\ now' \in {now, now + 1}
  BY DEF Pass, Publish, page, link, chosen
<1>2. CloseTime(chosen, n) \in Nat /\ CloseTime(chosen, n)' = CloseTime(chosen, n)
  BY <1>0, <1>1, Candle DEF CloseTime
<1>3. /\ CloseTime(chosen, n) >= opened /\ CloseTime(chosen, n) <= now' - 1
      /\ <<chosen, n>> \notin missed'
  BY <1>0, <1>1, <1>2 DEF Due
<1>4. CASE CloseTime(chosen, n) <= now - 1
  <2>1. Due(n)
    BY <1>0, <1>1, <1>2, <1>3, <1>4 DEF Due
  <2>2. PICK i \in 0..Len(bus) : Reached(i, n)
    BY <1>1, <2>1 DEF Followed
  <2>3. CASE bus' = bus
    BY <1>1, <2>2, <2>3 DEF Reached, Settled, Later
  <2>4. CASE bus' /= bus
    <3>1. PICK e \in Events : /\ bus' = Append(bus, e)
                              /\ e.kind = "late" => e.at = now - 1
                              /\ e.kind /= "late" => e.at >= now
      BY <2>4, PublishedNow
    <3>2. e.at \in Nat
      BY DEF Events
    <3>3. Later(e, n)
      BY <1>0, <1>2, <1>4, <3>1, <3>2 DEF Later
    <3>4. /\ Len(bus') = Len(bus) + 1
          /\ \A j \in 1..Len(bus) : bus'[j] = bus[j]
          /\ bus'[Len(bus) + 1] = e
      BY <1>0, <3>1, AppendProperties
    <3>5. i \in 0..Len(bus') /\ (i /= 0 => i \in 1..Len(bus))
      BY <1>0, <3>4
    <3>6. ASSUME NEW j \in (i + 1)..Len(bus')
          PROVE  Later(bus'[j], n)
      <4>1. (j \in (i + 1)..Len(bus) /\ j \in 1..Len(bus)) \/ j = Len(bus) + 1
        BY <1>0, <3>4
      <4>2. CASE j \in (i + 1)..Len(bus) /\ j \in 1..Len(bus)
        <5>1. Later(bus[j], n) /\ bus'[j] = bus[j]
          BY <2>2, <3>4, <4>2 DEF Reached
        <5> QED
          BY <5>1
      <4>3. CASE j = Len(bus) + 1
        BY <3>3, <3>4, <4>3
      <4> QED
        BY <4>1, <4>2, <4>3
    <3>7. \A j \in (i + 1)..Len(bus') : Later(bus[j], n)'
      BY <1>1, <1>2, <3>6 DEF Later
    <3>8. (i = 0 => Settled(n)') /\ (i /= 0 => bus'[i] = Kline(chosen, n, TRUE)')
      BY <1>1, <2>2, <3>4, <3>5 DEF Reached, Settled
    <3> QED
      BY <3>5, <3>7, <3>8 DEF Reached
  <2> QED
    BY <2>3, <2>4
<1>5. CASE ~(CloseTime(chosen, n) <= now - 1)
  <2>1. CloseTime(chosen, n) = now /\ now' /= now
    BY <1>0, <1>1, <1>2, <1>3, <1>5
  <2>2. Pass
    BY <2>1 DEF Publish
  <2>3. now >= Phase[chosen]
    <3>1. /\ CloseTime(chosen, n) = Opens(chosen, n) + Interval[chosen] - 1
          /\ Interval[chosen] \in Nat /\ Interval[chosen] >= 2 /\ Phase[chosen] \in Nat
      BY <1>0, Candle, KeyIntervals DEF Second
    <3>2. Opens(chosen, n) \in Nat /\ Opens(chosen, n) >= Phase[chosen]
      <4>1. n * Interval[chosen] \in Nat
        BY <3>1, SMT
      <4> QED
        BY <3>1, <4>1 DEF Opens
    <3> QED
      BY <2>1, <3>1, <3>2
  <2>4. Current = n
    <3>1. /\ Current \in Nat
          /\ Opens(chosen, Current) <= now /\ now <= CloseTime(chosen, Current)
      BY <1>0, <2>3, InProgressNow DEF Current
    <3>2. Opens(chosen, n) <= CloseTime(chosen, Current)
      <4>1. /\ Opens(chosen, n) \in Nat /\ Opens(chosen, n) <= CloseTime(chosen, n)
            /\ CloseTime(chosen, Current) \in Nat
        <5>1. Interval[chosen] \in Nat /\ Interval[chosen] >= 2
          BY <1>0, KeyIntervals DEF Second
        <5>2. /\ Opens(chosen, n) \in Nat
              /\ CloseTime(chosen, n) = Opens(chosen, n) + Interval[chosen] - 1
          BY <1>0, Candle
        <5>3. CloseTime(chosen, Current) \in Nat
          BY <1>0, <3>1, Candle
        <5> QED
          BY <5>1, <5>2, <5>3
      <4> QED
        BY <1>0, <2>1, <3>1, <4>1
    <3>3. n <= Current /\ Current <= n
      BY <1>0, <2>1, <3>1, <3>2, CandleOrder
    <3> QED
      BY <3>1, <3>3
  <2>5. Published(Kline(chosen, n, TRUE))
    <3>1. ~(now < Phase[chosen])
      BY <1>0, <2>3, KeyIntervals
    <3> QED
      BY <1>3, <2>1, <2>2, <2>4, <3>1 DEF Pass
  <2>6. Kline(chosen, n, TRUE) \in Events
    BY <1>0, <1>2 DEF Kline, Events
  <2>7. /\ Len(bus') = Len(bus) + 1 /\ bus'[Len(bus) + 1] = Kline(chosen, n, TRUE)
    BY <1>0, <2>5, <2>6, AppendProperties DEF Published
  <2>8. Kline(chosen, n, TRUE)' = Kline(chosen, n, TRUE)
    BY <1>1
  <2>9. PICK i \in Nat : i = Len(bus) + 1
    BY <1>0
  <2>10. Reached(i, n)'
    <3>1. i /= 0 /\ (i + 1)..Len(bus') = {}
      BY <1>0, <2>7, <2>9
    <3> QED
      BY <2>7, <2>8, <2>9, <3>1 DEF Reached
  <2>11. i \in 0..Len(bus')
    BY <1>0, <2>7, <2>9
  <2> QED
    BY <2>10, <2>11
<1> QED
  BY <1>4, <1>5

\* A delivered event is the closing one of the candle, which is then on the
\* chart; or one that comes after it; or one that comes before it.
LEMMA DeliverFollowed ==
  ASSUME OwnInv, Rest, Linked, BusTimes, Followed, Deliver
  PROVE  Followed'
<1> SUFFICES ASSUME socket' = "open", NEW n \in Nat, Due(n)'
             PROVE  \E i \in 0..Len(bus') : Reached(i, n)'
  BY DEF Followed
<1> DEFINE e == Head(bus)
           s == Stamp(chosen, n)
           heard == {h \in handlers : /\ socket = "open"
                                      /\ ForKey(e, watched)
                                      /\ ForKey(e, effects[h])}
           idle == heard = {} \/ (e.kind /= "kline" /\ DOMAIN series = {})
<1>0. /\ bus \in Seq(Events) /\ now \in Nat /\ chosen \in Keys /\ bus /= <<>>
      /\ chosen = effects[active] /\ Chart(series) /\ bus' = Tail(bus)
  BY EffectsLast DEF OwnInv, Typed, Charts, Deliver
<1>1. /\ UNCHANGED <<now, missed, effects, opened, socket>> /\ chosen' = chosen
  BY DEF Deliver, link, chosen
<1>2. /\ e \in Events /\ e = bus[1]
      /\ Len(bus) \in Nat \ {0} /\ Len(bus') = Len(bus) - 1
      /\ \A j \in 1..(Len(bus) - 1) : bus'[j] = bus[j + 1]
  BY <1>0, HeadTailProperties
<1>3. handlers = {active} /\ watched = chosen /\ socket = "open"
  BY <1>1 DEF Linked
<1>4. /\ s \in Nat /\ CloseTime(chosen, n) \in Nat /\ s = CloseTime(chosen, n) - 1
      /\ s = Canonical(CloseTime(chosen, n))
  BY <1>0, Candle DEF Stamp
<1>5. Due(n)
  BY <1>1 DEF Due, CloseTime
<1>6. PICK i \in 0..Len(bus) : Reached(i, n)
  BY <1>3, <1>5 DEF Followed
<1>61. i /= 0 => bus[i] = Kline(chosen, n, TRUE)
  BY <1>6 DEF Reached
<1>62. i \in Nat
  BY <1>2
<1>7. ForKey(e, chosen) =>
         \/ e.kind /= "kline" /\ DOMAIN series = {}
         \/ /\ series' = Shown(e, chosen)
            /\ spoilt' = IF e.kind = "late" THEN spoilt \cup {Max(DOMAIN series)} ELSE spoilt
  BY <1>0, <1>3 DEF Deliver
<1>8. ~ForKey(e, chosen) \/ (e.kind /= "kline" /\ DOMAIN series = {})
      => series' = series /\ spoilt' = spoilt
  BY <1>3 DEF Deliver
<1>9. CASE i >= 2
  <2>1. PICK m \in Nat : m = i - 1 /\ m /= 0 /\ m \in 0..Len(bus') /\ m \in 1..(Len(bus) - 1)
    BY <1>2, <1>9
  <2>2. bus'[m] = Kline(chosen, n, TRUE)'
    <3>1. bus'[m] = bus[i] /\ Kline(chosen, n, TRUE)' = Kline(chosen, n, TRUE)
      BY <1>1, <1>2, <2>1 DEF Kline, CloseTime
    <3> QED
      BY <1>61, <1>62, <1>9, <3>1 DEF Kline
  <2>3. ASSUME NEW j \in (m + 1)..Len(bus')
        PROVE  Later(bus[j + 1], n) /\ bus'[j] = bus[j + 1]
    <3>1. j + 1 \in (i + 1)..Len(bus) /\ j \in 1..(Len(bus) - 1)
      BY <1>2, <2>1
    <3> QED
      BY <1>2, <1>6, <3>1 DEF Reached
  <2>4. \A j \in (m + 1)..Len(bus') : Later(bus'[j], n)
    BY <2>3
  <2>5. Reached(m, n)'
    BY <1>1, <2>1, <2>2, <2>4 DEF Reached, Later, CloseTime
  <2> QED
    BY <2>1, <2>5
<1>10. CASE i < 2
  <2>1. PICK z \in 0..Len(bus') : z = 0
    BY <1>2
  <2>2. ASSUME NEW j \in 1..Len(bus')
        PROVE  Later(bus[j + 1], n) /\ bus'[j] = bus[j + 1]
    <3>1. j + 1 \in (i + 1)..Len(bus) /\ j \in 1..(Len(bus) - 1)
      BY <1>2, <1>10
    <3> QED
      BY <1>2, <1>6, <3>1 DEF Reached
  <2>3. \A j \in 1..Len(bus') : Later(bus'[j], n)
    BY <2>2
  <2>4. Holds(series', s) \/ s \in spoilt'
    <3>1. CASE i = 1
      <4>1. e = Kline(chosen, n, TRUE)
        BY <1>2, <1>61, <1>62, <3>1 DEF Kline
      <4>2. /\ e.kind = "kline" /\ e.of = chosen /\ e.at = CloseTime(chosen, n)
            /\ e.final = TRUE
        BY <4>1 DEF Kline
      <4>3. series' = Upsert(series, s, Item(chosen, TRUE))
        BY <1>4, <1>7, <4>2 DEF ForKey, Shown
      <4>4. Item(chosen, TRUE) \in Items /\ Item(chosen, TRUE).final
        BY <1>0 DEF Item, Items
      <4> HIDE DEF s
      <4> QED
        BY <1>0, <1>4, <4>3, <4>4, UpsertHolds
    <3>2. CASE i = 0
      <4>1. Holds(series, s) \/ s \in spoilt
        BY <1>6, <3>2 DEF Reached, Settled
      <4>2. Later(e, n)
        <5>1. 1 \in (i + 1)..Len(bus)
          BY <1>2, <3>2
        <5> QED
          BY <1>2, <1>6, <5>1 DEF Reached
      <4>3. CASE s \in spoilt
        BY <1>7, <1>8, <4>3
      <4>4. CASE Holds(series, s)
        <5>1. CASE ~ForKey(e, chosen) \/ (e.kind /= "kline" /\ DOMAIN series = {})
          BY <1>8, <4>4, <5>1
        <5>2. CASE ForKey(e, chosen) /\ e.kind = "kline"
          <6>1. series' = Upsert(series, Canonical(e.at), Item(chosen, e.final))
            BY <1>7, <5>2 DEF Shown
          <6>2. PICK m \in Nat : e.at = CloseTime(chosen, m)
            <7>1. OnTime(bus[1], now) /\ e.of = chosen
              BY <1>2, <5>2 DEF BusTimes, ForKey
            <7> QED
              BY <1>2, <5>2, <7>1 DEF OnTime
          <6>3. PICK t \in Nat : t = Canonical(e.at) /\ t = CloseTime(chosen, m) - 1
            BY <1>0, <6>2, Candle DEF Stamp
          <6>4. s < t
            <7>1. e.at > CloseTime(chosen, n) /\ e.at = CloseTime(chosen, m)
              BY <4>2, <5>2, <6>2 DEF Later
            <7>2. CloseTime(chosen, m) \in Nat
              BY <1>0, Candle
            <7> HIDE DEF e, s
            <7> QED
              BY <1>4, <6>3, <7>1, <7>2
          <6>5. Item(chosen, e.final) \in Items
            BY <1>0, <1>2 DEF Item, Items, Events
          <6> HIDE DEF s, e
          <6> QED
            BY <1>0, <1>4, <4>4, <6>1, <6>3, <6>4, <6>5, UpsertHolds
        <5>3. CASE ForKey(e, chosen) /\ e.kind /= "kline" /\ DOMAIN series /= {}
          <6>1. /\ series' = Ticked(series, e.at, Interval[chosen])
                /\ spoilt' = IF e.kind = "late" THEN spoilt \cup {Max(DOMAIN series)}
                                                ELSE spoilt
            BY <1>7, <5>3 DEF Shown
          <6>2. e.at \in Nat /\ e.at > s
            BY <1>2, <1>4, <4>2 DEF Later, Events
          <6>3. Interval[chosen] \in Nat /\ Interval[chosen] >= Second
            BY <1>0, KeyIntervals
          <6>4. \/ Holds(Ticked(series, e.at, Interval[chosen]), s)
                \/ e.at = s + 1 /\ Max(DOMAIN series) = s
            <7> HIDE DEF s, e
            <7> QED
              BY <1>0, <1>4, <4>4, <5>3, <6>2, <6>3, TickedHolds
          <6>5. CASE e.at = s + 1 /\ Max(DOMAIN series) = s
            <7>1. e.kind = "late"
              BY <1>4, <4>2, <6>2, <6>5 DEF Later
            <7> QED
              BY <6>1, <6>5, <7>1
          <6> QED
            BY <6>1, <6>4, <6>5
        <5> QED
          BY <5>1, <5>2, <5>3
      <4> QED
        BY <4>1, <4>3, <4>4
    <3> QED
      BY <1>10, <3>1, <3>2
  <2>5. Settled(n)'
    BY <1>1, <2>4 DEF Settled, Stamp, CloseTime
  <2>6. Reached(z, n)'
    BY <1>1, <2>1, <2>3, <2>5 DEF Reached, Later, CloseTime
  <2> QED
    BY <2>1, <2>6
<1> QED
  BY <1>6, <1>9, <1>10

LEMMA FollowedStep ==
  ASSUME OwnInv, Rest, Linked, BusTimes, Followed, [Next]_vars
  PROVE  Followed'
<1>0. /\ effects \in Seq(Keys) /\ chosen \in Keys /\ chosen = effects[active]
      /\ active \in Nat /\ now \in Nat /\ pending \subseteq 1..active /\ Chart(series)
  BY EffectsLast DEF OwnInv, Typed, Charts
<1>1. ASSUME UNCHANGED <<now, bus, missed, effects, opened, socket, spoilt>>,
             \A s \in Nat : Holds(series, s) => Holds(series', s)
      PROVE  Followed'
  <2> SUFFICES ASSUME socket' = "open", NEW n \in Nat, Due(n)'
               PROVE  \E i \in 0..Len(bus') : Reached(i, n)'
    BY DEF Followed
  <2>1. chosen' = chosen
    BY <1>1 DEF chosen
  <2>2. Due(n) /\ socket = "open"
    BY <1>1, <2>1 DEF Due, CloseTime
  <2>3. PICK i \in 0..Len(bus) : Reached(i, n)
    BY <2>2 DEF Followed
  <2>4. Settled(n) => Settled(n)'
    <3>1. Stamp(chosen, n) \in Nat /\ Stamp(chosen, n)' = Stamp(chosen, n)
      BY <1>0, <2>1, Candle DEF Stamp, CloseTime
    <3> QED
      BY <1>1, <3>1 DEF Settled
  <2>5. Reached(i, n)'
    BY <1>1, <2>1, <2>3, <2>4 DEF Reached, Later, Kline, CloseTime
  <2> QED
    BY <1>1, <2>5
<1>2. ASSUME socket' /= "open"
      PROVE  Followed'
  BY <1>2 DEF Followed
<1>3. CASE Pass \/ Publish
  BY <1>3, ExchangeFollowed
<1>4. CASE (\E k \in Keys : Choose(k)) \/ Reload
  BY <1>2, <1>4 DEF Choose, Reload, Dispose
<1>5. ASSUME NEW e \in pending, Answer(e)
      PROVE  Followed'
  <2>1. CASE Disposed(e)
    BY <1>1, <1>5, <2>1 DEF Answer, exchange, link
  <2>2. CASE ~Disposed(e)
    <3>1. e = active
      BY <1>0, <2>2 DEF Disposed
    <3>2. socket = "none"
      BY <3>1 DEF OwnInv, Listening, Linked
    <3> QED
      BY <1>2, <1>5, <2>2, <3>2 DEF Answer
  <2> QED
    BY <2>1, <2>2
<1>6. ASSUME NEW e \in pending, FetchFails(e)
      PROVE  Followed'
  BY <1>1, <1>6 DEF FetchFails, exchange, link
<1>7. CASE Tick
  <2>1. PICK t \in Nat : series' = Advanced(series, t, Interval[chosen])
    <3>1. clock' \in Nat
      BY <1>0, <1>7, HybridKlinesAssumption DEF Tick
    <3> QED
      BY <1>7, <3>1 DEF Tick
  <2>2. \A s \in Nat : Holds(series, s) => Holds(series', s)
    BY <1>0, <2>1, KeyIntervals, AdvancedHolds
  <2> QED
    BY <1>1, <1>7, <2>2 DEF Tick, exchange, link
<1>8. CASE SocketOpens
  <2>1. opened' = now' /\ now' = now /\ effects' = effects
    BY <1>8 DEF SocketOpens, exchange, page
  <2>2. \A n : CloseTime(chosen, n) \notin now..(now - 1)
    BY <1>0
  <2> QED
    BY <2>1, <2>2 DEF Followed, Due, chosen
<1>9. CASE SocketDrops
  BY <1>2, <1>9 DEF SocketDrops
<1>10. CASE Deliver
  BY <1>10, DeliverFollowed
<1>11. CASE UNCHANGED vars
  BY <1>1, <1>11 DEF vars, exchange, page, link
<1> QED
  BY <1>3, <1>4, <1>5, <1>6, <1>7, <1>8, <1>9, <1>10, <1>11 DEF Next

LEMMA FollowedShown ==
  ASSUME OwnInv, Followed
  PROVE  FinalShown
<1> SUFFICES ASSUME status = "live", socket = "open", NEW n \in 0..MaxTime,
                    CloseTime(chosen, n) \in opened..(now - 1),
                    <<chosen, n>> \notin missed
             PROVE  LET s == Stamp(chosen, n)
                    IN  \/ s \in DOMAIN series /\ series[s].final
                        \/ Kline(chosen, n, TRUE) \in Range(bus)
                        \/ \A t \in DOMAIN series : s < t
                        \/ s \in spoilt
  BY DEF FinalShown
<1>1. n \in Nat /\ Due(n) /\ bus \in Seq(Events)
  BY HybridKlinesAssumption DEF Due, OwnInv, Typed
<1>2. PICK i \in 0..Len(bus) : Reached(i, n)
  BY <1>1 DEF Followed
<1>3. CASE i = 0
  BY <1>2, <1>3 DEF Reached, Settled, Holds
<1>4. CASE i /= 0
  <2>1. i \in DOMAIN bus
    BY <1>1, <1>4
  <2> QED
    BY <1>2, <1>4, <2>1 DEF Reached, Range
<1> QED
  BY <1>3, <1>4

-----------------------------------------------------------------------------
\* What the client computes as close times are the stamps of the server, for
\* candles that open at multiples of their interval.
Epoch == \A k \in Keys : Phase[k] % Interval[k] = 0

\* Every item of f that was not made up has the stamp of a candle of k that had
\* opened at t.
StampBy(s, k, t) == \E n \in Nat : s = Stamp(k, n) /\ Opens(k, n) <= t
OnGrid(f, k, t) == \A s \in DOMAIN f : f[s].mock \/ StampBy(s, k, t)

LEMMA StampAdd ==
  ASSUME NEW k \in Keys, NEW n \in Nat, NEW i \in Nat
  PROVE  /\ Opens(k, n + i) = Opens(k, n) + i * Interval[k]
         /\ Stamp(k, n + i) = Stamp(k, n) + i * Interval[k]
<1>1. Interval[k] \in Nat /\ Phase[k] \in Nat /\ n + i \in Nat
  BY KeyIntervals
<1>2. /\ (n + i) * Interval[k] = n * Interval[k] + i * Interval[k]
      /\ n * Interval[k] \in Nat /\ i * Interval[k] \in Nat
  BY <1>1, SMT
<1> DEFINE p == n * Interval[k]
           q == i * Interval[k]
<1>3. /\ Opens(k, n) = Phase[k] + p /\ Opens(k, n + i) = Phase[k] + p + q
      /\ p \in Nat /\ q \in Nat
  BY <1>1, <1>2 DEF Opens
<1>4. /\ Stamp(k, n) = Opens(k, n) + Interval[k] - 2
      /\ Stamp(k, n + i) = Opens(k, n + i) + Interval[k] - 2
  <2>1. /\ Stamp(k, n) = CloseTime(k, n) - 1 /\ Opens(k, n) \in Nat
        /\ CloseTime(k, n) = Opens(k, n) + Interval[k] - 1
    BY Candle
  <2>2. /\ Stamp(k, n + i) = CloseTime(k, n + i) - 1 /\ Opens(k, n + i) \in Nat
        /\ CloseTime(k, n + i) = Opens(k, n + i) + Interval[k] - 1
    BY <1>1, Candle
  <2> QED
    BY <1>1, <2>1, <2>2
<1> HIDE DEF p, q
<1>5. /\ Opens(k, n + i) = Opens(k, n) + q
      /\ Stamp(k, n + i) = Stamp(k, n) + q
  BY <1>1, <1>3, <1>4
<1> QED
  BY <1>5 DEF q

\* The client's close time at t is the stamp of the candle in progress at t, if
\* it is not before the first.
LEMMA ClientOnGrid ==
  ASSUME Epoch, NEW k \in Keys, NEW n \in Nat, NEW t \in Nat
  PROVE  /\ Opens(k, n) <= t => Stamp(k, n) <= ClientClose(t, Interval[k])
         /\ Stamp(k, n) < ClientClose(t, Interval[k]) =>
              \E m \in Nat : /\ m > n /\ Opens(k, m) <= t
                             /\ Stamp(k, m) = ClientClose(t, Interval[k])
<1> DEFINE len == Interval[k]
           q == Phase[k] \div len
           r == t \div len
<1>1. /\ len \in Nat /\ len >= 2 /\ Phase[k] \in Nat /\ Phase[k] % len = 0
  BY KeyIntervals DEF Epoch, Second
<1>2. /\ q \in Nat /\ r \in Nat
  <2> HIDE DEF len
  <2> QED
    BY <1>1, SMT
<1>3. Phase[k] = q * len
  <2> HIDE DEF len
  <2> QED
    BY <1>1, SMT
<1>4. r * len \in Nat /\ r * len <= t /\ t < r * len + len
  <2> HIDE DEF len
  <2> QED
    BY <1>1, SMT
<1> HIDE DEF q, r
<1>5. ASSUME NEW m \in Nat
      PROVE  /\ Opens(k, m) = (q + m) * len
             /\ Stamp(k, m) = (q + m) * len + len - 2
             /\ (q + m) * len \in Nat
  <2>1. /\ Opens(k, m) \in Nat /\ CloseTime(k, m) \in Nat
        /\ Stamp(k, m) = CloseTime(k, m) - 1
        /\ CloseTime(k, m) = Opens(k, m) + len - 1
    BY Candle
  <2>2. q * len + m * len = (q + m) * len /\ (q + m) * len \in Nat
    <3> HIDE DEF len
    <3> QED
      BY <1>1, <1>2, SMT
  <2>3. Opens(k, m) = (q + m) * len
    BY <1>3, <2>2 DEF Opens
  <2>4. Stamp(k, m) = Opens(k, m) + len - 2
    <3> HIDE DEF len
    <3> QED
      BY <1>1, <2>1
  <2> QED
    BY <2>2, <2>3, <2>4
<1>6. ClientClose(t, len) = r * len + len - 2
  BY DEF ClientClose, Second, r
<1> HIDE DEF len
<1>7. ASSUME Opens(k, n) <= t
      PROVE  Stamp(k, n) <= ClientClose(t, len)
  <2>1. (q + n) * len <= t /\ (q + n) * len \in Nat
    BY <1>5, <1>7
  <2>2. (q + n) * len < r * len + len
    BY <1>1, <1>4, <2>1
  <2>3. (q + n) * len <= r * len
    <3>1. (r + 1) * len = r * len + len
      BY <1>1, <1>2, SMT
    <3>2. (q + n) * len < (r + 1) * len
      BY <2>2, <3>1
    <3>3. q + n < r + 1
      BY <1>1, <1>2, <3>2, SMT
    <3>4. q + n <= r
      BY <1>2, <3>3
    <3> QED
      BY <1>1, <1>2, <3>4, SMT
  <2> DEFINE a == (q + n) * len
             b == r * len
  <2>4. /\ a \in Nat /\ b \in Nat /\ a <= b
        /\ Stamp(k, n) = a + len - 2 /\ ClientClose(t, len) = b + len - 2
    BY <1>4, <1>5, <1>6, <2>1, <2>3
  <2> HIDE DEF a, b
  <2> QED
    BY <1>1, <2>4
<1>8. ASSUME Stamp(k, n) < ClientClose(t, len)
      PROVE  \E m \in Nat : /\ m > n /\ Opens(k, m) <= t
                            /\ Stamp(k, m) = ClientClose(t, len)
  <2> DEFINE a == (q + n) * len
             b == r * len
  <2>1. a < b
    <3>1. /\ a \in Nat /\ b \in Nat
          /\ Stamp(k, n) = a + len - 2 /\ ClientClose(t, len) = b + len - 2
      BY <1>4, <1>5, <1>6
    <3> HIDE DEF a, b
    <3> QED
      BY <1>1, <1>8, <3>1
  <2>2. q + n < r
    BY <1>1, <1>2, <2>1, SMT
  <2>3. PICK m \in Nat : m > n /\ q + m = r
    <3>1. r - q \in Nat /\ r - q > n /\ q + (r - q) = r
      BY <1>2, <2>2
    <3> QED
      BY <3>1
  <2>4. /\ Opens(k, m) = r * len /\ Stamp(k, m) = r * len + len - 2
    BY <1>5, <2>3
  <2> QED
    BY <1>4, <1>6, <2>3, <2>4
<1> QED
  BY <1>7, <1>8 DEF len

\* What an update leaves on the chart lies on the grid.
LEMMA NormalizedGrid ==
  ASSUME NEW f, NEW k, NEW t, OnGrid(f, k, t)
  PROVE  OnGrid(Normalized(f), k, t)
<1>1. /\ DOMAIN Normalized(f) \in SUBSET DOMAIN f
      /\ \A s \in DOMAIN Normalized(f) : Normalized(f)[s] = f[s]
  BY DEF Normalized, Restrict, Newest
<1> QED
  BY <1>1 DEF OnGrid

LEMMA UpsertGrid ==
  ASSUME NEW f, NEW k, NEW t, OnGrid(f, k, t), NEW item,
         NEW s, item.mock \/ StampBy(s, k, t)
  PROVE  OnGrid(Upsert(f, s, item), k, t)
<1> DEFINE g == [u \in DOMAIN f \cup {s} |-> IF u = s THEN item ELSE f[u]]
<1>1. \A u \in DOMAIN g : g[u].mock \/ StampBy(u, k, t)
  BY DEF OnGrid
<1>2. Upsert(f, s, item) = Normalized(g)
  BY DEF Upsert
<1> HIDE DEF g
<1> QED
  BY <1>1, <1>2, NormalizedGrid DEF OnGrid

LEMMA AdvancedGrid ==
  ASSUME Epoch, NEW k \in Keys, NEW f, Chart(f), NEW t \in Nat,
         NEW bound \in Nat, t <= bound, OnGrid(f, k, bound)
  PROVE  OnGrid(Advanced(f, t, Interval[k]), k, bound)
<1> DEFINE len == Interval[k]
           last == Max(DOMAIN f)
<1>1. CASE DOMAIN f = {}
  BY <1>1 DEF Advanced
<1>2. CASE DOMAIN f /= {}
  <2>1. len \in Nat /\ len >= Second
    BY KeyIntervals
  <2>2. PICK g : /\ Advanced(f, t, len) = Normalized(g) /\ Stamped(g)
                 /\ \A h : Of(f, h) => Of(g, h)
                 /\ DOMAIN f \in SUBSET DOMAIN g
                 /\ \A u \in DOMAIN g :
                      \/ u \in DOMAIN f /\ g[u] = f[u]
                      \/ /\ u \in Nat /\ u > Max(DOMAIN f)
                         /\ g[u].mock = f[Max(DOMAIN f)].mock
                         /\ \E i \in Nat \ {0} :
                              /\ u = Max(DOMAIN f) + i * len
                              /\ Max(DOMAIN f) + (i - 1) * len < ClientClose(t, len)
    <3> HIDE DEF len
    <3> QED
      BY <1>2, <2>1, AdvancedIs
  <2>3. f[last].mock \/ \E n \in Nat : last = Stamp(k, n)
    <3>1. last \in DOMAIN f
      BY <1>2, HasMax DEF Chart, Stamped
    <3> QED
      BY <3>1 DEF OnGrid, StampBy
  <2> HIDE DEF last
  <2>4. ASSUME NEW i \in Nat \ {0}, last + (i - 1) * len < ClientClose(t, len),
               NEW n \in Nat, last = Stamp(k, n)
        PROVE  StampBy(last + i * len, k, bound)
    <3>1. PICK h \in Nat : h = i - 1 /\ h + 1 = i
      OBVIOUS
    <3>2. Stamp(k, n + h) = last + (i - 1) * len /\ Stamp(k, n + i) = last + i * len
      BY <2>4, <3>1, StampAdd
    <3>3. n + h \in Nat /\ n + i \in Nat
      BY <3>1
    <3>4. PICK m \in Nat : m > n + h /\ Opens(k, m) <= t
      BY <2>4, <3>2, <3>3, ClientOnGrid
    <3>5. PICK d \in Nat : m = (n + i) + d
      <4>1. m - (n + i) \in Nat /\ m = (n + i) + (m - (n + i))
        BY <3>1, <3>4
      <4> QED
        BY <4>1
    <3>6. Opens(k, m) = Opens(k, n + i) + d * len
      BY <3>3, <3>5, StampAdd
    <3>7. Opens(k, n + i) <= bound
      <4>1. d * len \in Nat /\ Opens(k, n + i) \in Nat
        <5>1. d * len \in Nat
          BY <2>1, ProductMonotone
        <5> QED
          BY <3>3, <5>1, Candle
      <4> DEFINE c == d * len
      <4>2. c \in Nat /\ Opens(k, m) = Opens(k, n + i) + c
        BY <3>6, <4>1
      <4> HIDE DEF c
      <4> QED
        BY <3>4, <4>1, <4>2
    <3> QED
      BY <3>2, <3>3, <3>7 DEF StampBy
  <2>5. OnGrid(g, k, bound)
    BY <2>2, <2>3, <2>4 DEF OnGrid, last
  <2> QED
    BY <2>2, <2>5, NormalizedGrid
<1> QED
  BY <1>1, <1>2

LEMMA TickedGrid ==
  ASSUME Epoch, NEW k \in Keys, NEW f, Chart(f), DOMAIN f /= {}, NEW t \in Nat,
         NEW bound \in Nat, t <= bound, OnGrid(f, k, bound)
  PROVE  OnGrid(Ticked(f, t, Interval[k]), k, bound)
<1> DEFINE last == Max(DOMAIN f)
           its  == ClientClose(t, Interval[k])
           item == Unfinished(Newer(f))
           s == IF its <= last THEN last ELSE its
<1>1. last \in DOMAIN f /\ last \in Nat /\ f[last] \in Items
  BY HasMax DEF Chart, Stamped
<1>2. item.mock = f[last].mock
  BY <1>1, UnfinishedItem DEF Newer
<1>3. Interval[k] \in Nat /\ Interval[k] >= Second
  BY KeyIntervals
<1>4. its \in Nat
  BY <1>3, ClientCloseNat
<1>5. item.mock \/ StampBy(s, k, bound)
  <2> SUFFICES ASSUME ~f[last].mock
               PROVE  StampBy(s, k, bound)
    BY <1>2
  <2>1. PICK n \in Nat : last = Stamp(k, n) /\ Opens(k, n) <= bound
    BY <1>1 DEF OnGrid, StampBy
  <2>2. CASE its <= last
    BY <2>1, <2>2 DEF StampBy
  <2>3. CASE ~(its <= last)
    <3>1. last < its
      <4> HIDE DEF last, its
      <4> QED
        BY <1>1, <1>4, <2>3
    <3>2. PICK m \in Nat : Opens(k, m) <= t /\ Stamp(k, m) = its
      BY <2>1, <3>1, ClientOnGrid
    <3>3. Opens(k, m) <= bound
      <4>1. Opens(k, m) \in Nat
        BY Candle
      <4> QED
        BY <3>2, <4>1
    <3> QED
      BY <2>3, <3>2, <3>3 DEF StampBy
  <2> QED
    BY <2>2, <2>3
<1>6. Ticked(f, t, Interval[k]) = Upsert(f, s, item)
  BY DEF Ticked
<1> HIDE DEF item, s
<1> QED
  BY <1>5, <1>6, UpsertGrid

LEMMA AnswersGrid ==
  ASSUME NEW k \in Keys, now \in Nat, NEW f \in Answers(k)
  PROVE  OnGrid(f, k, now)
<1> DEFINE current == InProgress(k, now)
<1>1. current \in Int /\ Phase[k] \in Nat
  BY KeyIntervals DEF InProgress, Second
<1>2. PICK m \in Int, final \in BOOLEAN : m <= current /\ f = UpTo(k, m, final)
  <2> DEFINE older == (current - MaxStale..current - 1) \cap Nat
  <2>1. \A m \in older \cup {current} : m \in Int /\ m <= current
    BY <1>1
  <2>2. f \in {UpTo(k, m, FALSE) : m \in older \cup {current}} \cup
              {UpTo(k, m, TRUE) : m \in older}
    BY DEF Answers
  <2> HIDE DEF older, current
  <2> QED
    BY <2>1, <2>2
<1> DEFINE g == [s \in {Stamp(k, n) : n \in 0..m} |-> Item(k, s < Stamp(k, m) \/ final)]
<1>3. ASSUME NEW n \in 0..m
      PROVE  n \in Nat /\ Opens(k, n) <= now
  <2>1. current >= 0 /\ n \in Nat /\ n <= current
    BY <1>1, <1>2
  <2>2. now >= Phase[k]
    <3> SUFFICES ASSUME now - Phase[k] < 0 PROVE FALSE
      BY <1>1
    <3>1. PICK a \in Int : a = now - Phase[k] /\ a < 0
      BY <1>1
    <3>2. Interval[k] \in Nat /\ Interval[k] > 0
      BY KeyIntervals DEF Second
    <3>3. a \div Interval[k] < 0
      BY <3>1, <3>2, SMT
    <3>4. current = a \div Interval[k] /\ a \div Interval[k] \in Int
      BY <3>1, <3>2 DEF InProgress
    <3> HIDE DEF current
    <3> QED
      BY <2>1, <3>3, <3>4
  <2>3. current \in Nat /\ Opens(k, current) <= now
    BY <2>2, InProgressNow
  <2> HIDE DEF current
  <2>4. PICK d \in Nat : current = n + d
    <3>1. current - n \in Nat /\ current = n + (current - n)
      BY <2>1, <2>3
    <3> QED
      BY <3>1
  <2>5. Opens(k, current) = Opens(k, n) + d * Interval[k]
    BY <2>1, <2>4, StampAdd
  <2> DEFINE c == d * Interval[k]
  <2>6. /\ c \in Nat /\ Opens(k, n) \in Nat
        /\ Opens(k, current) = Opens(k, n) + c
    BY <2>1, <2>5, KeyIntervals, ProductMonotone, Candle
  <2> HIDE DEF c
  <2> QED
    BY <2>1, <2>3, <2>6
<1>4. OnGrid(g, k, now)
  BY <1>3 DEF OnGrid, StampBy
<1>5. f = Normalized(g)
  BY <1>2 DEF UpTo
<1> HIDE DEF g
<1> QED
  BY <1>4, <1>5, NormalizedGrid

LEMMA MockGrid ==
  ASSUME NEW k \in Keys, NEW t
  PROVE  OnGrid(Mock(k), k, t)
<1> DEFINE g == [s \in {Canonical(now - i * Interval[k]) : i \in 1..Limit} \cap Nat |->
                   [Item(k, FALSE) EXCEPT !.mock = TRUE]]
<1>1. OnGrid(g, k, t)
  BY DEF OnGrid, Item
<1>2. Mock(k) = Normalized(g)
  BY DEF Mock
<1> HIDE DEF g
<1> QED
  BY <1>1, <1>2, NormalizedGrid

\* Of finitely many numbers one is the greatest: a least set that is not bounded
\* has an element whose removal leaves a bounded one.
LEMMA FiniteBounded ==
  ASSUME NEW S \in SUBSET Nat, IsFiniteSet(S)
  PROVE  Bounded(S)
<1> DEFINE Sizes == {c \in Nat : \E T \in SUBSET S : ~Bounded(T) /\ Cardinality(T) = c}
<1> SUFFICES ASSUME ~Bounded(S) PROVE FALSE
  OBVIOUS
<1>1. Sizes \in SUBSET Nat /\ Cardinality(S) \in Sizes
  BY FS_CardinalityType
<1>2. PICK c \in Sizes : \A d \in Sizes : c <= d
  <2> HIDE DEF Sizes
  <2> QED
    BY <1>1, NatSetMin
<1>3. PICK T \in SUBSET S : ~Bounded(T) /\ Cardinality(T) = c
  BY <1>2
<1>4. PICK x \in T : x \in Nat
  <2>1. Bounded({})
    BY DEF Bounded
  <2> QED
    BY <1>3, <2>1
<1>5. IsFiniteSet(T)
  BY FS_Subset
<1>6. Cardinality(T \ {x}) = c - 1 /\ Cardinality(T \ {x}) \in Nat
  BY <1>3, <1>5, FS_RemoveElement, FS_CardinalityType
<1>7. Bounded(T \ {x})
  <2> SUFFICES ASSUME ~Bounded(T \ {x}) PROVE FALSE
    OBVIOUS
  <2>1. c - 1 \in Sizes
    BY <1>6
  <2>2. c \in Nat
    BY <1>2
  <2>3. c <= c - 1
    <3> HIDE DEF Sizes
    <3> QED
      BY <1>2, <2>1
  <2> QED
    BY <2>2, <2>3
<1>8. Bounded({x}) /\ T = (T \ {x}) \cup {x}
  BY <1>4 DEF Bounded
<1> QED
  BY <1>3, <1>4, <1>7, <1>8, BoundedUnion

LEMMA SkewBound == /\ Max(Skews) \in Nat
                   /\ \A skew \in Skews : skew \in Nat /\ skew <= Max(Skews)
BY HybridKlinesAssumption, FiniteBounded, HasMax

\* The clock is never ahead of what the skew allows, nor the candles of the chart
\* of the clock.
Horizon == now + Max(Skews)
Gridded == /\ clock <= Horizon
           /\ status = "live" => OnGrid(series, chosen, Horizon)

LEMMA OnGridWider ==
  ASSUME NEW f, NEW k \in Keys, NEW t \in Nat, NEW u \in Nat, t <= u, OnGrid(f, k, t)
  PROVE  OnGrid(f, k, u)
<1>1. \A n \in Nat : Opens(k, n) <= t => Opens(k, n) <= u
  <2>1. \A n \in Nat : Opens(k, n) \in Nat
    BY Candle
  <2> QED
    BY <2>1
<1> QED
  BY <1>1 DEF OnGrid, StampBy

LEMMA GriddedStep ==
  ASSUME Epoch, OwnInv, Linked, BusTimes, Gridded, [Next]_vars
  PROVE  Gridded'
<1>0. /\ effects \in Seq(Keys) /\ chosen \in Keys /\ chosen = effects[active]
      /\ active \in Nat /\ now \in Nat /\ pending \subseteq 1..active /\ Chart(series)
      /\ clock \in Nat /\ bus \in Seq(Events)
  BY EffectsLast DEF OwnInv, Typed, Charts
<1>1. Horizon \in Nat /\ now <= Horizon
  BY <1>0, SkewBound DEF Horizon
<1>2. ASSUME UNCHANGED <<now, clock>>, status' /= "live"
      PROVE  Gridded'
  BY <1>2 DEF Gridded, Horizon
<1>3. ASSUME UNCHANGED <<now, clock, status, series, effects>>
      PROVE  Gridded'
  BY <1>3 DEF Gridded, Horizon, chosen
<1>4. CASE Pass
  <2>1. UNCHANGED <<clock, status, series, effects>> /\ chosen' = chosen /\ now' = now + 1
    BY <1>4 DEF Pass, page, chosen
  <2>2. PICK h \in Nat : h = Horizon' /\ Horizon <= h
    BY <1>0, <2>1, SkewBound DEF Horizon
  <2>3. clock' <= h
    BY <1>0, <1>1, <2>1, <2>2 DEF Gridded
  <2>4. status' = "live" => OnGrid(series', chosen', h)
    BY <1>0, <1>1, <2>1, <2>2, OnGridWider DEF Gridded
  <2> QED
    BY <2>2, <2>3, <2>4 DEF Gridded
<1>5. CASE Publish \/ SocketOpens \/ SocketDrops \/ UNCHANGED vars
  BY <1>3, <1>5 DEF Publish, SocketOpens, SocketDrops, vars, exchange, page
<1>6. ASSUME NEW k \in Keys, Choose(k)
      PROVE  Gridded'
  BY <1>2, <1>6 DEF Choose, Bootstrap, exchange
<1>7. CASE Reload
  <2>1. PICK skew \in Skews : clock' = now + skew /\ status' = "loading" /\ now' = now
    BY <1>7 DEF Reload, Bootstrap, exchange
  <2> QED
    BY <1>0, <2>1, SkewBound DEF Gridded, Horizon
<1>8. ASSUME NEW e \in pending, Answer(e)
      PROVE  Gridded'
  <2>1. UNCHANGED <<now, clock, effects>> /\ chosen' = chosen
    BY <1>8 DEF Answer, exchange, chosen
  <2>2. CASE Disposed(e)
    BY <1>3, <1>8, <2>1, <2>2 DEF Answer
  <2>3. CASE ~Disposed(e)
    <3>1. e = active
      BY <1>0, <2>3 DEF Disposed
    <3>2. series' \in Answers(chosen) \/ series' = Mock(chosen)
      BY <1>0, <1>8, <2>3, <3>1 DEF Answer
    <3>3. OnGrid(series', chosen, Horizon)
      BY <1>0, <1>1, <3>2, AnswersGrid, MockGrid, OnGridWider
    <3> QED
      BY <2>1, <3>3 DEF Gridded, Horizon
  <2> QED
    BY <2>2, <2>3
<1>9. ASSUME NEW e \in pending, FetchFails(e)
      PROVE  Gridded'
  <2>1. /\ UNCHANGED <<now, clock, series, effects>>
        /\ status' = status \/ status' = "error"
    BY <1>9 DEF FetchFails, exchange
  <2> QED
    BY <1>2, <1>3, <2>1
<1>10. CASE Tick
  <2>1. /\ UNCHANGED <<now, effects, status>> /\ chosen' = chosen
        /\ series' = Advanced(series, clock', Interval[chosen])
    BY <1>10 DEF Tick, exchange, chosen
  <2>2. clock' \in Nat /\ clock' <= Horizon
    <3>1. PICK skew \in Skews : clock' = now + skew
      BY <1>10 DEF Tick
    <3> QED
      BY <1>0, <3>1, SkewBound DEF Horizon
  <2>3. status' = "live" => OnGrid(series', chosen, Horizon)
    <3> SUFFICES ASSUME status = "live" PROVE OnGrid(series', chosen, Horizon)
      BY <2>1
    <3>1. OnGrid(series, chosen, Horizon)
      BY DEF Gridded
    <3>2. PICK t \in Nat : t = clock'
      BY <2>2
    <3> QED
      BY <1>0, <1>1, <2>1, <2>2, <3>1, <3>2, AdvancedGrid
  <2> QED
    BY <2>1, <2>2, <2>3 DEF Gridded, Horizon
<1>11. CASE Deliver
  <2> DEFINE e == Head(bus)
             heard == {h \in handlers : /\ socket = "open"
                                        /\ ForKey(e, watched)
                                        /\ ForKey(e, effects[h])}
             idle == heard = {} \/ (e.kind /= "kline" /\ DOMAIN series = {})
  <2>1. UNCHANGED <<now, clock, status, effects>> /\ chosen' = chosen /\ bus /= <<>>
    BY <1>11 DEF Deliver, chosen
  <2>2. CASE idle
    BY <1>3, <1>11, <2>1, <2>2 DEF Deliver
  <2>3. CASE ~idle
    <3>1. PICK h \in heard : series' = Shown(e, effects[h])
      BY <1>11, <2>3 DEF Deliver
    <3>2. effects[h] = chosen /\ status = "live" /\ ForKey(e, chosen)
      BY <1>0, <3>1 DEF OwnInv, Listening
    <3>3. e \in Events /\ e = bus[1] /\ OnTime(e, now)
      <4>1. e \in Events /\ e = bus[1] /\ 1 \in 1..Len(bus)
        BY <1>0, <2>1, HeadTailProperties
      <4> QED
        BY <4>1 DEF BusTimes
    <3>4. OnGrid(series, chosen, Horizon)
      BY <3>2 DEF Gridded
    <3>5. CASE e.kind = "kline"
      <4>1. PICK n \in Nat : e.at = CloseTime(chosen, n) /\ Opens(chosen, n) <= now
        BY <3>2, <3>3, <3>5 DEF OnTime, ForKey
      <4>2. series' = Upsert(series, Stamp(chosen, n), Item(chosen, e.final))
        BY <3>1, <3>2, <3>5, <4>1 DEF Shown, Stamp
      <4>3. Opens(chosen, n) <= Horizon
        <5>1. Opens(chosen, n) \in Nat
          BY <1>0, Candle
        <5> QED
          BY <1>0, <1>1, <4>1, <5>1
      <4> HIDE DEF e
      <4>4. OnGrid(series', chosen, Horizon)
        BY <3>4, <4>2, <4>3, UpsertGrid DEF StampBy
      <4> QED
        BY <2>1, <3>2, <4>4 DEF Gridded, Horizon
    <3>6. CASE e.kind /= "kline"
      <4>1. series' = Ticked(series, e.at, Interval[chosen]) /\ DOMAIN series /= {}
        BY <2>3, <3>1, <3>2, <3>6 DEF Shown
      <4>2. e.at \in Nat /\ e.at <= Horizon
        <5>1. e.at \in Nat /\ e.at <= now
          BY <3>3, <3>6 DEF OnTime, Events
        <5> HIDE DEF e
        <5> QED
          BY <1>0, <1>1, <5>1
      <4> HIDE DEF e
      <4>3. OnGrid(series', chosen, Horizon)
        BY <1>0, <1>1, <3>4, <4>1, <4>2, TickedGrid
      <4> QED
        BY <2>1, <3>2, <4>3 DEF Gridded, Horizon
    <3> QED
      BY <3>5, <3>6
  <2> QED
    BY <2>2, <2>3
<1> QED
  BY <1>4, <1>5, <1>6, <1>7, <1>8, <1>9, <1>10, <1>11 DEF Next

LEMMA GriddedAligned ==
  ASSUME Epoch, OwnInv, Gridded
  PROVE  Aligned
<1> SUFFICES ASSUME status = "live", NEW s \in DOMAIN series, ~series[s].mock
             PROVE  /\ \E n \in 0..Horizon : s = Stamp(chosen, n)
                    /\ s <= ClientClose(Horizon, Interval[chosen])
  BY DEF Aligned, Horizon
<1>1. chosen \in Keys /\ now \in Nat /\ Horizon \in Nat
  BY EffectsLast, SkewBound DEF OwnInv, Typed, Horizon
<1>2. PICK n \in Nat : s = Stamp(chosen, n) /\ Opens(chosen, n) <= Horizon
  BY DEF Gridded, OnGrid, StampBy
<1>3. s <= ClientClose(Horizon, Interval[chosen])
  BY <1>1, <1>2, ClientOnGrid
<1>4. n <= Horizon
  <2>1. Interval[chosen] \in Nat /\ Interval[chosen] >= 2 /\ Phase[chosen] \in Nat
    BY <1>1, KeyIntervals DEF Second
  <2>2. n * Interval[chosen] \in Nat /\ n <= n * Interval[chosen]
    BY <2>1, SMT
  <2> DEFINE p == n * Interval[chosen]
  <2>3. p \in Nat /\ n <= p /\ Phase[chosen] + p <= Horizon
    BY <1>2, <2>2 DEF Opens
  <2> HIDE DEF p
  <2> QED
    BY <1>1, <2>1, <2>3
<1> QED
  BY <1>1, <1>2, <1>3, <1>4

-----------------------------------------------------------------------------
\* The series and the cache, and what the page is connected to.
THEOREM PageInvariant == Spec => [](OwnInv /\ Rest /\ Linked)
<1>1. Init => OwnInv /\ Rest /\ Linked
  BY InitOwn, InitRest
<1>2. OwnInv /\ Rest /\ Linked /\ [Next]_vars => (OwnInv /\ Rest /\ Linked)'
  BY OwnStep, RestStep
<1> QED
  BY <1>1, <1>2, PTL DEF Spec

\* Once the page says it is live, the chart shows candles of the chosen symbol and
\* interval only, and the session cache has under each name what belongs there,
\* for any keys, intervals, clocks, faults and bounds (isDisposed, the cleanup
\* and setSessionCachedKlines of useHybridKlines).
THEOREM ChartOfTheChoice == Spec => []OwnCandles
<1>1. OwnInv => OwnCandles
  BY DEF OwnInv
<1> QED
  BY <1>1, PageInvariant, PTL

\* Every variable keeps its type: neither chart nor cache ever holds more than
\* Limit candles, and handlers are those of the last choice.
THEOREM PageTyped == Spec => []TypeOK
<1>1. OwnInv /\ Rest => TypeOK
  BY RestTypes
<1> QED
  BY <1>1, PageInvariant, PTL

\* A candle that closed after the socket opened is on the chart with the values
\* it closed with, or its event is on its way, or one of the named excuses holds:
\* for any keys, phases, clocks, faults and bounds (onKline, onTick and
\* advanceLiveCandle of useHybridKlines).
THEOREM ClosedCandlesShown == Spec => []FinalShown
<1> DEFINE Inv == OwnInv /\ Rest /\ Linked
<1>1. Init => BusTimes /\ Followed
  <2>1. Init => BusTimes
    BY DEF Init, BusTimes
  <2> QED
    BY <2>1 DEF Init, Followed
<1>2. BusTimes /\ Followed /\ Inv /\ [Next]_vars => BusTimes' /\ Followed'
  BY BusTimesStep, FollowedStep
<1>3. Followed /\ Inv => FinalShown
  BY FollowedShown
<1>4. Spec => []Inv
  BY PageInvariant
<1> QED
  BY <1>1, <1>2, <1>3, <1>4, PTL DEF Spec

\* With candles that open at multiples of their interval, and but for the items
\* that stem from candles the REST service made up, a live chart shows one item per
\* candle of the exchange and none of a candle that has not begun by the clock: for
\* any keys, clocks, faults and bounds.  The hypothesis holds of all intervals but
\* 1w (getCandleCloseTimeMs counts weeks from a Thursday).
THEOREM ChartAligned ==
  ASSUME Epoch
  PROVE  Spec => []Aligned
<1> DEFINE Inv == OwnInv /\ Rest /\ Linked
<1>1. Init => BusTimes /\ Gridded
  <2> SUFFICES ASSUME Init PROVE BusTimes /\ Gridded
    OBVIOUS
  <2>1. PICK skew \in Skews : clock = now + skew /\ now \in Nat
    BY HybridKlinesAssumption DEF Init
  <2>2. clock <= Horizon
    BY <2>1, SkewBound DEF Horizon
  <2> QED
    BY <2>2 DEF Init, BusTimes, Gridded
<1>2. BusTimes /\ Gridded /\ Inv /\ [Next]_vars => BusTimes' /\ Gridded'
  BY BusTimesStep, GriddedStep
<1>3. Gridded /\ Inv => Aligned
  BY GriddedAligned
<1>4. Spec => []Inv
  BY PageInvariant
<1> QED
  BY <1>1, <1>2, <1>3, <1>4, PTL DEF Spec
=============================================================================
