-------------------------- MODULE MarketGatewayProofs --------------------------
(***************************************************************************)
(* No subscription dangles while its endpoint is in control, none exceeds  *)
(* its limits, and everyone is sent exactly what matches his watchlist:    *)
(* proofs of Tended, TypeOK and Served for any number of clients, any      *)
(* watchlists and any order of sends, messages, stalls, losses and errors. *)
(*                                                                         *)
(* Tended is not inductive.  A broadcast whose send fails takes a client   *)
(* out of the table and leaves its endpoint to end with an error that      *)
(* nothing catches; so a broken socket must not be in the table            *)
(* (BrokenOut), nor may one that is about to be put there have been sent   *)
(* to (Met).  A client that an uncaught error has left behind is closed    *)
(* after the one send that the loop awaits (OneWait).  The table has no    *)
(* repetition, or removing a client would leave it there.                  *)
(*                                                                         *)
(* Served needs more of the broadcast: what it has still to look at has no *)
(* repetition, and is empty outside of a broadcast (Turns).  The frames of *)
(* a client are counted by rank (SentAs), so that one more event is either *)
(* the next frame or none.                                                 *)
(***************************************************************************)
EXTENDS MarketGateway,
        SequenceTheorems, FiniteSetTheorems, WellFoundedInduction, TLAPS

BrokenOut == \A c \in broken : c \notin Range(table)

\* Whoever a broadcast deals with, or dealt with in vain, was in the table.
Met == \A c \in broken \cup waiting \cup Range(targets) :
         endpoint[c] \in {"receive", "ack", "failed", "ended"}

\* A broadcast has an event in hand.
InHand == waiting \cup Range(targets) /= {} => handled /= <<>>

\* The loop awaits one send, and none outside of a broadcast.
OneWait == /\ loop /= "cast" => waiting = {}
           /\ \A v, w \in waiting : v = w

GatewayInv == TypeOK /\ Tended /\ BrokenOut /\ Met /\ InHand /\ OneWait

-----------------------------------------------------------------------------
\* What a queue holds after Append and before Tail.
LEMMA RangeEmpty == Range(<<>>) = {}
BY DEF Range

LEMMA RangeAppend ==
  ASSUME NEW S, NEW s \in Seq(S), NEW x \in S
  PROVE  Range(Append(s, x)) = Range(s) \cup {x}
BY AppendProperties DEF Range

\* A set of numbers has a least element.
LEMMA NatSetMin ==
  ASSUME NEW T \in SUBSET Nat, T /= {}
  PROVE  \E m \in T : \A k \in T : m <= k
<1> DEFINE U == {0..k : k \in T}
<1>1. U \subseteq FiniteSubsetsOf(Nat) /\ U /= {}
  <2> SUFFICES ASSUME NEW k \in T
               PROVE  0..k \in SUBSET Nat /\ IsFiniteSet(0..k)
    BY DEF FiniteSubsetsOf
  <2> QED
    BY FS_Interval
<1>2. PICK x \in U : \A y \in U : <<y, x>> \notin StrictSubsetOrdering(Nat)
  <2> HIDE DEF U
  <2> QED
    BY <1>1, FS_StrictSubsetOrderingWellFounded, WFMin
<1>3. PICK m \in T : x = 0..m
  OBVIOUS
<1>4. ASSUME NEW k \in T, k < m
      PROVE  <<0..k, 0..m>> \in StrictSubsetOrdering(Nat)
  BY <1>4 DEF StrictSubsetOrdering
<1>5. \A k \in T : ~(k < m)
  BY <1>2, <1>3, <1>4
<1> QED
  BY <1>5

-----------------------------------------------------------------------------
\* sorted(S)[:cap] has at most cap elements: each has its own rank below cap.
LEMMA TruncatedCap ==
  ASSUME NEW S \in SUBSET Nat, IsFiniteSet(S), NEW cap \in Nat
  PROVE  /\ Truncated(S, cap) \subseteq S
         /\ Cardinality(Truncated(S, cap)) <= cap
<1> DEFINE T == Truncated(S, cap)
           below(s) == {t \in S : t < s}
           rank == [s \in T |-> Cardinality(below(s))]
<1>1. T \subseteq S /\ \A s \in T : Cardinality(below(s)) < cap
  BY DEF Truncated
<1> HIDE DEF T
<1>2. \A s \in S : IsFiniteSet(below(s)) /\ Cardinality(below(s)) \in Nat
  <2> TAKE s \in S
  <2>1. below(s) \in SUBSET S
    OBVIOUS
  <2> QED
    BY <2>1, FS_Subset, FS_CardinalityType
<1>3. ASSUME NEW s \in T, NEW t \in T, s < t
      PROVE  Cardinality(below(s)) /= Cardinality(below(t))
  <2>0. s \in S /\ t \in S /\ s < t /\ \A u \in S : u \in Nat
    BY <1>1, <1>3
  <2>1. below(s) \in SUBSET below(t)
    <3>1. \A u \in S : u < s => u < t
      BY <2>0
    <3> QED
      BY <3>1
  <2>2. s \in below(t) /\ s \notin below(s)
    BY <2>0
  <2>3. IsFiniteSet(below(t))
    BY <1>1, <1>2
  <2> HIDE DEF below
  <2> QED
    BY <2>1, <2>2, <2>3, FS_Subset
<1>4. rank \in [T -> 0..(cap - 1)]
  <2>1. \A s \in T : Cardinality(below(s)) \in 0..(cap - 1)
    <3> HIDE DEF below
    <3> QED
      BY <1>1, <1>2
  <2> QED
    BY <2>1
<1>5. \A s, t \in T : rank[s] = rank[t] => s = t
  <2> SUFFICES ASSUME NEW s \in T, NEW t \in T, s /= t
               PROVE  rank[s] /= rank[t]
    OBVIOUS
  <2>1. s \in Nat /\ t \in Nat
    BY <1>1
  <2>2. s < t \/ t < s
    BY <2>1
  <2> HIDE DEF below
  <2> QED
    BY <1>3, <2>2
<1> HIDE DEF rank
<1>6. rank \in Injection(T, 0..(cap - 1))
  BY <1>4, <1>5 DEF Injection, IsInjective
<1>7. IsFiniteSet(0..(cap - 1)) /\ Cardinality(0..(cap - 1)) = cap
  BY FS_Interval
<1> QED
  BY <1>1, <1>6, <1>7, FS_Injection DEF T

LEMMA SubscriptionCapped ==
  ASSUME NEW w \in Watchlists
  PROVE  /\ Subscription(w) \in [symbols : SUBSET Symbols, intervals : SUBSET Intervals]
         /\ Cardinality(Subscription(w).symbols) <= MaxSymbols
         /\ Cardinality(Subscription(w).intervals) <= MaxIntervals
<1>1. /\ w.symbols \in SUBSET Symbols /\ w.intervals \in SUBSET Intervals
      /\ Symbols \subseteq Nat /\ Intervals \subseteq Nat
      /\ IsFiniteSet(Symbols) /\ IsFiniteSet(Intervals)
      /\ MaxSymbols \in Nat /\ MaxIntervals \in Nat
  BY MarketGatewayAssumption
<1>2. IsFiniteSet(w.symbols) /\ IsFiniteSet(w.intervals)
  BY <1>1, FS_Subset
<1>3. /\ Truncated(w.symbols, MaxSymbols) \subseteq w.symbols
      /\ Cardinality(Truncated(w.symbols, MaxSymbols)) <= MaxSymbols
      /\ Truncated(w.intervals, MaxIntervals) \subseteq w.intervals
      /\ Cardinality(Truncated(w.intervals, MaxIntervals)) <= MaxIntervals
  <2>1. w.symbols \in SUBSET Nat /\ w.intervals \in SUBSET Nat
    BY <1>1
  <2> QED
    BY <1>1, <1>2, <2>1, TruncatedCap
<1> QED
  BY <1>1, <1>3 DEF Subscription

-----------------------------------------------------------------------------
\* Removing position i from a sequence without repetitions.
LEMMA RemovalOnce ==
  ASSUME NEW S, NEW s \in Seq(S), IsInjective(s), NEW i \in DOMAIN s
  PROVE  /\ RemoveAt(s, i) \in Seq(S)
         /\ IsInjective(RemoveAt(s, i))
         /\ Range(RemoveAt(s, i)) = Range(s) \ {s[i]}
<1> DEFINE n == Len(s)
           r == RemoveAt(s, i)
<1>1. n \in Nat /\ DOMAIN s = 1..n /\ i \in 1..n /\ \A j \in 1..n : s[j] \in S
  BY LenProperties
<1>2. /\ SubSeq(s, 1, i - 1) \in Seq(S)
      /\ Len(SubSeq(s, 1, i - 1)) = i - 1
      /\ \A j \in 1..(i - 1) : SubSeq(s, 1, i - 1)[j] = s[j]
  BY <1>1, SubSeqProperties
<1>3. /\ SubSeq(s, i + 1, n) \in Seq(S)
      /\ Len(SubSeq(s, i + 1, n)) = n - i
      /\ \A j \in 1..(n - i) : SubSeq(s, i + 1, n)[j] = s[i + j]
  BY <1>1, SubSeqProperties
<1>4. /\ r \in Seq(S)
      /\ Len(r) = n - 1
      /\ \A j \in 1..(n - 1) : r[j] = IF j < i THEN s[j] ELSE s[j + 1]
  <2>1. r = SubSeq(s, 1, i - 1) \o SubSeq(s, i + 1, n)
    BY DEF RemoveAt
  <2> DEFINE u == SubSeq(s, 1, i - 1)
             v == SubSeq(s, i + 1, n)
  <2>2. /\ u \in Seq(S) /\ v \in Seq(S)
        /\ Len(u) = i - 1 /\ Len(v) = n - i
        /\ \A j \in 1..(i - 1) : u[j] = s[j]
        /\ \A j \in 1..(n - i) : v[j] = s[i + j]
    BY <1>2, <1>3
  <2>3. r = u \o v
    BY <2>1
  <2> HIDE DEF r, u, v, n
  <2>4. /\ u \o v \in Seq(S)
        /\ Len(u \o v) = Len(u) + Len(v)
        /\ \A j \in 1..(Len(u) + Len(v)) :
             (u \o v)[j] = IF j <= Len(u) THEN u[j] ELSE v[j - Len(u)]
    BY <2>2, ConcatProperties
  <2>5. ASSUME NEW j \in 1..(n - 1)
        PROVE  r[j] = IF j < i THEN s[j] ELSE s[j + 1]
    <3>1. CASE j < i
      BY <1>1, <2>2, <2>3, <2>4, <3>1
    <3>2. CASE j >= i
      <4> DEFINE k == j - (i - 1)
      <4>1. k \in 1..(n - i) /\ i + k = j + 1 /\ ~(j <= i - 1) /\ ~(j < i)
        BY <1>1, <3>2
      <4>2. r[j] = v[k]
        <5>1. j \in 1..(Len(u) + Len(v)) /\ ~(j <= Len(u)) /\ j - Len(u) = k
          BY <1>1, <2>2, <4>1
        <5> HIDE DEF k
        <5> QED
          BY <2>3, <2>4, <5>1
      <4>3. v[k] = s[j + 1]
        <5> HIDE DEF k
        <5> QED
          BY <2>2, <4>1
      <4> QED
        BY <4>1, <4>2, <4>3
    <3> QED
      BY <1>1, <3>1, <3>2
  <2> QED
    BY <1>1, <2>2, <2>3, <2>4, <2>5
<1>5. DOMAIN r = 1..(n - 1)
  BY <1>1, <1>4, LenProperties
<1> HIDE DEF r, n
<1>6. IsInjective(r)
  <2> SUFFICES ASSUME NEW a \in 1..(n - 1), NEW b \in 1..(n - 1), r[a] = r[b]
               PROVE  a = b
    BY <1>5 DEF IsInjective
  <2> DEFINE up(j) == IF j < i THEN j ELSE j + 1
  <2>1. up(a) \in 1..n /\ up(b) \in 1..n /\ (up(a) = up(b) => a = b)
    BY <1>1
  <2>2. r[a] = s[up(a)] /\ r[b] = s[up(b)]
    BY <1>4
  <2> QED
    BY <1>1, <2>1, <2>2 DEF IsInjective
<1>7. Range(r) \subseteq Range(s) \ {s[i]}
  <2> SUFFICES ASSUME NEW a \in 1..(n - 1)
               PROVE  r[a] \in Range(s) \ {s[i]}
    BY <1>5 DEF Range
  <2> DEFINE up == IF a < i THEN a ELSE a + 1
  <2>1. up \in 1..n /\ up /= i /\ r[a] = s[up]
    BY <1>1, <1>4
  <2> HIDE DEF up
  <2> QED
    BY <1>1, <2>1 DEF IsInjective, Range
<1>8. Range(s) \ {s[i]} \subseteq Range(r)
  <2> SUFFICES ASSUME NEW j \in 1..n, s[j] /= s[i]
               PROVE  s[j] \in Range(r)
    BY <1>1 DEF Range
  <2> DEFINE down == IF j < i THEN j ELSE j - 1
  <2>1. j /= i
    OBVIOUS
  <2>2. down \in 1..(n - 1) /\ r[down] = s[j]
    BY <1>1, <1>4, <2>1
  <2> HIDE DEF down
  <2> QED
    BY <1>5, <2>2 DEF Range
<1> QED
  BY <1>4, <1>6, <1>7, <1>8 DEF r

\* _clients.pop takes out one client and leaves the others.
LEMMA PopOne ==
  ASSUME TypeOK, NEW c \in Clients
  PROVE  /\ Without(c) \in Seq(Clients) /\ IsInjective(Without(c))
         /\ Range(Without(c)) = Range(table) \ {c}
<1>1. CASE c \notin Range(table)
  BY <1>1 DEF Without, TypeOK
<1>2. CASE c \in Range(table)
  <2> DEFINE i == CHOOSE i \in DOMAIN table : table[i] = c
  <2>1. i \in DOMAIN table /\ table[i] = c
    BY <1>2 DEF Range
  <2>2. Without(c) = RemoveAt(table, i)
    BY <1>2 DEF Without
  <2> HIDE DEF i
  <2> QED
    BY <2>1, <2>2, RemovalOnce DEF TypeOK
<1> QED
  BY <1>1, <1>2

\* connect() puts in a client that was not there.
LEMMA PutOne ==
  ASSUME TypeOK, NEW c \in Clients, c \notin Range(table)
  PROVE  /\ Append(table, c) \in Seq(Clients)
         /\ IsInjective(Append(table, c))
         /\ Range(Append(table, c)) = Range(table) \cup {c}
<1>1. /\ DOMAIN table = 1..Len(table) /\ Len(table) \in Nat
      /\ Append(table, c) \in Seq(Clients)
      /\ DOMAIN Append(table, c) = 1..(Len(table) + 1)
      /\ \A i \in 1..Len(table) : Append(table, c)[i] = table[i]
      /\ Append(table, c)[Len(table) + 1] = c
  BY AppendProperties DEF TypeOK
<1>2. \A i \in 1..Len(table) : table[i] /= c
  BY <1>1 DEF Range
<1>3. 1..(Len(table) + 1) = (1..Len(table)) \cup {Len(table) + 1}
  BY <1>1
<1>4. IsInjective(Append(table, c))
  <2> DEFINE q == Append(table, c)
  <2>1. \A i, j \in 1..Len(table) : table[i] = table[j] => i = j
    BY <1>1 DEF IsInjective, TypeOK
  <2>2. \A i \in 1..Len(table) : q[i] = table[i] /\ q[i] /= c
    BY <1>1, <1>2
  <2>3. q[Len(table) + 1] = c /\ DOMAIN q = (1..Len(table)) \cup {Len(table) + 1}
    BY <1>1, <1>3
  <2> HIDE DEF q
  <2>4. \A i, j \in DOMAIN q : q[i] = q[j] => i = j
    BY <2>1, <2>2, <2>3
  <2> QED
    BY <2>4 DEF IsInjective, q
<1> QED
  BY <1>1, <1>4, RangeAppend DEF TypeOK

-----------------------------------------------------------------------------
\* The rest of a sequence has nothing that the sequence has not.
LEMMA SuffixOf ==
  ASSUME NEW S, NEW s \in Seq(S), NEW k \in 1..Len(s)
  PROVE  /\ SubSeq(s, k + 1, Len(s)) \in Seq(S)
         /\ Range(SubSeq(s, k + 1, Len(s))) \subseteq Range(s)
<1> DEFINE n == Len(s)
           q == SubSeq(s, k + 1, n)
<1>1. n \in Nat /\ DOMAIN s = 1..n /\ k \in 1..n /\ \A j \in 1..n : s[j] \in S
  BY LenProperties
<1>2. /\ SubSeq(s, k + 1, n) \in Seq(S)
      /\ Len(SubSeq(s, k + 1, n)) = n - k
      /\ \A j \in 1..(n - k) : SubSeq(s, k + 1, n)[j] = s[k + j]
  <2> HIDE DEF n
  <2> QED
    BY <1>1, SubSeqProperties
<1> HIDE DEF q, n
<1>3. DOMAIN q = 1..(n - k) /\ \A j \in 1..(n - k) : k + j \in 1..n
  <2>1. q \in Seq(S) /\ Len(q) = n - k
    BY <1>2 DEF q
  <2> QED
    BY <1>1, <2>1, LenProperties
<1>4. Range(q) \subseteq Range(s)
  BY <1>1, <1>2, <1>3 DEF Range, q
<1> QED
  BY <1>2, <1>4 DEF q, n

LEMMA HandedType ==
  ASSUME TypeOK, NEW c \in Clients, NEW f \in Frames
  PROVE  Handed(c, f) \in [Clients -> Seq(Frames)]
<1>1. wire \in [Clients -> Seq(Frames)] /\ wire[c] \in Seq(Frames)
  BY DEF TypeOK
<1>2. Append(wire[c], f) \in Seq(Frames)
  BY <1>1, AppendProperties
<1> HIDE DEF Frames
<1> QED
  BY <1>1, <1>2 DEF Handed

\* A broadcast passes over those that do not match, to the first that does.
LEMMA ProceedIs ==
  ASSUME NEW e \in Events, NEW ts \in Seq(Clients), Proceed(e, ts)
  PROVE  \E i \in 1..(Len(ts) + 1) :
           /\ \A j \in 1..(i - 1) : ~Matches(e, wants[ts[j]])
           /\ \/ /\ i = Len(ts) + 1 /\ loop' = "listen" /\ targets' = <<>>
                 /\ waiting' = {} /\ wire' = wire
              \/ /\ i \in 1..Len(ts) /\ Matches(e, wants[ts[i]]) /\ loop' = "cast"
                 /\ targets' = SubSeq(ts, i + 1, Len(ts)) /\ waiting' = {ts[i]}
                 /\ wire' = Handed(ts[i], EventFrame(e))
<1> DEFINE I == {j \in 1..Len(ts) : Matches(e, wants[ts[j]])}
           i == SelectInSeq(ts, LAMBDA c : Matches(e, wants[c]))
<1>1. Len(ts) \in Nat
  BY LenProperties
<1>2. /\ I = {} => i = 0
      /\ I /= {} => i \in I /\ \A j \in I : i <= j
  <2>1. i = IF I /= {} THEN Min(I) ELSE 0
    BY DEF SelectInSeq
  <2>2. ASSUME I /= {}
        PROVE  Min(I) \in I /\ \A j \in I : Min(I) <= j
    <3>1. I \in SUBSET Nat
      BY <1>1
    <3>2. \E m \in I : \A k \in I : m <= k
      <4> HIDE DEF I
      <4> QED
        BY <2>2, <3>1, NatSetMin
    <3> HIDE DEF I
    <3> QED
      BY <3>2 DEF Min
  <2> HIDE DEF i, I
  <2> QED
    BY <2>1, <2>2
<1>3. IF i = 0
        THEN /\ loop' = "listen" /\ targets' = <<>> /\ waiting' = {} /\ UNCHANGED wire
        ELSE /\ loop' = "cast"
             /\ targets' = SubSeq(ts, i + 1, Len(ts))
             /\ waiting' = {ts[i]}
             /\ wire' = Handed(ts[i], EventFrame(e))
  BY DEF Proceed
<1> HIDE DEF i
<1>4. CASE I = {}
  <2>1. \A j \in 1..((Len(ts) + 1) - 1) : ~Matches(e, wants[ts[j]])
    BY <1>1, <1>4
  <2>2. Len(ts) + 1 \in 1..(Len(ts) + 1)
    BY <1>1
  <2> QED
    BY <1>2, <1>3, <1>4, <2>1, <2>2
<1>5. CASE I /= {}
  <2>1. i \in 1..Len(ts) /\ Matches(e, wants[ts[i]]) /\ i /= 0
    BY <1>1, <1>2, <1>5
  <2>2. \A j \in 1..(i - 1) : ~Matches(e, wants[ts[j]])
    <3> TAKE j \in 1..(i - 1)
    <3>1. j \in 1..Len(ts) /\ ~(i <= j)
      BY <1>1, <2>1
    <3> QED
      BY <1>2, <1>5, <3>1
  <2>3. i \in 1..(Len(ts) + 1)
    BY <1>1, <2>1
  <2> QED
    BY <1>3, <2>1, <2>2, <2>3
<1> QED
  BY <1>4, <1>5

\* What a broadcast does on its way to the next client that matches.
LEMMA ProceedKeeps ==
  ASSUME TypeOK, NEW e \in Events, NEW ts \in Seq(Clients), Proceed(e, ts)
  PROVE  /\ loop' \in {"listen", "cast"}
         /\ targets' \in Seq(Clients)
         /\ waiting' \subseteq Clients
         /\ waiting' \cup Range(targets') \subseteq Range(ts)
         /\ wire' \in [Clients -> Seq(Frames)]
         /\ OneWait'
<1>1. Len(ts) \in Nat /\ DOMAIN ts = 1..Len(ts) /\ \A j \in 1..Len(ts) : ts[j] \in Clients
  BY LenProperties
<1>2. \/ loop' = "listen" /\ targets' = <<>> /\ waiting' = {} /\ wire' = wire
      \/ \E i \in 1..Len(ts) :
           /\ loop' = "cast" /\ targets' = SubSeq(ts, i + 1, Len(ts)) /\ waiting' = {ts[i]}
           /\ wire' = Handed(ts[i], EventFrame(e))
  BY ProceedIs
<1>3. CASE loop' = "listen" /\ targets' = <<>> /\ waiting' = {} /\ wire' = wire
  BY <1>3, RangeEmpty DEF TypeOK, OneWait
<1>4. ASSUME NEW i \in 1..Len(ts),
             /\ loop' = "cast" /\ targets' = SubSeq(ts, i + 1, Len(ts)) /\ waiting' = {ts[i]}
             /\ wire' = Handed(ts[i], EventFrame(e))
      PROVE  /\ loop' = "cast" /\ targets' \in Seq(Clients) /\ waiting' \subseteq Clients
             /\ waiting' \cup Range(targets') \subseteq Range(ts)
             /\ wire' \in [Clients -> Seq(Frames)]
             /\ OneWait'
  <2>1. ts[i] \in Clients /\ ts[i] \in Range(ts)
    BY <1>1 DEF Range
  <2>2. /\ SubSeq(ts, i + 1, Len(ts)) \in Seq(Clients)
        /\ Range(SubSeq(ts, i + 1, Len(ts))) \subseteq Range(ts)
    BY SuffixOf
  <2>3. EventFrame(e) \in Frames
    BY DEF EventFrame, Frames
  <2>4. wire' \in [Clients -> Seq(Frames)]
    BY <1>4, <2>1, <2>3, HandedType
  <2>5. OneWait'
    BY <1>4 DEF OneWait
  <2> QED
    BY <1>4, <2>1, <2>2, <2>4, <2>5
<1> QED
  BY <1>2, <1>3, <1>4

\* The event in hand is one of those that Redis delivered.
LEMMA LastEvent ==
  ASSUME TypeOK, handled /= <<>>
  PROVE  Last(handled) \in Events
BY LenProperties, EmptySeq DEF TypeOK, Last

\* The position a watchlist is in force from.
LEMMA PassedType ==
  ASSUME TypeOK, InHand, NEW c \in Clients
  PROVE  Passed(c) \in [events : Nat, frames : Nat]
<1>1. Len(handled) \in Nat /\ Len(wire[c]) \in Nat
  BY LenProperties DEF TypeOK
<1>2. c \in Range(targets) => Len(handled) /= 0
  BY EmptySeq, LenProperties DEF InHand, TypeOK
<1> QED
  BY <1>1, <1>2 DEF Passed

LEMMA GatewayInit == Init => GatewayInv
<1> SUFFICES ASSUME Init
             PROVE  GatewayInv
  OBVIOUS
<1>1. /\ MaxSymbols \in Nat /\ MaxIntervals \in Nat
      /\ MaxMessages \in Nat /\ MaxFaults \in Nat
  BY MarketGatewayAssumption
<1>2. Cardinality({}) = 0
  BY FS_EmptySet
<1>3. TypeOK
  <2>1. /\ \A S : <<>> \in Seq(S)
        /\ IsInjective(<<>>)
    BY EmptySeq DEF IsInjective
  <2> QED
    <3>1. /\ loop = "off" /\ bus \in Seq(Events) /\ handled \in Seq(Events)
          /\ targets \in Seq(Clients) /\ waiting \subseteq Clients
          /\ table \in Seq(Clients) /\ IsInjective(table)
          /\ broken \subseteq Clients
      BY <2>1 DEF Init
    <3>2. /\ wants \in [Clients -> [symbols : SUBSET Symbols, intervals : SUBSET Intervals]]
          /\ \A c \in Clients : /\ Cardinality(wants[c].symbols) <= MaxSymbols
                                /\ Cardinality(wants[c].intervals) <= MaxIntervals
      <4>1. wants = [c \in Clients |-> [symbols |-> {}, intervals |-> {}]]
        BY DEF Init
      <4>2. \A c \in Clients : wants[c].symbols = {} /\ wants[c].intervals = {}
        BY <4>1
      <4>3. wants \in [Clients -> [symbols : SUBSET Symbols, intervals : SUBSET Intervals]]
        BY <4>1
      <4> QED
        BY <1>1, <1>2, <4>2, <4>3
    <3>3. /\ endpoint \in [Clients -> {"none", "accept", "receive", "ack", "failed", "ended"}]
          /\ peer \in [Clients -> {"new", "here", "slow", "gone"}]
          /\ since \in [Clients -> [events : Nat, frames : Nat]]
          /\ messages \in 0..MaxMessages /\ faults \in 0..MaxFaults
      BY <1>1 DEF Init
    <3>4. inbox \in [Clients -> Seq(Watchlists)] /\ wire \in [Clients -> Seq(Frames)]
      <4> HIDE DEF Frames
      <4> QED
        BY <2>1 DEF Init
    <3> HIDE DEF Frames
    <3> QED
      BY <3>1, <3>2, <3>3, <3>4 DEF TypeOK
<1> QED
  BY <1>3, RangeEmpty DEF Init, GatewayInv, Tended, BrokenOut, Met, InHand, OneWait

-----------------------------------------------------------------------------
\* The gateway itself, outside a broadcast.
LEMMA LifecycleKeeps ==
  ASSUME GatewayInv, \/ Start \/ StartFails \/ Stop \/ LoopDies
                     \/ \E e \in Events : Publish(e)
  PROVE  GatewayInv'
<1>1. MaxFaults \in Nat
  BY MarketGatewayAssumption
<1>2. /\ UNCHANGED <<handled, clients, browser, wire>>
      /\ UNCHANGED <<targets, waiting>> \/ (targets' = <<>> /\ waiting' = {})
  BY DEF Start, StartFails, Stop, LoopDies, Publish, casting
<1>3. /\ loop' \in {"off", "failed", "listen", "cast", "dead", "stopped"}
      /\ bus' \in Seq(Events) /\ faults' \in 0..MaxFaults
  <2>1. bus \in Seq(Events) /\ faults \in 0..MaxFaults
        /\ loop \in {"off", "failed", "listen", "cast", "dead", "stopped"}
    BY DEF GatewayInv, TypeOK
  <2>2. CASE Start
    BY <2>1, <2>2 DEF Start
  <2>3. CASE StartFails
    BY <1>1, <2>1, <2>3 DEF StartFails, RedisError
  <2>4. CASE Stop
    BY <2>1, <2>4, EmptySeq DEF Stop
  <2>5. CASE LoopDies
    BY <1>1, <2>1, <2>5, EmptySeq DEF LoopDies, RedisError
  <2>6. CASE \E e \in Events : Publish(e)
    BY <2>1, <2>6, AppendProperties DEF Publish, casting
  <2> QED
    BY <2>2, <2>3, <2>4, <2>5, <2>6
<1>4. TypeOK'
  BY <1>2, <1>3, EmptySeq DEF GatewayInv, TypeOK, clients, browser
<1>5. Tended' /\ OneWait'
  <2>1. UNCHANGED <<table, endpoint, peer>> /\ \A c \in Range(table) : c \in Clients
    BY <1>2, LenProperties DEF clients, browser, GatewayInv, TypeOK, Range
  <2>2. CASE Stop
    BY <2>1, <2>2 DEF Stop, GatewayInv, Tended, OneWait
  <2>3. CASE ~Stop
    <3>1. UNCHANGED waiting /\ (loop' = "cast" <=> loop = "cast")
      BY <2>3 DEF Start, StartFails, LoopDies, Publish, casting
    <3> QED
      BY <2>1, <3>1 DEF GatewayInv, Tended, OneWait
  <2> QED
    BY <2>2, <2>3
<1> QED
  BY <1>2, <1>4, <1>5, RangeEmpty DEF GatewayInv, BrokenOut, Met, InHand, clients

LEMMA ReadKeeps ==
  ASSUME GatewayInv, Read
  PROVE  GatewayInv'
<1>1. /\ Head(bus) \in Events /\ Tail(bus) \in Seq(Events)
      /\ handled' \in Seq(Events) /\ handled' /= <<>>
  <2>1. bus \in Seq(Events) /\ handled \in Seq(Events) /\ bus /= <<>>
        /\ handled' = Append(handled, Head(bus))
    BY DEF GatewayInv, TypeOK, Read
  <2>2. Head(bus) \in Events /\ Tail(bus) \in Seq(Events)
    BY <2>1, HeadTailProperties
  <2>3. Append(handled, Head(bus)) \in Seq(Events)
        /\ Append(handled, Head(bus)) /= <<>>
    BY <2>1, <2>2, AppendProperties
  <2> QED
    BY <2>1, <2>2, <2>3
<1>2. /\ loop' \in {"listen", "cast"}
      /\ targets' \in Seq(Clients) /\ waiting' \subseteq Clients
      /\ waiting' \cup Range(targets') \subseteq Range(table)
      /\ wire' \in [Clients -> Seq(Frames)]
      /\ OneWait'
  BY <1>1, ProceedKeeps DEF GatewayInv, TypeOK, Read
<1>3. bus' = Tail(bus) /\ UNCHANGED <<clients, browser, faults>>
  BY DEF Read
<1>4. TypeOK'
  <2> HIDE DEF Frames
  <2> QED
    BY <1>1, <1>2, <1>3 DEF GatewayInv, TypeOK, clients, browser
<1>5. Tended'
  <2>1. waiting = {} /\ UNCHANGED <<table, endpoint, peer>>
    BY <1>3 DEF Read, GatewayInv, OneWait, clients, browser
  <2> QED
    BY <2>1 DEF GatewayInv, Tended
<1>6. Met'
  <2>1. UNCHANGED <<table, endpoint, broken>>
    BY <1>3 DEF clients
  <2> QED
    BY <1>2, <2>1 DEF GatewayInv, Tended, Met
<1> QED
  BY <1>1, <1>2, <1>3, <1>4, <1>5, <1>6 DEF GatewayInv, BrokenOut, InHand, clients

LEMMA SendOkKeeps ==
  ASSUME GatewayInv, NEW c \in Clients, SendOk(c)
  PROVE  GatewayInv'
<1>1. handled /= <<>> /\ Last(handled) \in Events
  BY LastEvent DEF GatewayInv, InHand, SendOk
<1>2. /\ loop' \in {"listen", "cast"}
      /\ targets' \in Seq(Clients) /\ waiting' \subseteq Clients
      /\ waiting' \cup Range(targets') \subseteq Range(targets)
      /\ wire' \in [Clients -> Seq(Frames)]
      /\ OneWait'
  BY <1>1, ProceedKeeps DEF GatewayInv, TypeOK, SendOk
<1>3. /\ c \in waiting
      /\ peer' = [peer EXCEPT ![c] = IF endpoint[c] = "failed" THEN "gone" ELSE @]
      /\ UNCHANGED <<handled, bus, clients, inbox, messages, faults>>
  BY DEF SendOk
<1>4. TypeOK'
  BY <1>2, <1>3 DEF GatewayInv, TypeOK, clients
<1>5. Tended'
  <2>1. /\ UNCHANGED <<table, endpoint>>
        /\ \A d \in waiting : d = c
        /\ DOMAIN peer = Clients
    BY <1>3 DEF GatewayInv, OneWait, TypeOK, clients
  <2>2. \A d \in Range(table) : d \in Clients
    BY LenProperties DEF GatewayInv, TypeOK, Range
  <2> SUFFICES ASSUME NEW d \in Range(table), endpoint[d] \notin {"receive", "ack"}
               PROVE  endpoint[d] = "failed" /\ peer'[d] = "gone"
    BY <2>1 DEF Tended
  <2>3. endpoint[d] = "failed" /\ (peer[d] = "gone" \/ d = c)
    BY <2>1 DEF GatewayInv, Tended
  <2> QED
    BY <1>3, <2>1, <2>2, <2>3
<1>6. Met'
  <2>1. UNCHANGED <<endpoint, broken>>
    BY <1>3 DEF clients
  <2> QED
    BY <1>2, <2>1 DEF GatewayInv, Met
<1> QED
  BY <1>1, <1>2, <1>3, <1>4, <1>5, <1>6 DEF GatewayInv, BrokenOut, InHand, clients

LEMMA SendFailsKeeps ==
  ASSUME GatewayInv, NEW c \in Clients, SendFails(c)
  PROVE  GatewayInv'
<1>1. handled /= <<>> /\ Last(handled) \in Events
  BY LastEvent DEF GatewayInv, InHand, SendFails
<1>2. /\ loop' \in {"listen", "cast"}
      /\ targets' \in Seq(Clients) /\ waiting' \subseteq Clients
      /\ waiting' \cup Range(targets') \subseteq Range(targets)
      /\ wire' \in [Clients -> Seq(Frames)]
      /\ OneWait'
  BY <1>1, ProceedKeeps DEF GatewayInv, TypeOK, SendFails, AfterFailure
<1>3. /\ c \in waiting /\ broken' = broken \cup {c} /\ table' = Without(c)
      /\ UNCHANGED <<handled, bus, wants, endpoint, since, browser, faults>>
  BY DEF SendFails
<1>4. /\ table' \in Seq(Clients) /\ IsInjective(table')
      /\ Range(table') = Range(table) \ {c}
  BY <1>3, PopOne DEF GatewayInv
<1>5. TypeOK'
  BY <1>2, <1>3, <1>4 DEF GatewayInv, TypeOK, browser
<1>6. Tended'
  <2>1. UNCHANGED <<endpoint, peer>> /\ \A d \in waiting : d = c
    BY <1>3 DEF GatewayInv, OneWait, browser
  <2> QED
    BY <1>4, <2>1 DEF GatewayInv, Tended
<1>7. BrokenOut' /\ Met' /\ InHand'
  BY <1>1, <1>2, <1>3, <1>4 DEF GatewayInv, BrokenOut, Met, InHand
<1> QED
  BY <1>2, <1>5, <1>6, <1>7 DEF GatewayInv

-----------------------------------------------------------------------------
\* The parts of the invariant that only the endpoint's place and the table
\* decide, when one endpoint moves and no broadcast does.
LEMMA EndpointMoves ==
  ASSUME GatewayInv, NEW c \in Clients, UNCHANGED casting,
         NEW at \in {"accept", "receive", "ack", "failed", "ended"},
         endpoint' = [endpoint EXCEPT ![c] = at],
         endpoint[c] \in {"none", "accept"} \/ at /= "accept",
         \A d \in Clients : d /= c => peer'[d] = peer[d],
         Range(table') = Range(table) \/ Range(table') = Range(table) \ {c},
         c \in Range(table') =>
           \/ at \in {"receive", "ack"}
           \/ at = "failed" /\ (peer'[c] = "gone" \/ c \in waiting),
         \/ broken' = broken
         \/ /\ broken' = broken \cup {c} /\ c \notin Range(table')
            /\ at = "ended"
  PROVE  Tended' /\ BrokenOut' /\ Met' /\ InHand' /\ OneWait'
<1>1. endpoint \in [Clients -> {"none", "accept", "receive", "ack", "failed", "ended"}]
      /\ broken \subseteq Clients /\ waiting \subseteq Clients
  BY DEF GatewayInv, TypeOK
<1>2. Tended'
  <2>1. /\ \A d \in Range(table) : d \in Clients
        /\ UNCHANGED waiting
    BY LenProperties DEF GatewayInv, TypeOK, Range, casting
  <2> SUFFICES ASSUME NEW d \in Range(table')
               PROVE  \/ endpoint'[d] \in {"receive", "ack"}
                      \/ endpoint'[d] = "failed" /\ (peer'[d] = "gone" \/ d \in waiting)
    BY <2>1 DEF Tended
  <2>2. CASE d = c
    BY <1>1, <2>2
  <2>3. CASE d /= c
    <3>1. d \in Range(table) /\ d \in Clients
      BY <2>1, <2>3
    <3>2. endpoint'[d] = endpoint[d] /\ peer'[d] = peer[d]
      BY <1>1, <2>3, <3>1
    <3> QED
      BY <3>1, <3>2 DEF GatewayInv, Tended
  <2> QED
    BY <2>2, <2>3
<1>3. BrokenOut'
  BY DEF GatewayInv, BrokenOut
<1>4. Met'
  BY <1>1 DEF GatewayInv, Met, casting
<1>5. InHand' /\ OneWait'
  BY DEF GatewayInv, InHand, OneWait, casting
<1> QED
  BY <1>2, <1>3, <1>4, <1>5

\* Taking on a watchlist, capped.
LEMMA WantsCapped ==
  ASSUME TypeOK, NEW c \in Clients, NEW w \in Watchlists,
         wants' = [wants EXCEPT ![c] = Subscription(w)] \/ wants' = wants
  PROVE  /\ wants' \in [Clients -> [symbols : SUBSET Symbols, intervals : SUBSET Intervals]]
         /\ \A d \in Clients : /\ Cardinality(wants'[d].symbols) <= MaxSymbols
                               /\ Cardinality(wants'[d].intervals) <= MaxIntervals
<1> DEFINE Sub == Subscription(w)
<1>1. /\ Sub \in [symbols : SUBSET Symbols, intervals : SUBSET Intervals]
      /\ Cardinality(Sub.symbols) <= MaxSymbols
      /\ Cardinality(Sub.intervals) <= MaxIntervals
  BY SubscriptionCapped
<1>2. wants' = [wants EXCEPT ![c] = Sub] \/ wants' = wants
  OBVIOUS
<1> HIDE DEF Sub
<1> QED
  BY <1>1, <1>2 DEF TypeOK

LEMMA OpenKeeps ==
  ASSUME GatewayInv, NEW c \in Clients, NEW w \in Watchlists, Open(c, w)
  PROVE  GatewayInv'
<1>1. /\ endpoint[c] = "none" /\ endpoint' = [endpoint EXCEPT ![c] = "accept"]
      /\ peer' = [peer EXCEPT ![c] = "here"]
      /\ wants' = [wants EXCEPT ![c] = Subscription(w)]
      /\ UNCHANGED <<casting, bus, table, broken, since, inbox, messages, wire, faults>>
  BY DEF Open
<1>2. TypeOK'
  <2>1. /\ wants' \in [Clients -> [symbols : SUBSET Symbols, intervals : SUBSET Intervals]]
        /\ \A d \in Clients : /\ Cardinality(wants'[d].symbols) <= MaxSymbols
                              /\ Cardinality(wants'[d].intervals) <= MaxIntervals
    BY <1>1, WantsCapped DEF GatewayInv
  <2> QED
    BY <1>1, <2>1 DEF GatewayInv, TypeOK, casting
<1>3. c \notin Range(table)
  BY <1>1 DEF GatewayInv, Tended
<1>4. \A d \in Clients : d /= c => peer'[d] = peer[d]
  BY <1>1 DEF GatewayInv, TypeOK
<1>5. Tended' /\ BrokenOut' /\ Met' /\ InHand' /\ OneWait'
  BY <1>1, <1>3, <1>4, EndpointMoves
<1> QED
  BY <1>2, <1>5 DEF GatewayInv

LEMMA RegisterKeeps ==
  ASSUME GatewayInv, NEW c \in Clients, Register(c)
  PROVE  GatewayInv'
<1>1. /\ endpoint[c] = "accept" /\ endpoint' = [endpoint EXCEPT ![c] = "receive"]
      /\ table' = Append(table, c) /\ since' = [since EXCEPT ![c] = Passed(c)]
      /\ UNCHANGED <<casting, bus, wants, broken, browser, wire, faults>>
  BY DEF Register
<1>2. c \notin Range(table) /\ c \notin broken
  BY <1>1 DEF GatewayInv, Tended, Met
<1>3. /\ table' \in Seq(Clients) /\ IsInjective(table')
      /\ Range(table') = Range(table) \cup {c}
  BY <1>1, <1>2, PutOne DEF GatewayInv
<1>4. since' \in [Clients -> [events : Nat, frames : Nat]]
  <2>1. Passed(c) \in [events : Nat, frames : Nat]
    BY PassedType DEF GatewayInv
  <2>2. since \in [Clients -> [events : Nat, frames : Nat]]
    BY DEF GatewayInv, TypeOK
  <2> QED
    BY <1>1, <2>1, <2>2
<1>5. TypeOK'
  BY <1>1, <1>3, <1>4 DEF GatewayInv, TypeOK, casting, browser
<1>6. endpoint \in [Clients -> {"none", "accept", "receive", "ack", "failed", "ended"}]
      /\ \A d \in Range(table) : d \in Clients
      /\ UNCHANGED <<peer, waiting>>
  <2>1. endpoint \in [Clients -> {"none", "accept", "receive", "ack", "failed", "ended"}]
    BY DEF GatewayInv, TypeOK
  <2>2. \A d \in Range(table) : d \in Clients
    BY LenProperties DEF GatewayInv, TypeOK, Range
  <2> QED
    BY <1>1, <2>1, <2>2 DEF casting, browser
<1>7. Tended'
  BY <1>1, <1>2, <1>3, <1>6 DEF GatewayInv, Tended
<1>8. BrokenOut'
  BY <1>1, <1>2, <1>3 DEF GatewayInv, BrokenOut
<1>9. Met' /\ InHand' /\ OneWait'
  BY <1>1, <1>6 DEF GatewayInv, Met, InHand, OneWait, TypeOK, casting
<1> QED
  BY <1>5, <1>7, <1>8, <1>9 DEF GatewayInv

\* Disconnect and the ends that leave the table alone.
LEMMA EndKeeps ==
  ASSUME GatewayInv, NEW c \in Clients, UNCHANGED <<casting, peer>>,
         c \notin Range(table'), endpoint' = [endpoint EXCEPT ![c] = "ended"],
         table' = table \/ table' = Without(c),
         broken' = broken \/ broken' = broken \cup {c}
  PROVE  /\ Tended' /\ BrokenOut' /\ Met' /\ InHand' /\ OneWait'
         /\ table' \in Seq(Clients) /\ IsInjective(table')
         /\ endpoint' \in [Clients -> {"none", "accept", "receive", "ack", "failed", "ended"}]
         /\ broken' \subseteq Clients
<1>1. /\ Without(c) \in Seq(Clients) /\ IsInjective(Without(c))
      /\ Range(Without(c)) = Range(table) \ {c}
  BY PopOne DEF GatewayInv
<1>2. Tended' /\ BrokenOut' /\ Met' /\ InHand' /\ OneWait'
  BY <1>1, EndpointMoves
<1> QED
  BY <1>1, <1>2 DEF GatewayInv, TypeOK

LEMMA LeavingKeeps ==
  ASSUME GatewayInv, NEW c \in Clients,
         AcceptFails(c) \/ AckFails(c) \/ HangUp(c) \/ ReceiveLate(c)
  PROVE  GatewayInv'
<1>1. c \notin Range(Without(c))
  BY PopOne DEF GatewayInv
<1>2. /\ endpoint' = [endpoint EXCEPT ![c] = "ended"]
      /\ c \notin Range(table')
      /\ table' = table \/ table' = Without(c)
      /\ broken' = broken \/ broken' = broken \cup {c}
      /\ UNCHANGED <<casting, bus, since, peer, messages, wire, faults>>
  <2>1. CASE AcceptFails(c)
    BY <2>1 DEF AcceptFails, GatewayInv, Tended, browser
  <2>2. CASE AckFails(c)
    BY <1>1, <2>2 DEF AckFails, Disconnect, browser
  <2>3. CASE HangUp(c)
    BY <1>1, <2>3 DEF HangUp, Disconnect, browser
  <2>4. CASE ReceiveLate(c)
    BY <1>1, <2>4 DEF ReceiveLate, Disconnect, GatewayInv, BrokenOut
  <2> QED
    BY <2>1, <2>2, <2>3, <2>4
<1>3. /\ inbox' \in [Clients -> Seq(Watchlists)]
      /\ wants' \in [Clients -> [symbols : SUBSET Symbols, intervals : SUBSET Intervals]]
      /\ \A d \in Clients : /\ Cardinality(wants'[d].symbols) <= MaxSymbols
                            /\ Cardinality(wants'[d].intervals) <= MaxIntervals
  <2>1. CASE AcceptFails(c) \/ AckFails(c) \/ HangUp(c)
    BY <2>1 DEF AcceptFails, AckFails, HangUp, GatewayInv, TypeOK, browser
  <2>2. CASE ReceiveLate(c)
    <3>1. inbox \in [Clients -> Seq(Watchlists)] /\ inbox[c] \in Seq(Watchlists)
      BY DEF GatewayInv, TypeOK
    <3>2. Head(inbox[c]) \in Watchlists /\ Tail(inbox[c]) \in Seq(Watchlists)
      BY <2>2, <3>1, HeadTailProperties DEF ReceiveLate
    <3>3. inbox' \in [Clients -> Seq(Watchlists)]
      BY <2>2, <3>1, <3>2 DEF ReceiveLate
    <3> QED
      BY <2>2, <3>2, <3>3, WantsCapped DEF ReceiveLate, Update, GatewayInv
  <2> QED
    BY <2>1, <2>2
<1>4. /\ Tended' /\ BrokenOut' /\ Met' /\ InHand' /\ OneWait'
      /\ table' \in Seq(Clients) /\ IsInjective(table')
      /\ endpoint' \in [Clients -> {"none", "accept", "receive", "ack", "failed", "ended"}]
      /\ broken' \subseteq Clients
  BY <1>2, EndKeeps
<1>5. TypeOK'
  BY <1>2, <1>3, <1>4 DEF GatewayInv, TypeOK, casting
<1> QED
  BY <1>4, <1>5 DEF GatewayInv

LEMMA ReceiveKeeps ==
  ASSUME GatewayInv, NEW c \in Clients, Receive(c)
  PROVE  GatewayInv'
<1>1. /\ endpoint[c] = "receive" /\ endpoint' = [endpoint EXCEPT ![c] = "ack"]
      /\ inbox[c] /= <<>> /\ inbox' = [inbox EXCEPT ![c] = Tail(@)]
      /\ Update(c, Head(inbox[c]))
      /\ wire' = Handed(c, AckFrame(Head(inbox[c])))
      /\ since' = [since EXCEPT ![c] = [Passed(c) EXCEPT !.frames = @ + 1]]
      /\ UNCHANGED <<casting, bus, table, broken, peer, messages, faults>>
  BY DEF Receive
<1>2. inbox \in [Clients -> Seq(Watchlists)] /\ inbox[c] \in Seq(Watchlists)
  BY DEF GatewayInv, TypeOK
<1>3. Head(inbox[c]) \in Watchlists /\ Tail(inbox[c]) \in Seq(Watchlists)
  BY <1>1, <1>2, HeadTailProperties
<1>4. inbox' \in [Clients -> Seq(Watchlists)]
  BY <1>1, <1>2, <1>3
<1>5. /\ wants' \in [Clients -> [symbols : SUBSET Symbols, intervals : SUBSET Intervals]]
      /\ \A d \in Clients : /\ Cardinality(wants'[d].symbols) <= MaxSymbols
                            /\ Cardinality(wants'[d].intervals) <= MaxIntervals
  BY <1>1, <1>3, WantsCapped DEF Update, GatewayInv
<1>6. wire' \in [Clients -> Seq(Frames)]
  <2>1. AckFrame(Head(inbox[c])) \in Frames
    BY <1>3 DEF AckFrame, Frames
  <2> QED
    BY <1>1, <2>1, HandedType DEF GatewayInv
<1>7. since' \in [Clients -> [events : Nat, frames : Nat]]
  <2>1. Passed(c) \in [events : Nat, frames : Nat]
    BY PassedType DEF GatewayInv
  <2>2. since \in [Clients -> [events : Nat, frames : Nat]]
    BY DEF GatewayInv, TypeOK
  <2> QED
    BY <1>1, <2>1, <2>2
<1>8. TypeOK'
  BY <1>1, <1>4, <1>5, <1>6, <1>7 DEF GatewayInv, TypeOK, casting
<1>9. Tended' /\ BrokenOut' /\ Met' /\ InHand' /\ OneWait'
  BY <1>1, EndpointMoves
<1> QED
  BY <1>8, <1>9 DEF GatewayInv

LEMMA AckDoneKeeps ==
  ASSUME GatewayInv, NEW c \in Clients, AckDone(c)
  PROVE  GatewayInv'
<1>1. /\ endpoint[c] = "ack" /\ endpoint' = [endpoint EXCEPT ![c] = "receive"]
      /\ UNCHANGED <<casting, bus, table, wants, broken, since, browser, wire, faults>>
  BY DEF AckDone
<1>2. TypeOK'
  BY <1>1 DEF GatewayInv, TypeOK, casting, browser
<1>3. Tended' /\ BrokenOut' /\ Met' /\ InHand' /\ OneWait'
  BY <1>1, EndpointMoves DEF browser
<1> QED
  BY <1>2, <1>3 DEF GatewayInv

\* An error that ws_market does not catch.
LEMMA AbandonedKeeps ==
  ASSUME GatewayInv, NEW c \in Clients, Unreadable(c) \/ Unsendable(c)
  PROVE  GatewayInv'
<1>1. /\ endpoint' = [endpoint EXCEPT ![c] = "failed"]
      /\ peer' = [peer EXCEPT ![c] = IF c \in waiting THEN @ ELSE "gone"]
      /\ c \notin broken
      /\ UNCHANGED <<casting, bus, table, broken, messages, wire, faults>>
  BY DEF Unreadable, Unsendable, Abandoned
<1>2. /\ inbox \in [Clients -> Seq(Watchlists)] /\ inbox[c] \in Seq(Watchlists)
      /\ peer \in [Clients -> {"new", "here", "slow", "gone"}]
      /\ since \in [Clients -> [events : Nat, frames : Nat]]
  BY DEF GatewayInv, TypeOK
<1>3. /\ inbox' \in [Clients -> Seq(Watchlists)]
      /\ since' \in [Clients -> [events : Nat, frames : Nat]]
      /\ wants' \in [Clients -> [symbols : SUBSET Symbols, intervals : SUBSET Intervals]]
      /\ \A d \in Clients : /\ Cardinality(wants'[d].symbols) <= MaxSymbols
                            /\ Cardinality(wants'[d].intervals) <= MaxIntervals
  <2>1. CASE Unreadable(c)
    BY <2>1 DEF Unreadable, GatewayInv, TypeOK
  <2>2. CASE Unsendable(c)
    <3>1. /\ inbox[c] /= <<>> /\ inbox' = [inbox EXCEPT ![c] = Tail(@)]
          /\ Update(c, Head(inbox[c])) /\ since' = [since EXCEPT ![c] = Passed(c)]
      BY <2>2 DEF Unsendable
    <3>2. Head(inbox[c]) \in Watchlists /\ Tail(inbox[c]) \in Seq(Watchlists)
      BY <1>2, <3>1, HeadTailProperties
    <3>3. Passed(c) \in [events : Nat, frames : Nat]
      BY PassedType DEF GatewayInv
    <3>4. /\ inbox' \in [Clients -> Seq(Watchlists)]
          /\ since' \in [Clients -> [events : Nat, frames : Nat]]
      BY <1>2, <3>1, <3>2, <3>3
    <3> QED
      BY <3>1, <3>2, <3>4, WantsCapped DEF Update, GatewayInv
  <2> QED
    BY <2>1, <2>2
<1>4. peer' \in [Clients -> {"new", "here", "slow", "gone"}]
  BY <1>1, <1>2
<1>5. TypeOK'
  BY <1>1, <1>3, <1>4 DEF GatewayInv, TypeOK, casting
<1>6. peer'[c] = "gone" \/ c \in waiting
  BY <1>1, <1>2
<1>7. \A d \in Clients : d /= c => peer'[d] = peer[d]
  BY <1>1, <1>2
<1>8. Tended' /\ BrokenOut' /\ Met' /\ InHand' /\ OneWait'
  BY <1>1, <1>6, <1>7, EndpointMoves
<1> QED
  BY <1>5, <1>8 DEF GatewayInv

\* The browser's side changes neither the table nor an endpoint.
LEMMA BrowserKeeps ==
  ASSUME GatewayInv, NEW c \in Clients,
         \/ \E w \in Watchlists : SetWatchlist(c, w)
         \/ SlowDown(c) \/ CatchUp(c) \/ Leave(c)
  PROVE  GatewayInv'
<1>1. UNCHANGED <<casting, bus, clients, wire, faults>>
  BY DEF SetWatchlist, SlowDown, CatchUp, Leave, PeerTurns
<1>2. /\ inbox' \in [Clients -> Seq(Watchlists)]
      /\ peer' \in [Clients -> {"new", "here", "slow", "gone"}]
      /\ messages' \in 0..MaxMessages
  <2>1. /\ inbox \in [Clients -> Seq(Watchlists)]
        /\ peer \in [Clients -> {"new", "here", "slow", "gone"}]
        /\ messages \in 0..MaxMessages /\ MaxMessages \in Nat
    BY MarketGatewayAssumption DEF GatewayInv, TypeOK
  <2>2. CASE \E w \in Watchlists : SetWatchlist(c, w)
    BY <2>1, <2>2, AppendProperties DEF SetWatchlist
  <2>3. CASE SlowDown(c) \/ CatchUp(c) \/ Leave(c)
    BY <2>1, <2>3 DEF SlowDown, CatchUp, Leave, PeerTurns
  <2> QED
    BY <2>2, <2>3
<1>3. TypeOK'
  BY <1>1, <1>2 DEF GatewayInv, TypeOK, casting, clients
<1>4. Tended'
  <2>1. UNCHANGED <<table, endpoint, waiting>> /\ DOMAIN peer = Clients
    BY <1>1 DEF casting, clients, GatewayInv, TypeOK
  <2>2. \A d \in Clients : peer[d] = "gone" => peer'[d] = "gone"
    BY <2>1 DEF SetWatchlist, SlowDown, CatchUp, Leave, PeerTurns
  <2>3. \A d \in Range(table) : d \in Clients
    BY LenProperties DEF GatewayInv, TypeOK, Range
  <2> QED
    BY <2>1, <2>2, <2>3 DEF GatewayInv, Tended
<1> QED
  BY <1>1, <1>3, <1>4
  DEF GatewayInv, BrokenOut, Met, InHand, OneWait, casting, clients

LEMMA GatewayStep == GatewayInv /\ [Next]_vars => GatewayInv'
<1> SUFFICES ASSUME GatewayInv, [Next]_vars
             PROVE  GatewayInv'
  OBVIOUS
<1>1. CASE UNCHANGED vars
  <2>1. UNCHANGED <<casting, bus, clients, browser, wire, faults>>
    BY <1>1 DEF vars
  <2>2. TypeOK'
    BY <2>1 DEF casting, clients, browser, GatewayInv, TypeOK
  <2> QED
    BY <2>1, <2>2
    DEF GatewayInv, Tended, BrokenOut, Met, InHand, OneWait, casting, clients, browser,
        Range
<1>2. CASE Start \/ StartFails \/ Stop \/ LoopDies \/ \E e \in Events : Publish(e)
  BY <1>2, LifecycleKeeps
<1>3. CASE Loop
  BY <1>3, ReadKeeps, SendOkKeeps, SendFailsKeeps DEF Loop
<1>4. ASSUME NEW c \in Clients, Endpoint(c)
      PROVE  GatewayInv'
  BY <1>4, RegisterKeeps, LeavingKeeps, ReceiveKeeps, AckDoneKeeps DEF Endpoint
<1>5. ASSUME NEW c \in Clients, NEW w \in Watchlists, Open(c, w)
      PROVE  GatewayInv'
  BY <1>5, OpenKeeps
<1>6. ASSUME NEW c \in Clients,
             \/ \E w \in Watchlists : SetWatchlist(c, w)
             \/ SlowDown(c) \/ CatchUp(c) \/ Leave(c)
      PROVE  GatewayInv'
  BY <1>6, BrowserKeeps
<1>7. ASSUME NEW c \in Clients, Unreadable(c) \/ Unsendable(c)
      PROVE  GatewayInv'
  BY <1>7, AbandonedKeeps
<1> QED
  BY <1>1, <1>2, <1>3, <1>4, <1>5, <1>6, <1>7 DEF Next

LEMMA GatewayInvariant == Spec => []GatewayInv
<1> QED
  BY GatewayInit, GatewayStep, PTL DEF Spec

\* No subscription of connect() or update_watchlist() exceeds its limits, and
\* the client table holds a client once.
THEOREM SessionsCapped == Spec => []TypeOK
BY GatewayInvariant, PTL DEF GatewayInv

\* Whoever is in the client table of the gateway has a ws_market call that will
\* take it out, or one that an error it does not catch has ended; that one's
\* connection is closed, or closes behind the frame that is being sent.
THEOREM TableTended == Spec => []Tended
BY GatewayInvariant, PTL DEF GatewayInv

-----------------------------------------------------------------------------
\* The frames fs from base on are those of the events in from+1..upto that want
\* matches, in their order.
Due(hs, from, upto, want) == {i \in (from + 1)..upto : Matches(hs[i], want)}
Rank(M, i) == Cardinality({j \in M : j <= i})
SentAs(hs, from, upto, want, fs, base) ==
  /\ from \in Nat /\ upto \in Nat /\ base \in Nat /\ fs \in Seq(Frames)
  /\ from <= upto
  /\ Len(fs) = base + Cardinality(Due(hs, from, upto, want))
  /\ \A i \in Due(hs, from, upto, want) :
       fs[base + Rank(Due(hs, from, upto, want), i)] = EventFrame(hs[i])

\* The sets of events are finite, and ranks count from 1.
LEMMA RankRange ==
  ASSUME NEW M \in SUBSET Nat, IsFiniteSet(M), NEW i \in M
  PROVE  Rank(M, i) \in 1..Cardinality(M)
<1> DEFINE D == {j \in M : j <= i}
<1>1. D \in SUBSET M /\ i \in D
  OBVIOUS
<1> HIDE DEF D
<1>2. IsFiniteSet(D) /\ Cardinality(D) <= Cardinality(M) /\ Cardinality(D) \in Nat
      /\ Cardinality(M) \in Nat /\ Cardinality(D) /= 0
  BY <1>1, FS_Subset, FS_CardinalityType, FS_EmptySet
<1> QED
  BY <1>2 DEF Rank, D

LEMMA DueFinite ==
  ASSUME NEW hs, NEW from \in Nat, NEW upto \in Nat, NEW want
  PROVE  Due(hs, from, upto, want) \in SUBSET Nat /\ IsFiniteSet(Due(hs, from, upto, want))
<1>1. IsFiniteSet((from + 1)..upto)
  BY FS_Interval
<1>2. /\ Due(hs, from, upto, want) \in SUBSET ((from + 1)..upto)
      /\ (from + 1)..upto \in SUBSET Nat
  BY DEF Due
<1> QED
  BY <1>1, <1>2, FS_Subset

\* A watchlist that has just come into force has had nothing sent.
LEMMA SentNone ==
  ASSUME NEW hs, NEW n \in Nat, NEW want, NEW fs \in Seq(Frames)
  PROVE  SentAs(hs, n, n, want, fs, Len(fs))
<1>1. Due(hs, n, n, want) = {}
  BY DEF Due
<1>2. Len(fs) \in Nat /\ Cardinality({}) = 0
  BY FS_EmptySet, LenProperties
<1> QED
  BY <1>1, <1>2 DEF SentAs

\* An event that does not match is passed over.
LEMMA SentSkip ==
  ASSUME NEW hs, NEW from, NEW n, NEW want, NEW fs, NEW base,
         SentAs(hs, from, n, want, fs, base), ~Matches(hs[n + 1], want)
  PROVE  SentAs(hs, from, n + 1, want, fs, base)
<1>1. from \in Nat /\ n \in Nat /\ from <= n
  BY DEF SentAs
<1>2. (from + 1)..(n + 1) = ((from + 1)..n) \cup {n + 1}
  BY <1>1
<1>3. Due(hs, from, n + 1, want) = Due(hs, from, n, want)
  BY <1>2 DEF Due
<1> QED
  BY <1>1, <1>3 DEF SentAs

\* One that matches is the next frame.
LEMMA SentOne ==
  ASSUME NEW hs, NEW from, NEW n, NEW want, NEW fs, NEW base,
         SentAs(hs, from, n, want, fs, base), Matches(hs[n + 1], want),
         hs[n + 1] \in Events
  PROVE  SentAs(hs, from, n + 1, want, Append(fs, EventFrame(hs[n + 1])), base)
<1> DEFINE M == Due(hs, from, n, want)
           N == Due(hs, from, n + 1, want)
           f == EventFrame(hs[n + 1])
           gs == Append(fs, f)
<1>1. /\ from \in Nat /\ n \in Nat /\ from <= n /\ base \in Nat /\ fs \in Seq(Frames)
      /\ Len(fs) = base + Cardinality(M)
      /\ \A i \in M : fs[base + Rank(M, i)] = EventFrame(hs[i])
  BY DEF SentAs
<1>2. (from + 1)..(n + 1) = ((from + 1)..n) \cup {n + 1} /\ n + 1 \notin (from + 1)..n
  BY <1>1
<1>3. N = M \cup {n + 1} /\ n + 1 \notin M /\ \A i \in M : i \in Nat /\ i <= n
  <2>1. \A i \in (from + 1)..n : i \in Nat /\ i <= n
    BY <1>1
  <2> QED
    BY <1>2, <2>1 DEF Due
<1>4. M \in SUBSET Nat /\ IsFiniteSet(M)
  BY <1>1, DueFinite
<1> HIDE DEF M, N
<1>5. Cardinality(N) = Cardinality(M) + 1 /\ Cardinality(M) \in Nat /\ IsFiniteSet(N)
  BY <1>3, <1>4, FS_AddElement, FS_CardinalityType
<1>6. Rank(N, n + 1) = Cardinality(N)
  <2>1. {j \in N : j <= n + 1} = N
    BY <1>1, <1>3
  <2> QED
    BY <2>1 DEF Rank
<1>7. \A i \in M : Rank(N, i) = Rank(M, i)
  <2> TAKE i \in M
  <2>1. ~(n + 1 <= i)
    BY <1>1, <1>3
  <2>2. {j \in N : j <= i} = {j \in M : j <= i}
    BY <1>3, <2>1
  <2> QED
    BY <2>2 DEF Rank
<1>8. /\ f \in Frames
      /\ gs \in Seq(Frames) /\ Len(gs) = Len(fs) + 1 /\ Len(fs) \in Nat
      /\ \A j \in 1..Len(fs) : gs[j] = fs[j]
      /\ gs[Len(fs) + 1] = f
  <2>1. f \in Frames
    BY DEF EventFrame, Frames
  <2> HIDE DEF f
  <2> QED
    BY <1>1, <2>1, AppendProperties, LenProperties
<1> HIDE DEF gs
<1>9. ASSUME NEW i \in M
      PROVE  gs[base + Rank(N, i)] = EventFrame(hs[i])
  <2>1. Rank(M, i) \in 1..Cardinality(M)
    BY <1>4, RankRange
  <2>2. base + Rank(M, i) \in 1..Len(fs)
    BY <1>1, <1>5, <2>1
  <2> QED
    BY <1>1, <1>7, <1>8, <2>2
<1>10. gs[base + Rank(N, n + 1)] = f
  <2>1. base + Rank(N, n + 1) = Len(fs) + 1
    BY <1>1, <1>5, <1>6
  <2> QED
    BY <1>8, <2>1
<1>11. \A i \in N : gs[base + Rank(N, i)] = EventFrame(hs[i])
  BY <1>3, <1>9, <1>10
<1>12. Len(gs) = base + Cardinality(N) /\ n + 1 \in Nat /\ from <= n + 1
  BY <1>1, <1>5, <1>8
<1> QED
  BY <1>1, <1>8, <1>11, <1>12 DEF SentAs, N, gs

\* More events may be read.
LEMMA SentKept ==
  ASSUME NEW hs, NEW hs2, NEW from, NEW n, NEW want, NEW fs, NEW base,
         SentAs(hs, from, n, want, fs, base), \A i \in 1..n : hs2[i] = hs[i]
  PROVE  SentAs(hs2, from, n, want, fs, base)
<1>1. from \in Nat /\ n \in Nat
  BY DEF SentAs
<1>2. \A i \in (from + 1)..n : hs2[i] = hs[i]
  BY <1>1
<1>3. Due(hs2, from, n, want) = Due(hs, from, n, want)
  BY <1>2 DEF Due
<1>4. \A i \in Due(hs, from, n, want) : hs2[i] = hs[i]
  BY <1>2 DEF Due
<1> QED
  BY <1>3, <1>4 DEF SentAs

\* The broadcast of the last event of hs has still to come to those in ts.
ToldBy(hs, ts, fs, c) ==
  SentAs(hs, since[c].events, Len(hs) - (IF c \in Range(ts) THEN 1 ELSE 0),
         wants[c], fs, since[c].frames)

Turns == IsInjective(targets) /\ (loop /= "cast" => targets = <<>>)
AllTold == \A c \in Range(table) :
             peer[c] /= "gone" => ToldBy(handled, targets, wire[c], c)

\* Whoever is still to be told of the last event is told once, or passed over for
\* not matching it at his turn.
LEMMA ProceedTells ==
  ASSUME TypeOK, NEW hs \in Seq(Events), hs /= <<>>,
         NEW ts \in Seq(Clients), IsInjective(ts), Proceed(Last(hs), ts)
  PROVE  /\ IsInjective(targets') /\ (loop' /= "cast" => targets' = <<>>)
         /\ \A c \in Clients :
              peer[c] /= "gone" /\ ToldBy(hs, ts, wire[c], c)
                => ToldBy(hs, targets', wire'[c], c)
<1> DEFINE e == Last(hs)
           m == Len(ts)
<1>1. PICK n \in Nat : Len(hs) = n + 1 /\ hs[n + 1] = e /\ e \in Events
  <2>1. Len(hs) \in Nat /\ Len(hs) /= 0 /\ hs[Len(hs)] = e
    BY EmptySeq, LenProperties DEF Last
  <2>2. Len(hs) - 1 \in Nat /\ (Len(hs) - 1) + 1 = Len(hs) /\ hs[Len(hs)] \in Events
    BY <2>1, LenProperties
  <2> QED
    BY <2>1, <2>2
<1>2. /\ m \in Nat /\ DOMAIN ts = 1..m /\ \A j \in 1..m : ts[j] \in Clients
      /\ \A j, k \in 1..m : ts[j] = ts[k] => j = k
  BY LenProperties DEF IsInjective
<1>3. PICK i \in 1..(m + 1) :
        /\ \A j \in 1..(i - 1) : ~Matches(e, wants[ts[j]])
        /\ \/ i = m + 1 /\ loop' = "listen" /\ targets' = <<>> /\ wire' = wire
           \/ /\ i \in 1..m /\ Matches(e, wants[ts[i]]) /\ loop' = "cast"
              /\ targets' = SubSeq(ts, i + 1, m)
              /\ wire' = Handed(ts[i], EventFrame(e))
  BY <1>1, ProceedIs
<1> HIDE DEF e, m
<1>4. /\ i = m + 1 => targets' = <<>> /\ wire' = wire /\ loop' = "listen"
      /\ i \in 1..m => /\ targets' = SubSeq(ts, i + 1, m) /\ loop' = "cast"
                       /\ wire' = Handed(ts[i], EventFrame(e))
                       /\ Matches(e, wants[ts[i]])
  BY <1>2, <1>3
<1>5. i \in 1..m => /\ DOMAIN targets' = 1..(m - i)
                   /\ \A j \in 1..(m - i) : targets'[j] = ts[i + j]
  <2> SUFFICES ASSUME i \in 1..m
               PROVE  /\ DOMAIN targets' = 1..(m - i)
                      /\ \A j \in 1..(m - i) : targets'[j] = ts[i + j]
    OBVIOUS
  <2> DEFINE q == SubSeq(ts, i + 1, m)
  <2>1. /\ q \in Seq(Clients) /\ Len(q) = m - i
        /\ \A j \in 1..(m - i) : q[j] = ts[i + j]
    <3>1. i + 1 \in Int /\ m \in Int /\ \A j \in (i + 1)..m : ts[j] \in Clients
      BY <1>2
    <3>2. /\ q \in Seq(Clients)
          /\ Len(q) = IF i + 1 <= m THEN m - (i + 1) + 1 ELSE 0
          /\ \A j \in 1..(m - (i + 1) + 1) : q[j] = ts[(i + 1) + j - 1]
      BY <3>1, SubSeqProperties
    <3> HIDE DEF q
    <3> QED
      BY <1>2, <3>2
  <2> HIDE DEF q
  <2>2. DOMAIN q = 1..(m - i) /\ targets' = q
    BY <1>4, <2>1, LenProperties DEF q
  <2> QED
    BY <2>1, <2>2
<1>6. \A d : d \in Range(targets') <=> \E k \in 1..m : k > i /\ d = ts[k]
  <2>1. CASE i = m + 1
    <3>1. ~\E k \in 1..m : k > i
      BY <1>2, <2>1
    <3> QED
      BY <1>4, <2>1, <3>1, RangeEmpty
  <2>2. CASE i \in 1..m
    <3>1. \A j \in 1..(m - i) : i + j \in 1..m /\ i + j > i
      BY <1>2, <2>2
    <3>2. \A k \in 1..m : k > i => k - i \in 1..(m - i) /\ i + (k - i) = k
      BY <1>2, <2>2
    <3>3. \A d : d \in Range(targets') <=> \E j \in 1..(m - i) : d = ts[i + j]
      BY <1>5, <2>2 DEF Range
    <3> QED
      BY <3>1, <3>2, <3>3
  <2> QED
    BY <1>2, <1>3, <2>1, <2>2
<1>7. IsInjective(targets')
  <2>1. CASE i = m + 1
    BY <1>4, <2>1 DEF IsInjective
  <2>2. CASE i \in 1..m
    <3>1. ASSUME NEW j \in 1..(m - i), NEW k \in 1..(m - i), targets'[j] = targets'[k]
          PROVE  j = k
      <4>1. i + j \in 1..m /\ i + k \in 1..m /\ ts[i + j] = ts[i + k]
        BY <1>2, <1>5, <2>2, <3>1
      <4>2. i + j = i + k
        BY <1>2, <4>1
      <4> QED
        BY <1>2, <2>2, <4>2
    <3> QED
      BY <1>5, <2>2, <3>1 DEF IsInjective
  <2> QED
    BY <1>2, <1>3, <2>1, <2>2
<1>8. ASSUME NEW c \in Clients, peer[c] /= "gone", ToldBy(hs, ts, wire[c], c)
      PROVE  ToldBy(hs, targets', wire'[c], c)
  <2> DEFINE from == since[c].events
             base == since[c].frames
  <2>1. wire \in [Clients -> Seq(Frames)]
    BY DEF TypeOK
  <2>2. \A k \in 1..m : i \in 1..m /\ ts[k] = c /\ k /= i => wire'[c] = wire[c]
    BY <1>2, <1>4, <2>1 DEF Handed
  <2>3. CASE \A k \in 1..m : ts[k] /= c
    <3>1. c \notin Range(ts) /\ c \notin Range(targets')
      BY <1>2, <1>6, <2>3 DEF Range
    <3>2. wire'[c] = wire[c]
      BY <1>2, <1>3, <1>4, <2>1, <2>3 DEF Handed
    <3> QED
      BY <1>8, <3>1, <3>2 DEF ToldBy
  <2>4. ASSUME NEW k \in 1..m, ts[k] = c
        PROVE  ToldBy(hs, targets', wire'[c], c)
    <3>1. c \in Range(ts) /\ (c \in Range(targets') <=> k > i)
      BY <1>2, <1>6, <2>4 DEF Range
    <3>2. SentAs(hs, from, n, wants[c], wire[c], base)
      <4>1. Len(hs) - 1 = n
        BY <1>1
      <4> QED
        BY <1>8, <3>1, <4>1 DEF ToldBy
    <3>3. ToldBy(hs, targets', wire'[c], c) <=>
            SentAs(hs, from, IF k > i THEN n ELSE n + 1, wants[c], wire'[c], base)
      <4>1. Len(hs) - (IF k > i THEN 1 ELSE 0) = IF k > i THEN n ELSE n + 1
        BY <1>1
      <4> QED
        BY <3>1, <4>1 DEF ToldBy
    <3>4. i \in 1..m \/ (i = m + 1 /\ wire' = wire /\ ~(k > i))
      BY <1>2, <1>4
    <3> HIDE DEF from, base
    <3>5. CASE k > i
      <4>1. i \in 1..m /\ k /= i
        BY <1>2, <3>5
      <4> QED
        BY <2>2, <2>4, <3>2, <3>3, <3>5, <4>1
    <3>6. CASE k < i
      <4>1. k \in 1..(i - 1) /\ ~(k > i) /\ k /= i
        BY <1>2, <3>6
      <4>2. ~Matches(hs[n + 1], wants[c])
        BY <1>1, <1>3, <2>4, <4>1
      <4>3. wire'[c] = wire[c]
        BY <2>2, <2>4, <3>4, <4>1
      <4> QED
        BY <3>2, <3>3, <4>1, <4>2, <4>3, SentSkip
    <3>7. CASE k = i
      <4>1. i \in 1..m /\ ~(k > i)
        BY <1>2, <3>7
      <4>2. Matches(hs[n + 1], wants[c]) /\ wire' = Handed(c, EventFrame(hs[n + 1]))
        BY <1>1, <1>4, <2>4, <3>7, <4>1
      <4>3. wire'[c] = Append(wire[c], EventFrame(hs[n + 1]))
        BY <1>8, <2>1, <4>2 DEF Handed
      <4>4. hs[n + 1] \in Events
        BY <1>1
      <4> QED
        BY <3>2, <3>3, <4>1, <4>2, <4>3, <4>4, SentOne
    <3> QED
      BY <1>2, <3>5, <3>6, <3>7
  <2> QED
    BY <2>3, <2>4
<1> QED
  BY <1>2, <1>3, <1>4, <1>7, <1>8

\* A step of the loop: the event that is in hand by then is told to those in ts.
LEMMA LoopTells ==
  ASSUME GatewayInv, NEW hs \in Seq(Events), hs /= <<>>, handled' = hs,
         NEW ts \in Seq(Clients), IsInjective(ts), Proceed(Last(hs), ts),
         UNCHANGED <<wants, since>>, Range(table') \subseteq Range(table),
         \A c \in Clients : peer[c] = "gone" => peer'[c] = "gone",
         \A c \in Range(table) : peer[c] /= "gone" => ToldBy(hs, ts, wire[c], c)
  PROVE  Turns' /\ AllTold'
<1>1. \A c \in Range(table) : c \in Clients
  BY LenProperties DEF GatewayInv, TypeOK, Range
<1>2. /\ IsInjective(targets') /\ (loop' /= "cast" => targets' = <<>>)
      /\ \A c \in Range(table) :
           peer[c] /= "gone" => ToldBy(hs, targets', wire'[c], c)
  BY <1>1, ProceedTells DEF GatewayInv
<1>3. ASSUME NEW c \in Range(table'), peer'[c] /= "gone"
      PROVE  ToldBy(handled, targets, wire[c], c)'
  <2>1. ToldBy(hs, targets', wire'[c], c)
    BY <1>1, <1>2, <1>3
  <2> QED
    BY <2>1 DEF ToldBy
<1> QED
  BY <1>2, <1>3 DEF Turns, AllTold

LEMMA ReadTells ==
  ASSUME GatewayInv, Turns, AllTold, Read
  PROVE  Turns' /\ AllTold'
<1> DEFINE e == Head(bus)
           hs == Append(handled, e)
<1>1. /\ targets = <<>> /\ Proceed(e, table) /\ handled' = hs
      /\ UNCHANGED <<wants, since, peer, table>> /\ bus /= <<>>
  BY DEF Read, Turns, clients, browser
<1>2. /\ table \in Seq(Clients) /\ IsInjective(table) /\ handled \in Seq(Events)
      /\ e \in Events
  BY <1>1 DEF GatewayInv, TypeOK
<1>3. PICK n \in Nat : n = Len(handled)
  BY <1>2, LenProperties
<1>4. /\ hs \in Seq(Events) /\ Len(hs) = n + 1 /\ hs[n + 1] = e
      /\ \A i \in 1..n : hs[i] = handled[i]
  <2> HIDE DEF e
  <2> QED
    BY <1>2, <1>3, AppendProperties
<1> HIDE DEF e, hs
<1>5. hs /= <<>> /\ Last(hs) = e
  BY <1>4 DEF Last
<1>6. ASSUME NEW c \in Range(table), peer[c] /= "gone"
      PROVE  ToldBy(hs, table, wire[c], c)
  <2>1. c \notin Range(targets)
    BY <1>1, RangeEmpty
  <2>2. SentAs(handled, since[c].events, n, wants[c], wire[c], since[c].frames)
    <3>1. Len(handled) - 0 = n
      BY <1>3
    <3> QED
      BY <1>6, <2>1, <3>1 DEF AllTold, ToldBy
  <2>3. SentAs(hs, since[c].events, n, wants[c], wire[c], since[c].frames)
    BY <1>4, <2>2, SentKept
  <2>4. Len(hs) - 1 = n
    BY <1>4
  <2> QED
    BY <2>3, <2>4 DEF ToldBy
<1>7. Range(table') \subseteq Range(table)
  BY <1>1
<1> QED
  BY <1>1, <1>2, <1>4, <1>5, <1>6, <1>7, LoopTells

LEMMA SendTells ==
  ASSUME GatewayInv, Turns, AllTold, NEW c \in Clients, SendOk(c) \/ SendFails(c)
  PROVE  Turns' /\ AllTold'
<1>1. /\ Proceed(Last(handled), targets) /\ handled' = handled /\ c \in waiting
      /\ UNCHANGED <<wants, since>> /\ (table' = table \/ table' = Without(c))
      /\ DOMAIN peer = Clients
  BY DEF SendOk, SendFails, AfterFailure, clients, browser, GatewayInv, TypeOK
<1>2. Range(table') \subseteq Range(table)
  BY <1>1, PopOne DEF GatewayInv
<1>3. /\ handled \in Seq(Events) /\ handled /= <<>>
      /\ targets \in Seq(Clients) /\ IsInjective(targets)
  BY <1>1 DEF GatewayInv, TypeOK, InHand, Turns
<1>4. \A d \in Clients : peer[d] = "gone" => peer'[d] = "gone"
  BY <1>1 DEF SendOk, SendFails, browser
<1> QED
  BY <1>1, <1>2, <1>3, <1>4, LoopTells DEF AllTold

\* A step of anything else: whoever is in the table was there and nothing has
\* changed for him, or his watchlist has just come into force.
LEMMA OthersTell ==
  ASSUME GatewayInv, Turns, AllTold, UNCHANGED casting,
         \A c \in Range(table') :
           peer'[c] /= "gone" =>
             \/ /\ c \in Range(table) /\ peer[c] /= "gone"
                /\ wants'[c] = wants[c] /\ since'[c] = since[c] /\ wire'[c] = wire[c]
             \/ /\ wire'[c] \in Seq(Frames)
                /\ since'[c] = [events |-> Passed(c).events, frames |-> Len(wire'[c])]
                /\ c \in Clients
  PROVE  Turns' /\ AllTold'
<1>1. Turns'
  BY DEF Turns, casting
<1>2. ASSUME NEW c \in Range(table'), peer'[c] /= "gone"
      PROVE  ToldBy(handled, targets, wire[c], c)'
  <2>1. handled' = handled /\ targets' = targets
    BY DEF casting
  <2>2. CASE /\ c \in Range(table) /\ peer[c] /= "gone"
             /\ wants'[c] = wants[c] /\ since'[c] = since[c] /\ wire'[c] = wire[c]
    <3>1. ToldBy(handled, targets, wire[c], c)
      BY <2>2 DEF AllTold
    <3> QED
      BY <2>1, <2>2, <3>1 DEF ToldBy
  <2>3. CASE /\ wire'[c] \in Seq(Frames)
             /\ since'[c] = [events |-> Passed(c).events, frames |-> Len(wire'[c])]
             /\ c \in Clients
    <3>1. PICK n \in Nat : n = Passed(c).events
      BY <2>3, PassedType DEF GatewayInv
    <3>2. n = Len(handled) - (IF c \in Range(targets) THEN 1 ELSE 0)
      BY <3>1 DEF Passed
    <3>3. SentAs(handled, n, n, wants'[c], wire'[c], Len(wire'[c]))
      BY <2>3, SentNone
    <3>4. since'[c].events = n /\ since'[c].frames = Len(wire'[c])
      BY <2>3, <3>1
    <3> QED
      BY <2>1, <3>2, <3>3, <3>4 DEF ToldBy
  <2> QED
    BY <1>2, <2>2, <2>3
<1> QED
  BY <1>1, <1>2 DEF AllTold

LEMMA LifecycleTells ==
  ASSUME GatewayInv, Turns, AllTold,
         Start \/ StartFails \/ Stop \/ LoopDies \/ \E e \in Events : Publish(e)
  PROVE  Turns' /\ AllTold'
<1>1. UNCHANGED <<clients, browser, wire, handled>>
  BY DEF Start, StartFails, Stop, LoopDies, Publish, casting
<1>2. \/ targets' = targets /\ (loop' = loop \/ (loop' /= "cast" /\ loop /= "cast"))
      \/ targets' = <<>> /\ \A c \in Range(table) : peer[c] = "gone"
  <2>1. CASE Stop
    <3>1. \A c \in Range(table) :
            c \in Clients /\ endpoint[c] \in {"receive", "ack", "failed"}
      BY LenProperties DEF GatewayInv, TypeOK, Tended, Range
    <3> QED
      BY <2>1, <3>1 DEF Stop
  <2> QED
    BY <2>1 DEF Start, StartFails, LoopDies, Publish, casting
<1>3. UNCHANGED <<table, wants, since, peer, wire>>
  BY <1>1 DEF clients, browser
<1>4. Turns'
  BY <1>2 DEF Turns, IsInjective
<1>5. AllTold'
  BY <1>1, <1>2, <1>3 DEF AllTold, ToldBy
<1> QED
  BY <1>4, <1>5

LEMMA EndpointTells ==
  ASSUME GatewayInv, Turns, AllTold, NEW c \in Clients, Endpoint(c)
  PROVE  Turns' /\ AllTold'
<1>0. /\ wire \in [Clients -> Seq(Frames)] /\ wire[c] \in Seq(Frames)
      /\ since \in [Clients -> [events : Nat, frames : Nat]]
      /\ DOMAIN wants = Clients /\ table \in Seq(Clients)
      /\ \A d \in Range(table) : d \in Clients
  BY LenProperties DEF GatewayInv, TypeOK, Range
<1>1. UNCHANGED <<casting, peer>>
  BY DEF Endpoint, Register, AcceptFails, Receive, ReceiveLate, HangUp, AckDone,
         AckFails, browser
<1>2. CASE Register(c)
  <2>1. /\ table' = Append(table, c) /\ since' = [since EXCEPT ![c] = Passed(c)]
        /\ UNCHANGED <<wants, wire>> /\ endpoint[c] = "accept"
    BY <1>2 DEF Register
  <2>2. c \notin Range(table)
    BY <2>1 DEF GatewayInv, Tended
  <2>3. Range(table') = Range(table) \cup {c}
    BY <2>1, <2>2, PutOne DEF GatewayInv
  <2>4. since'[c] = [events |-> Passed(c).events, frames |-> Len(wire'[c])]
    BY <1>0, <2>1 DEF Passed
  <2>5. \A d \in Range(table) : d /= c => since'[d] = since[d]
    BY <1>0, <2>1
  <2> QED
    BY <1>0, <1>1, <2>1, <2>2, <2>3, <2>4, <2>5, OthersTell
<1>3. CASE Receive(c)
  <2>1. /\ table' = table /\ peer[c] /= "gone" /\ Update(c, Head(inbox[c]))
        /\ wire' = Handed(c, AckFrame(Head(inbox[c])))
        /\ since' = [since EXCEPT ![c] = [Passed(c) EXCEPT !.frames = @ + 1]]
        /\ inbox[c] /= <<>>
    BY <1>3 DEF Receive
  <2>2. AckFrame(Head(inbox[c])) \in Frames
    <3>1. inbox[c] \in Seq(Watchlists)
      BY DEF GatewayInv, TypeOK
    <3>2. Head(inbox[c]) \in Watchlists
      BY <2>1, <3>1, HeadTailProperties
    <3> QED
      BY <3>2 DEF AckFrame, Frames
  <2>3. /\ wire'[c] = Append(wire[c], AckFrame(Head(inbox[c])))
        /\ \A d \in Clients : d /= c => wire'[d] = wire[d]
    BY <1>0, <2>1 DEF Handed
  <2>4. wire'[c] \in Seq(Frames) /\ Len(wire'[c]) = Len(wire[c]) + 1
    BY <1>0, <2>2, <2>3, AppendProperties
  <2>5. since'[c] = [events |-> Passed(c).events, frames |-> Len(wire'[c])]
    BY <1>0, <2>1, <2>4 DEF Passed
  <2>6. \A d \in Range(table) : d /= c => since'[d] = since[d] /\ wants'[d] = wants[d]
    BY <1>0, <2>1 DEF Update
  <2> QED
    BY <1>0, <1>1, <2>1, <2>3, <2>4, <2>5, <2>6, OthersTell
<1>4. CASE AcceptFails(c) \/ ReceiveLate(c) \/ HangUp(c) \/ AckFails(c)
  <2>1. /\ UNCHANGED <<since, wire>> /\ (table' = table \/ table' = Without(c))
        /\ peer[c] = "gone"
    BY <1>4 DEF AcceptFails, ReceiveLate, HangUp, AckFails, Disconnect
  <2>2. Range(table') \subseteq Range(table)
    BY <2>1, PopOne DEF GatewayInv
  <2>3. \A d \in Range(table) : d /= c => wants'[d] = wants[d]
    BY <1>0, <1>4 DEF AcceptFails, ReceiveLate, HangUp, AckFails, Update
  <2> QED
    BY <1>1, <2>1, <2>2, <2>3, OthersTell
<1>5. CASE AckDone(c)
  <2>1. UNCHANGED <<since, wire, table, wants>>
    BY <1>5 DEF AckDone
  <2> QED
    BY <1>1, <2>1, OthersTell
<1> QED
  BY <1>2, <1>3, <1>4, <1>5 DEF Endpoint

LEMMA BrowserTells ==
  ASSUME GatewayInv, Turns, AllTold, NEW c \in Clients,
         \/ \E w \in Watchlists : Open(c, w) \/ SetWatchlist(c, w)
         \/ SlowDown(c) \/ CatchUp(c) \/ Leave(c)
  PROVE  Turns' /\ AllTold'
<1>0. /\ \A d \in Range(table) : d \in Clients
      /\ DOMAIN peer = Clients /\ DOMAIN wants = Clients
  BY LenProperties DEF GatewayInv, TypeOK, Range
<1>1. UNCHANGED <<casting, table, since, wire>>
  BY DEF Open, SetWatchlist, SlowDown, CatchUp, Leave, PeerTurns, clients
<1>2. \A d \in Range(table) :
        peer'[d] /= "gone" => peer[d] /= "gone" /\ wants'[d] = wants[d]
  <2>1. CASE \E w \in Watchlists : Open(c, w)
    <3>1. PICK w \in Watchlists : Open(c, w)
      BY <2>1
    <3>2. c \notin Range(table)
      BY <3>1 DEF Open, GatewayInv, Tended
    <3> QED
      BY <1>0, <3>1, <3>2 DEF Open
  <2>2. CASE \E w \in Watchlists : SetWatchlist(c, w)
    BY <2>2 DEF SetWatchlist, clients
  <2>3. CASE SlowDown(c) \/ CatchUp(c) \/ Leave(c)
    BY <1>0, <2>3 DEF SlowDown, CatchUp, Leave, PeerTurns, clients
  <2> QED
    BY <2>1, <2>2, <2>3
<1> QED
  BY <1>1, <1>2, OthersTell

\* The end of an endpoint by an error that it does not catch: the connection is
\* closed, or a frame is being sent and the watchlist may have changed with none.
LEMMA AbandonedTells ==
  ASSUME GatewayInv, Turns, AllTold, NEW c \in Clients, Unreadable(c) \/ Unsendable(c)
  PROVE  Turns' /\ AllTold'
<1>0. /\ wire \in [Clients -> Seq(Frames)] /\ wire[c] \in Seq(Frames)
      /\ DOMAIN since = Clients /\ DOMAIN wants = Clients /\ DOMAIN peer = Clients
      /\ \A d \in Range(table) : d \in Clients
  BY LenProperties DEF GatewayInv, TypeOK, Range
<1>1. /\ UNCHANGED <<casting, table, wire>>
      /\ \A d \in Clients : peer'[d] /= "gone" => peer[d] /= "gone"
  BY <1>0 DEF Unreadable, Unsendable, Abandoned
<1>2. CASE Unreadable(c)
  <2>1. UNCHANGED <<since, wants>>
    BY <1>2 DEF Unreadable
  <2> QED
    BY <1>0, <1>1, <2>1, OthersTell
<1>3. CASE Unsendable(c)
  <2>1. since' = [since EXCEPT ![c] = Passed(c)] /\ Update(c, Head(inbox[c]))
    BY <1>3 DEF Unsendable
  <2>2. since'[c] = [events |-> Passed(c).events, frames |-> Len(wire'[c])]
    BY <1>0, <1>1, <2>1 DEF Passed
  <2>3. \A d \in Range(table) : d /= c => since'[d] = since[d] /\ wants'[d] = wants[d]
    BY <1>0, <2>1 DEF Update
  <2> QED
    BY <1>0, <1>1, <2>2, <2>3, OthersTell
<1> QED
  BY <1>2, <1>3

LEMMA TellingStep ==
  ASSUME GatewayInv, Turns, AllTold, [Next]_vars
  PROVE  Turns' /\ AllTold'
<1>1. CASE UNCHANGED vars
  <2>1. UNCHANGED <<casting, table, since, wire, peer, wants>>
    BY <1>1 DEF vars, clients, browser
  <2> QED
    BY <2>1, OthersTell
<1>2. CASE Start \/ StartFails \/ Stop \/ LoopDies \/ \E e \in Events : Publish(e)
  BY <1>2, LifecycleTells
<1>3. CASE Loop
  BY <1>3, ReadTells, SendTells DEF Loop
<1>4. ASSUME NEW c \in Clients, Endpoint(c)
      PROVE  Turns' /\ AllTold'
  BY <1>4, EndpointTells
<1>5. ASSUME NEW c \in Clients,
             \/ \E w \in Watchlists : Open(c, w) \/ SetWatchlist(c, w)
             \/ SlowDown(c) \/ CatchUp(c) \/ Leave(c)
      PROVE  Turns' /\ AllTold'
  BY <1>5, BrowserTells
<1>6. ASSUME NEW c \in Clients, Unreadable(c) \/ Unsendable(c)
      PROVE  Turns' /\ AllTold'
  BY <1>6, AbandonedTells
<1> QED
  BY <1>1, <1>2, <1>3, <1>4, <1>5, <1>6 DEF Next

\* Each client in the table was sent what matches its watchlist, each event once
\* and in the order it was read, whoever else stalls, leaves, joins or changes
\* a watchlist in the middle of a broadcast (_broadcast, update_watchlist).
THEOREM EveryoneServed == Spec => []Served
<1>1. Init => Turns /\ AllTold
  BY RangeEmpty DEF Init, Turns, AllTold, IsInjective
<1>2. Turns /\ AllTold /\ GatewayInv /\ [Next]_vars => Turns' /\ AllTold'
  BY TellingStep
<1>3. AllTold => Served
  BY DEF AllTold, ToldBy, SentAs, Due, Rank, Served, Passed
<1> QED
  BY <1>1, <1>2, <1>3, GatewayInvariant, PTL DEF Spec
=============================================================================
