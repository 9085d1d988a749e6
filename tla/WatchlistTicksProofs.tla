------------------------- MODULE WatchlistTicksProofs -------------------------
(***************************************************************************)
(* The watchlist: proofs of TypeOK, RowsOfCurrent and FlashTended for any  *)
(* symbols, prices, number of trades, polls and choices, and any length of *)
(* the queue.                                                              *)
(*                                                                         *)
(* A render folds the queued updates.  What it leaves is found by walking  *)
(* along the queue to the first update after which it would be wrong       *)
(* (RenderedGood).  A row has one timer at most because the timer that     *)
(* runs for it is always the one that timersRef knows (Tight): the trade   *)
(* that replaces the one stops the other.  A flash that is on at some      *)
(* place of the queue has a timer, or its end further down (Lit).          *)
(***************************************************************************)
EXTENDS WatchlistTicks, FiniteSetTheorems, SequenceTheorems,
        WellFoundedInduction, TLAPS

Rows    == [price : Prices \cup {NoPrice},
            direction : {"up", "down", "none"}, flashing : BOOLEAN]
Timers  == [symbol : Symbols, id : 1..MaxTrades]
Trades  == [symbol : Symbols, price : Prices, id : 1..MaxTrades]
Effects == 1..MaxEffects

Panels == [rows : [Symbols -> Rows], timers : SUBSET Timers,
           ref : [Symbols -> 0..MaxTrades]]

Updates ==
       [kind : {"tick"}, effect : Effects, what : Trades]
  \cup [kind : {"poll"}, effect : Effects, what : [Symbols -> Prices \cup {NoPrice}]]
  \cup [kind : {"off"}, effect : Effects, what : Symbols]
  \cup [kind : {"reset"}, effect : Effects, what : {{}}]

\* The only timer of a row is the one that timersRef has for it.
Tight(st) == \A t \in st.timers : t.id = st.ref[t.symbol]

\* What flashes has a timer, or its end is later than place i of the queue q.
Lit(st, q, i) ==
  \A s \in Symbols : st.rows[s].flashing =>
    \/ \E t \in st.timers : t.symbol = s
    \/ \E j \in (i + 1)..Len(q) : Ends(q[j], s)

Panel == [rows |-> rows, timers |-> timers, ref |-> ref]

PanelInv ==
  /\ active \in Effects
  /\ Panel \in Panels
  /\ queue \in Seq(Updates)
  /\ polls \in [Effects -> Nat]
  /\ socket \in {"connecting", "open", "dead"}
  /\ bus \in Seq(Trades)
  /\ trades \in 0..MaxTrades
  /\ Tight(Panel)
  /\ Lit(Panel, queue, 0)
  /\ RowsOfCurrent

-----------------------------------------------------------------------------
\* A set of numbers has a least element.
LEMMA NatSetMin ==
  ASSUME NEW T \in SUBSET Nat, T /= {}
  PROVE  \E m \in T : \A k \in T : m <= k
<1> DEFINE U == {0..k : k \in T}
<1>1. U \subseteq FiniteSubsetsOf(Nat) /\ U /= {}
  <2> SUFFICES ASSUME NEW k \in T
               PROVE  0..k \in SUBSET Nat /\ IsFiniteSet(0..k)
    BY DEF FiniteSubsetsOf
  <2> QED
    BY FS_Interval
<1>2. PICK x \in U : \A y \in U : <<y, x>> \notin StrictSubsetOrdering(Nat)
  <2> HIDE DEF U
  <2> QED
    BY <1>1, FS_StrictSubsetOrderingWellFounded, WFMin
<1>3. PICK m \in T : x = 0..m
  OBVIOUS
<1>4. ASSUME NEW k \in T, k < m
      PROVE  <<0..k, 0..m>> \in StrictSubsetOrdering(Nat)
  BY <1>4 DEF StrictSubsetOrdering
<1>5. \A k \in T : ~(k < m)
  BY <1>2, <1>3, <1>4
<1> QED
  BY <1>5

-----------------------------------------------------------------------------
\* The states between the updates of a render, up to place n of the queue.
Walk(f, q, start, n) ==
  f = [i \in 0..n |-> IF i = 0 THEN start ELSE Applied(q[i], f[i - 1])]

LEMMA WalkExists ==
  ASSUME NEW q, NEW start, NEW n \in Nat
  PROVE  \E f : Walk(f, q, start, n)
<1> DEFINE T == {k \in Nat : ~\E f : Walk(f, q, start, k)}
<1> SUFFICES ASSUME T /= {} PROVE FALSE
  OBVIOUS
<1>1. PICK m \in T : \A k \in T : m <= k
  <2>1. T \in SUBSET Nat
    OBVIOUS
  <2> HIDE DEF T
  <2> QED
    BY <2>1, NatSetMin
<1>2. m /= 0
  <2>1. Walk([i \in 0..0 |-> start], q, start, 0)
    BY DEF Walk
  <2> QED
    BY <2>1
<1>3. m - 1 \in Nat /\ m - 1 \notin T
  BY <1>1, <1>2
<1>4. PICK f : Walk(f, q, start, m - 1)
  BY <1>3
<1> DEFINE g == [i \in 0..m |-> IF i < m THEN f[i] ELSE Applied(q[m], f[m - 1])]
<1>5. Walk(g, q, start, m)
  <2>1. ASSUME NEW i \in 0..m
        PROVE  g[i] = IF i = 0 THEN start ELSE Applied(q[i], g[i - 1])
    <3>1. CASE i = m
      BY <1>2, <3>1
    <3>2. CASE i /= m
      <4>1. i \in 0..(m - 1) /\ g[i] = f[i] /\ (i /= 0 => i - 1 \in 0..(m - 1) /\ g[i - 1] = f[i - 1])
        BY <3>2
      <4>2. f[i] = IF i = 0 THEN start ELSE Applied(q[i], f[i - 1])
        BY <1>4, <4>1 DEF Walk
      <4> QED
        BY <4>1, <4>2
    <3> QED
      BY <3>1, <3>2
  <2> QED
    BY <2>1 DEF Walk
<1> QED
  BY <1>5

\* A render leaves the last of them.
LEMMA RenderedIs ==
  ASSUME NEW q \in Seq(Updates), NEW start
  PROVE  \E f : /\ f[0] = start
                /\ \A i \in 1..Len(q) : f[i] = Applied(q[i], f[i - 1])
                /\ Rendered(q, start) = f[Len(q)]
<1> DEFINE f == CHOOSE f : f = [i \in 0..Len(q) |->
                               IF i = 0 THEN start ELSE Applied(q[i], f[i - 1])]
<1>1. Len(q) \in Nat
  OBVIOUS
<1>2. f = [i \in 0..Len(q) |-> IF i = 0 THEN start ELSE Applied(q[i], f[i - 1])]
  <2>1. f = CHOOSE g : Walk(g, q, start, Len(q))
    BY DEF Walk
  <2>2. \E g : Walk(g, q, start, Len(q))
    BY <1>1, WalkExists
  <2>3. Walk(f, q, start, Len(q))
    <3> HIDE DEF f
    <3> QED
      BY <2>1, <2>2
  <2> QED
    BY <2>3 DEF Walk
<1>3. Rendered(q, start) = f[Len(q)]
  BY DEF Rendered
<1> HIDE DEF f
<1>4. f[0] = start /\ \A i \in 1..Len(q) : f[i] = Applied(q[i], f[i - 1])
  <2>1. 0 \in 0..Len(q) /\ \A i \in 1..Len(q) : i \in 0..Len(q) /\ i /= 0
    BY <1>1
  <2> QED
    BY <1>2, <2>1
<1> QED
  BY <1>3, <1>4

-----------------------------------------------------------------------------
\* What holds of the panel before the update at place i of the queue q holds of
\* it after: there is one lemma per kind of update.
Good(st, q, i) == st \in Panels /\ Tight(st) /\ Lit(st, q, i)

LEMMA DirectionType ==
  ASSUME NEW old \in Prices \cup {NoPrice}, NEW new \in Prices \cup {NoPrice}
  PROVE  Direction(old, new) \in {"up", "down", "none"}
BY WatchlistTicksAssumption DEF Direction, NoPrice

\* An update that leaves the timers, and lets nothing flash that did not, needs
\* to leave only a row with its end alone.
LEMMA SameTimers ==
  ASSUME NEW q \in Seq(Updates), NEW i \in 1..Len(q), NEW st, Good(st, q, i - 1),
         NEW rs \in [Symbols -> Rows],
         \A s \in Symbols : rs[s].flashing =>
           st.rows[s].flashing /\ ~Ends(q[i], s)
  PROVE  Good([st EXCEPT !.rows = rs], q, i)
<1> DEFINE new == [st EXCEPT !.rows = rs]
<1>1. /\ st \in Panels /\ new \in Panels /\ new.rows = rs
      /\ new.timers = st.timers /\ new.ref = st.ref
  BY DEF Good, Panels
<1>2. Tight(new)
  BY <1>1 DEF Good, Tight
<1>3. ASSUME NEW s \in Symbols, rs[s].flashing, ~\E t \in st.timers : t.symbol = s
      PROVE  \E j \in (i + 1)..Len(q) : Ends(q[j], s)
  <2>1. PICK j \in (i - 1 + 1)..Len(q) : Ends(q[j], s)
    BY <1>3 DEF Good, Lit
  <2>2. j /= i /\ j \in (i + 1)..Len(q)
    BY <1>3, <2>1
  <2> QED
    BY <2>1, <2>2
<1>4. Lit(new, q, i)
  BY <1>1, <1>3 DEF Lit
<1> QED
  BY <1>1, <1>2, <1>4 DEF Good

LEMMA TickGood ==
  ASSUME NEW q \in Seq(Updates), NEW i \in 1..Len(q), NEW st, Good(st, q, i - 1),
         NEW t \in Trades, ~\E s \in Symbols : Ends(q[i], s)
  PROVE  Good(Ticked(st, t), q, i)
<1> DEFINE new == Ticked(st, t)
           d == Direction(st.rows[t.symbol].price, t.price)
           own == [symbol |-> t.symbol, id |-> t.id]
<1>1. /\ st.rows \in [Symbols -> Rows] /\ st.timers \subseteq Timers
      /\ st.ref \in [Symbols -> 0..MaxTrades]
      /\ t.symbol \in Symbols /\ t.price \in Prices /\ t.id \in 1..MaxTrades
  BY DEF Good, Panels, Trades
<1>2. d \in {"up", "down", "none"}
  <2>1. st.rows[t.symbol].price \in Prices \cup {NoPrice}
    BY <1>1 DEF Rows
  <2> QED
    BY <1>1, <2>1, DirectionType
<1> HIDE DEF d
<1>3. /\ new.rows = [st.rows EXCEPT ![t.symbol] =
                       [price |-> t.price, direction |-> d, flashing |-> d /= "none"]]
      /\ new.timers = Cleared(st, t.symbol) \cup {own}
      /\ new.ref = [st.ref EXCEPT ![t.symbol] = t.id]
      /\ new = [rows |-> new.rows, timers |-> new.timers, ref |-> new.ref]
  BY DEF Ticked, d
<1> HIDE DEF new
<1>4. own \in Timers /\ Cleared(st, t.symbol) \subseteq st.timers
  BY <1>1 DEF Timers, Cleared
<1>5. new \in Panels
  <2>1. new.rows \in [Symbols -> Rows]
    BY <1>1, <1>2, <1>3 DEF Rows
  <2>2. new.timers \in SUBSET Timers
    BY <1>1, <1>3, <1>4
  <2>3. new.ref \in [Symbols -> 0..MaxTrades]
    BY <1>1, <1>3, WatchlistTicksAssumption
  <2> QED
    BY <1>3, <2>1, <2>2, <2>3 DEF Panels
<1>6. \A x \in Cleared(st, t.symbol) : x.symbol /= t.symbol
  <2> SUFFICES ASSUME NEW x \in Cleared(st, t.symbol), x.symbol = t.symbol
               PROVE  FALSE
    OBVIOUS
  <2>1. x \in st.timers /\ x \in Timers /\ x.id = st.ref[t.symbol]
    BY <1>1, <1>4 DEF Good, Tight
  <2>2. x = [symbol |-> t.symbol, id |-> st.ref[t.symbol]]
    BY <2>1 DEF Timers
  <2> QED
    BY <2>2 DEF Cleared
<1>7. Tight(new)
  <2> SUFFICES ASSUME NEW x \in new.timers PROVE x.id = new.ref[x.symbol]
    BY DEF Tight
  <2>1. CASE x = own
    BY <1>1, <1>3, <2>1
  <2>2. CASE x \in Cleared(st, t.symbol)
    BY <1>1, <1>3, <1>4, <1>6, <2>2 DEF Good, Tight, Timers
  <2> QED
    BY <1>3, <2>1, <2>2
<1>8. Lit(new, q, i)
  <2> SUFFICES ASSUME NEW s \in Symbols, new.rows[s].flashing,
                      ~\E x \in new.timers : x.symbol = s
               PROVE  \E j \in (i + 1)..Len(q) : Ends(q[j], s)
    BY DEF Lit
  <2>1. s /= t.symbol
    <3>1. own \in new.timers /\ own.symbol = t.symbol
      BY <1>3
    <3> QED
      BY <3>1
  <2>2. st.rows[s].flashing
    BY <1>1, <1>3, <2>1
  <2>3. ~\E x \in st.timers : x.symbol = s
    BY <1>3, <2>1 DEF Cleared
  <2>4. PICK j \in (i - 1 + 1)..Len(q) : Ends(q[j], s)
    BY <2>2, <2>3 DEF Good, Lit
  <2>5. j /= i /\ j \in (i + 1)..Len(q)
    BY <2>4
  <2> QED
    BY <2>4, <2>5
<1> QED
  BY <1>5, <1>7, <1>8 DEF Good, new

LEMMA PricedRow ==
  ASSUME NEW row \in Rows, NEW p \in Prices \cup {NoPrice}
  PROVE  Priced(row, p) \in Rows /\ Priced(row, p).flashing = row.flashing
<1>1. Direction(row.price, p) \in {"up", "down", "none"}
  <2>1. row.price \in Prices \cup {NoPrice}
    BY DEF Rows
  <2> QED
    BY <2>1, DirectionType
<1> QED
  BY <1>1 DEF Priced, Rows

LEMMA AppliedGood ==
  ASSUME NEW q \in Seq(Updates), NEW i \in 1..Len(q), NEW st, Good(st, q, i - 1)
  PROVE  Good(Applied(q[i], st), q, i)
<1>1. q[i] \in Updates /\ st.rows \in [Symbols -> Rows]
  BY DEF Good, Panels
<1>2. CASE q[i].kind = "tick"
  <2>1. q[i].what \in Trades /\ Applied(q[i], st) = Ticked(st, q[i].what)
    BY <1>1, <1>2 DEF Updates, Applied
  <2>2. ~\E s \in Symbols : Ends(q[i], s)
    BY <1>2 DEF Ends
  <2> QED
    BY <2>1, <2>2, TickGood
<1>3. CASE q[i].kind = "poll"
  <2> DEFINE rs == [s \in Symbols |-> Priced(st.rows[s], q[i].what[s])]
  <2>1. /\ q[i].what \in [Symbols -> Prices \cup {NoPrice}]
        /\ Applied(q[i], st) = [st EXCEPT !.rows = rs]
    BY <1>1, <1>3 DEF Updates, Applied, Hydrated
  <2>2. rs \in [Symbols -> Rows] /\ \A s \in Symbols : rs[s].flashing = st.rows[s].flashing
    BY <1>1, <2>1, PricedRow
  <2>3. \A s \in Symbols : ~Ends(q[i], s)
    BY <1>3 DEF Ends
  <2> HIDE DEF rs
  <2> QED
    BY <2>1, <2>2, <2>3, SameTimers
<1>4. CASE q[i].kind = "off"
  <2> DEFINE s == q[i].what
             rs == [st.rows EXCEPT ![s].flashing = FALSE]
  <2>1. s \in Symbols /\ Applied(q[i], st) = [st EXCEPT !.rows = rs]
    BY <1>1, <1>4 DEF Updates, Applied, Dimmed
  <2>2. /\ rs \in [Symbols -> Rows] /\ ~rs[s].flashing
        /\ \A x \in Symbols : x /= s => rs[x] = st.rows[x]
    BY <1>1, <2>1 DEF Rows
  <2>3. \A x \in Symbols : Ends(q[i], x) => x = s
    BY <1>4 DEF Ends
  <2> HIDE DEF rs, s
  <2> QED
    BY <2>1, <2>2, <2>3, SameTimers
<1>5. CASE q[i].kind = "reset"
  <2>1. Applied(q[i], st) = [st EXCEPT !.rows = Blank]
    BY <1>5 DEF Applied
  <2>2. Blank \in [Symbols -> Rows] /\ \A x \in Symbols : ~Blank[x].flashing
    BY DEF Blank, Rows
  <2> QED
    BY <2>1, <2>2, SameTimers
<1> QED
  BY <1>1, <1>2, <1>3, <1>4, <1>5 DEF Updates

\* So does the whole render, whatever the length of the queue.
LEMMA RenderedGood ==
  ASSUME NEW q \in Seq(Updates), NEW start, Good(start, q, 0)
  PROVE  Good(Rendered(q, start), q, Len(q))
<1>1. PICK f : /\ f[0] = start
               /\ \A i \in 1..Len(q) : f[i] = Applied(q[i], f[i - 1])
               /\ Rendered(q, start) = f[Len(q)]
  BY RenderedIs
<1>2. Len(q) \in Nat
  OBVIOUS
<1> DEFINE T == {i \in 0..Len(q) : ~Good(f[i], q, i)}
<1> SUFFICES ASSUME T /= {} PROVE FALSE
  BY <1>1, <1>2
<1>3. PICK m \in T : \A k \in T : m <= k
  <2>1. T \in SUBSET Nat
    BY <1>2
  <2> HIDE DEF T
  <2> QED
    BY <2>1, NatSetMin
<1>4. m \in 1..Len(q) /\ m - 1 \in 0..Len(q)
  BY <1>1, <1>2, <1>3
<1>5. Good(f[m - 1], q, m - 1)
  BY <1>3, <1>4
<1>6. Good(f[m], q, m)
  BY <1>1, <1>4, <1>5, AppliedGood
<1> QED
  BY <1>3, <1>6

-----------------------------------------------------------------------------
\* What is queued follows all that is.  An update of an older effect has the reset
\* of a newer one behind it.
LEMMA QueuedKeeps ==
  ASSUME queue \in Seq(Updates), NEW u \in Updates, Queued(u)
  PROVE  /\ queue' \in Seq(Updates) /\ Len(queue') = Len(queue) + 1
         /\ \A i \in 1..Len(queue) : queue'[i] = queue[i]
         /\ queue'[Len(queue) + 1] = u
BY AppendProperties DEF Queued

LEMMA QueuedLit ==
  ASSUME queue \in Seq(Updates), NEW u \in Updates, Queued(u),
         NEW st, Lit(st, queue, 0)
  PROVE  Lit(st, queue', 0)
<1> SUFFICES ASSUME NEW s \in Symbols, st.rows[s].flashing,
                    ~\E t \in st.timers : t.symbol = s
             PROVE  \E j \in (0 + 1)..Len(queue') : Ends(queue'[j], s)
  BY DEF Lit
<1>1. PICK j \in (0 + 1)..Len(queue) : Ends(queue[j], s)
  BY DEF Lit
<1>2. j \in 1..Len(queue) /\ Len(queue) \in Nat
  BY <1>1
<1>3. queue'[j] = queue[j] /\ j \in (0 + 1)..Len(queue')
  BY <1>2, QueuedKeeps
<1> QED
  BY <1>1, <1>3

\* What the active effect asks for may be queued, and so may a reset: then the
\* effect before is no longer current, but all that it asked for is before it.
LEMMA QueuedCurrent ==
  ASSUME queue \in Seq(Updates), RowsOfCurrent, active \in Effects,
         NEW u \in Updates, Queued(u), active' \in Nat,
         \/ u.kind = "reset"
         \/ active' = active /\ (u.kind = "off" \/ u.effect >= active)
  PROVE  RowsOfCurrent'
<1> DEFINE n == Len(queue)
<1>1. /\ n \in Nat /\ DOMAIN queue = 1..n /\ DOMAIN queue' = 1..(n + 1)
      /\ \A i \in 1..n : queue'[i] = queue[i]
      /\ queue'[n + 1] = u
  BY QueuedKeeps
<1> HIDE DEF n
<1> SUFFICES ASSUME NEW i \in 1..(n + 1), queue'[i].kind \in {"tick", "poll"},
                    queue'[i].effect < active'
             PROVE  \E j \in 1..(n + 1) : j > i /\ queue'[j].kind = "reset"
  BY <1>1 DEF RowsOfCurrent
<1>2. u.effect \in Nat
  BY DEF Updates, Effects
<1>3. i \in 1..n
  BY <1>1, <1>2
<1>4. CASE u.kind = "reset"
  <2>1. n + 1 \in 1..(n + 1) /\ n + 1 > i
    BY <1>1, <1>3
  <2> QED
    BY <1>1, <1>4, <2>1
<1>5. CASE active' = active
  <2>1. PICK j \in 1..n : j > i /\ queue[j].kind = "reset"
    BY <1>1, <1>3, <1>5 DEF RowsOfCurrent
  <2> QED
    BY <1>1, <2>1
<1> QED
  BY <1>4, <1>5

LEMMA InitPanel == Init => PanelInv
<1> SUFFICES ASSUME Init PROVE PanelInv
  OBVIOUS
<1> USE WatchlistTicksAssumption
<1>1. Panel = [rows |-> Blank, timers |-> {}, ref |-> [s \in Symbols |-> 0]]
  BY DEF Init, Panel
<1>2. Panel \in Panels
  <2>1. Blank \in [Symbols -> Rows]
    BY DEF Blank, Rows
  <2> QED
    BY <1>1, <2>1 DEF Panels
<1>3. Tight(Panel) /\ Lit(Panel, queue, 0)
  BY <1>1 DEF Tight, Lit, Blank
<1>4. RowsOfCurrent
  BY DEF Init, RowsOfCurrent
<1>5. /\ active \in Effects /\ queue \in Seq(Updates) /\ bus \in Seq(Trades)
      /\ polls \in [Effects -> Nat] /\ trades \in 0..MaxTrades
      /\ socket \in {"connecting", "open", "dead"}
  BY DEF Init, Effects
<1> QED
  BY <1>2, <1>3, <1>4, <1>5 DEF PanelInv

LEMMA RenderKeeps == PanelInv /\ Render => PanelInv'
<1> SUFFICES ASSUME PanelInv, Render PROVE PanelInv'
  OBVIOUS
<1>1. Good(Panel, queue, 0) /\ queue \in Seq(Updates)
  BY DEF PanelInv, Good
<1>2. Good(Rendered(queue, Panel), queue, Len(queue))
  BY <1>1, RenderedGood
<1>3. /\ queue' = <<>> /\ UNCHANGED <<active, polls, socket, bus, trades>>
      /\ Panel' = [rows |-> Rendered(queue, Panel).rows,
                   timers |-> Rendered(queue, Panel).timers,
                   ref |-> Rendered(queue, Panel).ref]
  BY DEF Render, Panel, limits
<1>4. Panel' = Rendered(queue, Panel)
  <2> DEFINE st == Rendered(queue, Panel)
  <2>1. st \in Panels
    BY <1>2 DEF Good
  <2> HIDE DEF st
  <2>2. st = [rows |-> st.rows, timers |-> st.timers, ref |-> st.ref]
    BY <2>1 DEF Panels
  <2> QED
    BY <1>3, <2>2 DEF st
<1>5. Panel' \in Panels /\ Tight(Panel')
  BY <1>2, <1>4 DEF Good
<1>6. Lit(Panel', queue', 0)
  <2>1. \A j \in (Len(queue) + 1)..Len(queue) : FALSE
    BY <1>1
  <2> QED
    BY <1>2, <1>4, <2>1 DEF Good, Lit
<1>7. queue' \in Seq(Updates) /\ RowsOfCurrent'
  BY <1>3 DEF RowsOfCurrent
<1> QED
  BY <1>3, <1>5, <1>6, <1>7 DEF PanelInv, Tight, Lit

\* The cleanup of an effect stops all timers, because each is known to timersRef;
\* what flashes is ended by the reset of the next.
LEMMA ChooseKeeps == PanelInv /\ ChooseInterval => PanelInv'
<1> SUFFICES ASSUME PanelInv, ChooseInterval PROVE PanelInv'
  OBVIOUS
<1> USE WatchlistTicksAssumption
<1> DEFINE u == Update("reset", active + 1, {})
<1>1. /\ active' = active + 1 /\ active' \in Effects /\ active \in Effects
      /\ Queued(u) /\ rows' = rows
      /\ timers' = {t \in timers : t.id /= ref[t.symbol]}
      /\ ref' = [s \in Symbols |-> 0]
      /\ UNCHANGED <<bus, trades>>
  BY DEF ChooseInterval, Reset, PanelInv, Effects, limits
<1>2. u \in Updates /\ u.kind = "reset"
  BY <1>1 DEF Update, Updates, Effects
<1>3. queue \in Seq(Updates)
  BY DEF PanelInv
<1> HIDE DEF u
<1>4. /\ queue' \in Seq(Updates) /\ Len(queue') = Len(queue) + 1
      /\ queue'[Len(queue) + 1] = u
  BY <1>1, <1>2, <1>3, QueuedKeeps
<1>5. Panel' \in Panels /\ Tight(Panel')
  <2>1. rows \in [Symbols -> Rows] /\ timers \subseteq Timers
    BY DEF PanelInv, Panels, Panel
  <2>2. timers' = {}
    BY <1>1 DEF PanelInv, Tight, Panel
  <2>3. Panel' = [rows |-> rows, timers |-> {}, ref |-> [s \in Symbols |-> 0]]
    BY <1>1, <2>2 DEF Panel
  <2>4. Panel' \in Panels
    BY <2>1, <2>3 DEF Panels
  <2> QED
    BY <2>3, <2>4 DEF Tight
<1>6. Lit(Panel', queue', 0)
  <2>1. Len(queue) + 1 \in (0 + 1)..Len(queue')
    BY <1>3, <1>4
  <2>2. \A s \in Symbols : Ends(queue'[Len(queue) + 1], s)
    BY <1>2, <1>4 DEF Ends
  <2> QED
    BY <2>1, <2>2 DEF Lit
<1>7. RowsOfCurrent'
  <2>1. active' \in Nat
    BY <1>1 DEF Effects
  <2> QED
    BY <1>1, <1>2, <1>3, <2>1, QueuedCurrent DEF PanelInv
<1>8. /\ polls' \in [Effects -> Nat] /\ socket' \in {"connecting", "open", "dead"}
      /\ bus' \in Seq(Trades) /\ trades' \in 0..MaxTrades
  BY <1>1 DEF ChooseInterval, PanelInv
<1> QED
  BY <1>1, <1>4, <1>5, <1>6, <1>7, <1>8 DEF PanelInv, Tight, Lit

\* Two callbacks that queue an update of the active effect, a third that queues
\* the end of the flash whose timer fired.
LEMMA QueuedInv ==
  ASSUME PanelInv, NEW u \in Updates, Queued(u), UNCHANGED active,
         u.kind = "off" \/ u.effect >= active,
         NEW st, Lit(st, queue, 0), Panel' = st
  PROVE  queue' \in Seq(Updates) /\ Lit(Panel', queue', 0) /\ RowsOfCurrent'
<1>1. queue \in Seq(Updates) /\ active' \in Nat
  BY DEF PanelInv, Effects
<1> QED
  BY <1>1, QueuedKeeps, QueuedLit, QueuedCurrent DEF PanelInv

LEMMA PollAnswersKeeps ==
  ASSUME PanelInv, NEW e \in Effects, PollAnswers(e)
  PROVE  PanelInv'
<1>1. PICK snapshot \in [Symbols -> Prices \cup {NoPrice}] :
        IF Disposed(e) THEN UNCHANGED queue
                       ELSE Queued(Update("poll", e, snapshot))
  BY DEF PollAnswers
<1>2. /\ UNCHANGED <<active, rows, timers, ref, socket, bus, trades>>
      /\ polls' = [polls EXCEPT ![e] = @ - 1] /\ polls[e] > 0
  BY DEF PollAnswers, panel, limits
<1>3. Panel' = Panel
  BY <1>2 DEF Panel
<1>4. polls' \in [Effects -> Nat]
  BY <1>2 DEF PanelInv
<1>5. queue' \in Seq(Updates) /\ Lit(Panel', queue', 0) /\ RowsOfCurrent'
  <2>1. CASE Disposed(e)
    BY <1>1, <1>2, <1>3, <2>1 DEF PanelInv, RowsOfCurrent
  <2>2. CASE ~Disposed(e)
    <3> DEFINE u == Update("poll", e, snapshot)
    <3>1. u \in Updates
      BY DEF Update, Updates
    <3>2. u.effect >= active /\ Queued(u)
      BY <1>1, <2>2 DEF Disposed, Update, PanelInv, Effects
    <3> HIDE DEF u
    <3> QED
      BY <1>2, <1>3, <3>1, <3>2, QueuedInv DEF PanelInv
  <2> QED
    BY <2>1, <2>2
<1> QED
  BY <1>2, <1>3, <1>4, <1>5 DEF PanelInv, Tight, Lit

LEMMA DeliverKeeps == PanelInv /\ Deliver => PanelInv'
<1> SUFFICES ASSUME PanelInv, Deliver PROVE PanelInv'
  OBVIOUS
<1>1. UNCHANGED <<active, rows, timers, ref, polls, socket, trades>>
  BY DEF Deliver, panel, limits
<1>2. Panel' = Panel
  BY <1>1 DEF Panel
<1>3. Head(bus) \in Trades /\ bus' \in Seq(Trades)
  BY HeadTailProperties DEF Deliver, PanelInv
<1>4. queue' \in Seq(Updates) /\ Lit(Panel', queue', 0) /\ RowsOfCurrent'
  <2>1. CASE UNCHANGED queue
    BY <1>1, <1>2, <2>1 DEF PanelInv, RowsOfCurrent
  <2>2. CASE Queued(Update("tick", active, Head(bus)))
    <3> DEFINE u == Update("tick", active, Head(bus))
    <3>1. u \in Updates
      BY <1>3 DEF Update, Updates, PanelInv
    <3>2. u.effect >= active
      BY DEF Update, PanelInv, Effects
    <3> HIDE DEF u
    <3>3. Queued(u)
      BY <2>2 DEF u
    <3> QED
      BY <1>1, <1>2, <3>1, <3>2, <3>3, QueuedInv DEF PanelInv
  <2> QED
    BY <2>1, <2>2 DEF Deliver
<1> QED
  BY <1>1, <1>2, <1>3, <1>4 DEF PanelInv, Tight, Lit

\* The timer is gone, but its update stands at the end of the queue.
LEMMA FlashOverKeeps ==
  ASSUME PanelInv, NEW t \in timers, FlashOver(t)
  PROVE  PanelInv'
<1> DEFINE u == Update("off", active, t.symbol)
<1>1. /\ UNCHANGED <<active, rows, ref, polls, socket, bus, trades>>
      /\ timers' = timers \ {t} /\ Queued(u)
  BY DEF FlashOver, limits
<1>2. /\ rows \in [Symbols -> Rows] /\ timers \subseteq Timers
      /\ ref \in [Symbols -> 0..MaxTrades]
      /\ queue \in Seq(Updates) /\ active' \in Nat
  BY <1>1 DEF PanelInv, Panels, Panel, Effects
<1>3. t.symbol \in Symbols /\ u \in Updates /\ u.kind = "off" /\ u.what = t.symbol
  BY <1>2 DEF Timers, Update, Updates, PanelInv
<1> HIDE DEF u
<1>4. /\ queue' \in Seq(Updates) /\ Len(queue') = Len(queue) + 1
      /\ \A i \in 1..Len(queue) : queue'[i] = queue[i]
      /\ queue'[Len(queue) + 1] = u
  BY <1>1, <1>2, <1>3, QueuedKeeps
<1>5. Panel' = [rows |-> rows, timers |-> timers \ {t}, ref |-> ref]
  BY <1>1 DEF Panel
<1>6. Panel' \in Panels
  BY <1>2, <1>5 DEF Panels
<1>7. Tight(Panel')
  BY <1>5 DEF PanelInv, Tight, Panel
<1>8. Lit(Panel', queue', 0)
  <2> SUFFICES ASSUME NEW s \in Symbols, rows[s].flashing,
                      ~\E x \in timers \ {t} : x.symbol = s
               PROVE  \E j \in (0 + 1)..Len(queue') : Ends(queue'[j], s)
    BY <1>5 DEF Lit
  <2>0. Len(queue) \in Nat
    BY <1>2
  <2>1. CASE s = t.symbol
    <3>1. Ends(queue'[Len(queue) + 1], s)
      BY <1>3, <1>4, <2>1 DEF Ends
    <3>2. Len(queue) + 1 \in (0 + 1)..Len(queue')
      BY <1>4, <2>0
    <3> QED
      BY <3>1, <3>2
  <2>2. CASE s /= t.symbol
    <3>1. PICK j \in (0 + 1)..Len(queue) : Ends(queue[j], s)
      BY <2>2 DEF PanelInv, Lit, Panel
    <3>2. j \in (0 + 1)..Len(queue') /\ queue'[j] = queue[j]
      BY <1>4, <2>0, <3>1
    <3> QED
      BY <3>1, <3>2
  <2> QED
    BY <2>1, <2>2
<1>9. RowsOfCurrent'
  BY <1>1, <1>2, <1>3, QueuedCurrent DEF PanelInv
<1> QED
  BY <1>1, <1>4, <1>6, <1>7, <1>8, <1>9 DEF PanelInv, Tight, Lit

\* Nothing of the panel is touched.
LEMMA AroundKeeps ==
  ASSUME PanelInv,
         \/ Poll \/ SocketOpens \/ SocketDrops \/ UNCHANGED vars
         \/ \E s \in Symbols, p \in Prices : Trade(s, p)
  PROVE  PanelInv'
<1> USE WatchlistTicksAssumption
<1>1. UNCHANGED <<active, rows, timers, ref, queue>>
  BY DEF Poll, SocketOpens, SocketDrops, Trade, vars, panel
<1>2. Panel' = Panel
  BY <1>1 DEF Panel
<1>3. polls' \in [Effects -> Nat] /\ socket' \in {"connecting", "open", "dead"}
  <2>1. polls' = [polls EXCEPT ![active] = @ + 1] \/ polls' = polls
    BY DEF Poll, SocketOpens, SocketDrops, Trade, vars
  <2>2. socket' \in {socket, "open", "dead"}
    BY DEF Poll, SocketOpens, SocketDrops, Trade, vars
  <2> QED
    BY <2>1, <2>2 DEF PanelInv
<1>4. bus' \in Seq(Trades) /\ trades' \in 0..MaxTrades
  <2>1. CASE \E s \in Symbols, p \in Prices : Trade(s, p)
    <3>1. PICK s \in Symbols, p \in Prices : Trade(s, p)
      BY <2>1
    <3>2. trades' = trades + 1 /\ trades' \in 1..MaxTrades
      BY <3>1 DEF Trade, PanelInv
    <3>3. [symbol |-> s, price |-> p, id |-> trades'] \in Trades
      BY <3>2 DEF Trades
    <3> QED
      BY <3>1, <3>2, <3>3, AppendProperties DEF Trade, PanelInv
  <2>2. CASE UNCHANGED <<bus, trades>>
    BY <2>2 DEF PanelInv
  <2> QED
    BY <2>1, <2>2 DEF Poll, SocketOpens, SocketDrops, vars, limits
<1>5. RowsOfCurrent'
  BY <1>1 DEF PanelInv, RowsOfCurrent
<1> QED
  BY <1>1, <1>2, <1>3, <1>4, <1>5 DEF PanelInv, Tight, Lit

LEMMA PanelStep == PanelInv /\ [Next]_vars => PanelInv'
BY RenderKeeps, ChooseKeeps, PollAnswersKeeps, DeliverKeeps, FlashOverKeeps,
   AroundKeeps DEF Next, Effects

LEMMA PanelTypes == PanelInv => TypeOK
<1> SUFFICES ASSUME PanelInv PROVE TypeOK
  OBVIOUS
<1>1. /\ rows \in [Symbols -> Rows] /\ timers \subseteq Timers
      /\ ref \in [Symbols -> 0..MaxTrades]
  BY DEF PanelInv, Panels, Panel
<1>2. ASSUME NEW s \in Symbols
      PROVE  Cardinality({t \in timers : t.symbol = s}) <= 1
  <2> DEFINE own == [symbol |-> s, id |-> ref[s]]
  <2>1. {t \in timers : t.symbol = s} \subseteq {own}
    BY <1>1 DEF PanelInv, Tight, Panel, Timers
  <2>2. IsFiniteSet({own}) /\ Cardinality({own}) = 1
    BY FS_Singleton
  <2> HIDE DEF own
  <2> QED
    BY <2>1, <2>2, FS_Subset
<1>3. \A i \in DOMAIN queue : queue[i].kind \in {"tick", "poll", "off", "reset"}
  <2>1. \A i \in DOMAIN queue : queue[i] \in Updates
    BY DEF PanelInv
  <2> QED
    BY <2>1 DEF Updates
<1> QED
  BY <1>1, <1>2, <1>3 DEF PanelInv, TypeOK, Rows, Timers, Effects

LEMMA PanelTended == PanelInv => FlashTended
<1> SUFFICES ASSUME PanelInv, NEW s \in Symbols, rows[s].flashing,
                    ~\E t \in timers : t.symbol = s
             PROVE  \E i \in DOMAIN queue : Ends(queue[i], s)
  BY DEF FlashTended
<1>1. PICK j \in (0 + 1)..Len(queue) : Ends(queue[j], s)
  BY DEF PanelInv, Lit, Panel
<1>2. j \in DOMAIN queue
  BY DEF PanelInv
<1> QED
  BY <1>1, <1>2

-----------------------------------------------------------------------------
\* Every variable keeps its type and a row never has two timers, however many
\* trades a render takes in and whichever effect they belonged to.
THEOREM WatchlistTyped == Spec => []TypeOK
BY InitPanel, PanelStep, PanelTypes, PTL DEF Spec

\* No answer and no trade that an older choice asked for changes the rows that
\* the newer one has set (disposed and the cleanup of useWatchlistTicks).
THEOREM OldChoicesSilent == Spec => []RowsOfCurrent
<1>1. PanelInv => RowsOfCurrent
  BY DEF PanelInv
<1> QED
  BY <1>1, InitPanel, PanelStep, PTL DEF Spec

\* A row that flashes always has a timer that runs, or its end is in the queue
\* (timersRef, setTimeout and the cleanup of useWatchlistTicks).
THEOREM FlashesTended == Spec => []FlashTended
BY InitPanel, PanelStep, PanelTended, PTL DEF Spec
=============================================================================
