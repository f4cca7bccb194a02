------------------------ MODULE MarketHistoryProofs ------------------------
(***************************************************************************)
(* Theorems about MarketHistory for any exchange, calendar and provider,   *)
(* and a process that dies at any step: the universe of a past day, and    *)
(* the stored history.                                                     *)
(***************************************************************************)
EXTENDS MarketHistory, CollectionLemmas

-----------------------------------------------------------------------------
(* The exchange                                                            *)

(* A record says of one security whose it is, by its id and by its ISIN.   *)
Own(r) == r.isin[1] = r.id[1] /\ r.id[1] \in Securities

ExchangeInv ==
  /\ today \in Days
  /\ DOMAIN master = Days /\ \A d \in Days : \A r \in master[d] : Own(r)
  /\ DOMAIN listing = Securities /\ \A s \in Securities : listing[s] # None => Own(listing[s])
  /\ \A r \in retained : Own(r)

(* A listing whose records say whose they are, and one record more.        *)
OwnListing(l) == DOMAIN l = Securities /\ \A s \in Securities : l[s] # None => Own(l[s])

LEMMA OwnListed ==
  ASSUME NEW l, OwnListing(l), NEW s \in Securities, NEW id, NEW symbol, NEW isin
  PROVE  OwnListing([l EXCEPT ![s] = Rec(s, id, symbol, isin)])
<1> DEFINE new == Rec(s, id, symbol, isin)
<1>1. Own(new)
  BY DEF Own, Rec
<1> HIDE DEF new
<1>2. \A t \in DOMAIN l : [l EXCEPT ![s] = new][t] = IF t = s THEN new ELSE l[t]
  OBVIOUS
<1>3. DOMAIN [l EXCEPT ![s] = new] = Securities
  BY DEF OwnListing
<1>4. \A t \in Securities : [l EXCEPT ![s] = new][t] # None => Own([l EXCEPT ![s] = new][t])
  BY <1>1, <1>2 DEF OwnListing
<1> QED
  BY <1>3, <1>4 DEF OwnListing, new

(* Whatever the exchange does, a day passes, and nothing of the builder's  *)
(* changes.                                                                *)
LEMMA ExchangeDay ==
  ASSUME Exchange
  PROVE  \E l, kept, announced :
           /\ NextDay(l, kept, announced)
           /\ ExchangeInv => OwnListing(l) /\ \A r \in kept : Own(r)
<1> DEFINE Goal == \E l, kept, announced :
              /\ NextDay(l, kept, announced)
              /\ ExchangeInv => OwnListing(l) /\ \A r \in kept : Own(r)
<1>1. ExchangeInv => OwnListing(listing) /\ \A r \in retained : Own(r)
  BY DEF ExchangeInv, OwnListing
<1>2. ASSUME NEW s \in Securities, NEW id, NEW symbol, NEW isin
      PROVE  ExchangeInv => OwnListing([listing EXCEPT ![s] = Rec(s, id, symbol, isin)])
  BY <1>1, OwnListed
<1>3. CASE QuietDay
  BY <1>1, <1>3 DEF QuietDay
<1>4. ASSUME NEW s \in Securities, NEW symbol \in Symbols, List(s, symbol) PROVE Goal
  <2>1. NextDay([listing EXCEPT ![s] = Rec(s, 1, symbol, 1)], retained, changes)
    BY <1>4 DEF List
  <2>2. ExchangeInv => OwnListing([listing EXCEPT ![s] = Rec(s, 1, symbol, 1)])
    BY <1>2
  <2> QED
    BY <1>1, <2>1, <2>2
<1>5. ASSUME NEW s \in Securities, NEW symbol \in Symbols,
             NEW keeps \in BOOLEAN, NEW deleted \in BOOLEAN, NEW isin \in 1..2,
             Rename(s, symbol, keeps, deleted, isin)
      PROVE  Goal
  <2> DEFINE old  == listing[s]
             id   == old.id[2] + (IF keeps THEN 0 ELSE 1)
             gone == [deleted |-> deleted, id |-> old.id, symbol |-> old.symbol, isin |-> old.isin]
             kept == IF keeps THEN retained ELSE retained \cup {gone}
  <2>1. NextDay([listing EXCEPT ![s] = Rec(s, id, symbol, isin)], kept,
                changes \cup {[old |-> old.symbol, new |-> symbol, day |-> today + 1]})
    BY <1>5, Zenon DEF Rename
  <2>2. ExchangeInv => OwnListing([listing EXCEPT ![s] = Rec(s, id, symbol, isin)])
    <3> HIDE DEF id
    <3> QED
      BY <1>2
  <2>3. ExchangeInv => Own(gone)
    <3>1. listing[s] # None
      BY <1>5 DEF Rename
    <3> QED
      BY <1>1, <3>1 DEF Own, OwnListing
  <2>4. ExchangeInv => \A r \in kept : Own(r)
    <3> HIDE DEF gone
    <3> QED
      BY <1>1, <2>3
  <2> HIDE DEF kept, id
  <2> QED
    BY <2>1, <2>2, <2>4
<1> QED
  BY <1>3, <1>4, <1>5 DEF Exchange

(* What is published of such records, and what a day more makes of all.    *)
LEMMA PublishedOwn ==
  ASSUME NEW d, NEW l, NEW kept, OwnListing(l), \A r \in kept : Own(r)
  PROVE  \A r \in Published(d, l, kept) : Own(r)
<1>1. \A r \in LiveRecords(l) : Own(r)
  BY DEF LiveRecords, OwnListing
<1> HIDE DEF OwnListing
<1> QED
  BY <1>1 DEF Published, Own

LEMMA ExchangeKeeps ==
  ASSUME ExchangeInv, NEW l, NEW kept, NEW announced, NextDay(l, kept, announced),
         OwnListing(l), \A r \in kept : Own(r)
  PROVE  ExchangeInv'
<1>1. today' \in Days /\ today' = today + 1
  BY HistoryAssumption DEF ExchangeInv, Days, NextDay
<1>2. \A r \in Published(today', l, kept) : Own(r)
  BY PublishedOwn
<1>3. DOMAIN master' = Days /\ \A d \in Days : master'[d] = master[d] \/ master'[d] = Published(today', l, kept)
  BY DEF ExchangeInv, NextDay
<1>4. \A d \in Days : \A r \in master'[d] : Own(r)
  <2>1. \A d \in Days : \A r \in master[d] : Own(r)
    BY DEF ExchangeInv
  <2> QED
    BY <1>2, <1>3, <2>1
<1>5. listing' = l /\ retained' = kept
  BY DEF NextDay
<1> QED
  BY <1>1, <1>3, <1>4, <1>5 DEF ExchangeInv, OwnListing, Own

LEMMA InitExchange == Init => ExchangeInv
<1> SUFFICES ASSUME Init PROVE ExchangeInv
  OBVIOUS
<1>1. today = 1 /\ today \in Days
  BY HistoryAssumption DEF Init, Days
<1>2. OwnListing(listing)
  <2>1. \A s \in Securities : listing[s] # None =>
           \E t \in Securities, x \in Symbols : listing[s] = Rec(t, 1, x, 1) /\ t = s
    BY DEF Init, Rec
  <2>2. DOMAIN listing = Securities
    BY DEF Init
  <2>3. ASSUME NEW s \in Securities, listing[s] # None PROVE Own(listing[s])
    <3>1. PICK x \in Symbols : listing[s] = Rec(s, 1, x, 1)
      BY <2>1, <2>3
    <3>2. Own(Rec(s, 1, x, 1))
      BY DEF Rec, Own
    <3> QED
      BY <3>1, <3>2
  <2> QED
    BY <2>2, <2>3 DEF OwnListing
<1>3. retained = {} /\ master = [d \in Days |-> IF d = 1 THEN Published(1, listing, {}) ELSE {}]
  BY DEF Init
<1>4. \A r \in Published(1, listing, {}) : Own(r)
  BY <1>2, PublishedOwn
<1> QED
  BY <1>1, <1>2, <1>3, <1>4 DEF ExchangeInv, OwnListing

-----------------------------------------------------------------------------
(* The universe of a past day                                              *)

(* The days an instrument traded in, of the sessions measured, and its row *)
(* of one of them.                                                         *)
TradedBy(id, asOf) == {d \in SessionsBefore(asOf) : \E x \in master[d] : x.live /\ x.id = id}
AllRows(asOf)      == UNION {Rows(d) : d \in SessionsBefore(asOf)}
RowOf(id, d)       == [day |-> d, id |-> id, value |-> Turnover[id[1]][d]]

(* The sessions measured are among the finitely many earlier ones.         *)
LEMMA SessionDays ==
  ASSUME NEW asOf \in Days
  PROVE  /\ SessionsBefore(asOf) \subseteq {d \in Sessions : d < asOf}
         /\ {d \in Sessions : d < asOf} \subseteq {d \in Days : d < asOf}
         /\ IsFiniteSet({d \in Sessions : d < asOf})
         /\ \A d \in SessionsBefore(asOf) :
              Cardinality({x \in {y \in Sessions : y < asOf} : x > d}) < Lookback
<1>1. asOf \in Nat /\ LastDay \in Nat /\ asOf <= LastDay /\ Sessions \subseteq Nat \ {0}
  BY HistoryAssumption, LiquidityAssumption DEF Days
<1>2. {d \in Sessions : d < asOf} \subseteq {d \in Days : d < asOf}
  <2>1. ASSUME NEW d \in Sessions, d < asOf PROVE d \in Days
    <3>1. d \in Nat /\ d # 0
      BY <1>1
    <3> QED
      BY <1>1, <2>1, <3>1 DEF Days
  <2> QED
    BY <2>1
<1>3. IsFiniteSet(Days)
  BY <1>1, FS_Interval DEF Days
<1>4. IsFiniteSet({d \in Sessions : d < asOf})
  BY <1>2, <1>3, FS_Subset
<1> QED
  BY <1>2, <1>4 DEF SessionsBefore

(* The rows of a day by the ids of its live records.                       *)
LEMMA RowsAre ==
  ASSUME ExchangeInv, NEW d \in Days
  PROVE  Rows(d) = {RowOf(r.id, d) : r \in {x \in master[d] : x.live}}
<1>1. \A r \in master[d] : Turnover[r.isin[1]][d] = Turnover[r.id[1]][d]
  BY DEF ExchangeInv, Own
<1> QED
  BY <1>1 DEF Rows, RowOf

(* What is measured of an instrument is all of its rows, one of each day   *)
(* it traded in.                                                           *)
LEMMA Measured ==
  ASSUME ExchangeInv, NEW asOf \in Days, NEW id
  PROVE  Measurement(id, asOf, AllRows(asOf)) = {RowOf(id, d) : d \in TradedBy(id, asOf)}
<1> DEFINE eligible == {r \in AllRows(asOf) : r.id = id /\ r.day < asOf}
           earlier  == {d \in Sessions : d < asOf}
<1>1. /\ SessionsBefore(asOf) \subseteq Days /\ \A d \in SessionsBefore(asOf) : d \in earlier /\ d < asOf
      /\ IsFiniteSet(earlier) /\ earlier \subseteq Nat
      /\ \A d \in SessionsBefore(asOf) : Cardinality({x \in earlier : x > d}) < Lookback
  BY SessionDays, LiquidityAssumption
<1>2. eligible = {RowOf(id, d) : d \in TradedBy(id, asOf)}
  <2>1. ASSUME NEW r \in eligible PROVE \E d \in TradedBy(id, asOf) : r = RowOf(id, d)
    <3>1. PICK d \in SessionsBefore(asOf) : r \in Rows(d)
      BY <2>1 DEF AllRows
    <3>2. PICK x \in master[d] : x.live /\ r = RowOf(x.id, d)
      BY <1>1, <3>1, RowsAre
    <3>3. x.id = id
      BY <2>1, <3>2 DEF RowOf
    <3> QED
      BY <3>1, <3>2, <3>3 DEF TradedBy
  <2>2. ASSUME NEW d \in TradedBy(id, asOf) PROVE RowOf(id, d) \in eligible
    <3>1. d \in SessionsBefore(asOf) /\ d \in Days /\ d < asOf
      BY <1>1 DEF TradedBy
    <3>2. RowOf(id, d) \in Rows(d)
      BY <3>1, RowsAre DEF TradedBy
    <3>3. RowOf(id, d) \in AllRows(asOf)
      BY <3>1, <3>2 DEF AllRows
    <3> QED
      BY <3>1, <3>3 DEF RowOf
  <2> QED
    BY <2>1, <2>2
<1> HIDE DEF eligible, earlier
<1>3. \A r \in eligible : r = RowOf(id, r.day) /\ r.day \in SessionsBefore(asOf)
  BY <1>2 DEF RowOf, TradedBy
<1>4. ASSUME NEW r \in eligible
      PROVE  Cardinality({x \in eligible : x.day > r.day}) < Lookback
  <2> DEFINE A == {x \in eligible : x.day > r.day}
             B == {x \in earlier : x > r.day}
             f == [x \in A |-> x.day]
  <2>1. IsFiniteSet(B)
    BY <1>1, FS_Subset
  <2>2. f \in [A -> B]
    BY <1>1, <1>3
  <2>3. \A x, y \in A : f[x] = f[y] => x = y
    BY <1>3
  <2> HIDE DEF A, B, f
  <2>4. f \in Injection(A, B)
    BY <2>2, <2>3 DEF Injection, IsInjective
  <2>5. Cardinality(A) <= Cardinality(B) /\ IsFiniteSet(A)
    BY <2>1, <2>4, FS_Injection
  <2>6. Cardinality(B) < Lookback
    BY <1>1, <1>3 DEF B
  <2>7. Cardinality(A) \in Nat /\ Cardinality(B) \in Nat /\ Lookback \in Nat
    BY <2>1, <2>5, FS_CardinalityType, LiquidityAssumption
  <2>8. Cardinality(A) < Lookback
    BY <2>5, <2>6, <2>7
  <2> QED
    BY <2>8 DEF A
<1>5. Measurement(id, asOf, AllRows(asOf)) = {r \in eligible : Cardinality({x \in eligible : x.day > r.day}) < Lookback}
  BY DEF Measurement, eligible
<1> QED
  BY <1>2, <1>4, <1>5

(* The days of the definition are those measured.                          *)
LEMMA TradedIs ==
  ASSUME NEW asOf \in Days, NEW r
  PROVE  Traded(r, asOf) = TradedBy(r.id, asOf)
<1> DEFINE earlier == {d \in Sessions : d < asOf}
<1>1. ASSUME NEW d \in Sessions
      PROVE  {x \in Sessions : d < x /\ x < asOf} = {x \in earlier : x > d}
  <2>1. asOf \in Nat /\ Sessions \subseteq Nat
    BY LiquidityAssumption, HistoryAssumption DEF Days
  <2> QED
    BY <2>1
<1> QED
  BY <1>1 DEF Traded, TradedBy, SessionsBefore

(* A security traded enough on the days it traded.                         *)
Enough(s, days) ==
  /\ Cardinality(days) >= MinCompleted
  /\ MapThenSumSet(LAMBDA d : Turnover[s][d], days) >= MinAverage * Cardinality(days)

(* An instrument is liquid by its rows when it is by what it traded.       *)
LEMMA LiquidIs ==
  ASSUME NEW id, id[1] \in Securities, NEW T \in SUBSET Days
  PROVE  IsLiquid({RowOf(id, d) : d \in T}) <=> Enough(id[1], T)
<1> DEFINE g == Turnover[id[1]]
           M == {RowOf(id, d) : d \in T}
           f == [d \in T |-> g[d]]
           h == [r \in M |-> r.value]
           b == [d \in T |-> RowOf(id, d)]
<1>1. g \in [Days -> Int] /\ IsFiniteSet(Days) /\ IsFiniteSet(T)
  <2>1. g \in [Days -> Int]
    BY HistoryAssumption
  <2>2. IsFiniteSet(Days)
    BY HistoryAssumption, FS_Interval DEF Days
  <2> QED
    BY <2>1, <2>2, FS_Subset
<1>2. f \in [T -> Int]
  BY <1>1
<1>3. \A d \in T : RowOf(id, d).day = d /\ RowOf(id, d).value = f[d]
  BY DEF RowOf
<1>4. /\ h \in [M -> Int] /\ b \in [T -> M]
      /\ \A x, y \in T : b[x] = b[y] => x = y
      /\ \A r \in M : \E x \in T : b[x] = r
      /\ \A x \in T : h[b[x]] = f[x]
      /\ \A r \in M : h[r] = r.value
  <2> HIDE DEF f, g
  <2>1. \A r \in M : h[r] = r.value /\ \E x \in T : r = RowOf(id, x)
    OBVIOUS
  <2>2. \A x \in T : b[x] = RowOf(id, x) /\ b[x] \in M
    OBVIOUS
  <2>3. h = [r \in M |-> h[r]] /\ b = [x \in T |-> b[x]]
    OBVIOUS
  <2> HIDE DEF M, h, b
  <2>4. \A r \in M : h[r] \in Int
    BY <1>2, <1>3, <2>1
  <2>5. h \in [M -> Int]
    BY <2>3, <2>4
  <2>6. b \in [T -> M]
    BY <2>2, <2>3
  <2>7. \A x, y \in T : b[x] = b[y] => x = y
    BY <1>3, <2>2
  <2> QED
    BY <1>3, <2>1, <2>2, <2>5, <2>6, <2>7
<1> HIDE DEF M, f, h, b
<1>5. /\ IsFiniteSet(M) /\ Cardinality(M) = Cardinality(T)
      /\ SumFunctionOnSet(h, M) = SumFunctionOnSet(f, T)
  BY <1>1, <1>2, <1>4, SumMoved
<1>6. MapThenSumSet(LAMBDA r : r.value, M) = SumFunctionOnSet(h, M)
  BY <1>4, <1>5, ValuesAdded
<1>7. SumFunctionOnSet(g, T) = SumFunctionOnSet(f, T)
  <2>1. \A x \in T : g[x] = f[x]
    BY DEF f
  <2> HIDE DEF g
  <2> QED
    BY <1>1, <1>2, <2>1, SumSame
<1>8. MapThenSumSet(LAMBDA d : Turnover[id[1]][d], T) = SumFunctionOnSet(g, T)
  BY NamedAdded
<1>9. MapThenSumSet(LAMBDA r : r.value, M) = MapThenSumSet(LAMBDA d : Turnover[id[1]][d], T)
  BY <1>5, <1>6, <1>7, <1>8, Zenon
<1> QED
  BY <1>5, <1>9, Zenon DEF IsLiquid, Enough, M

(* What could be known of a day's universe on its morning.                 *)
PointInTime(asOf) ==
  {r \in master[asOf] : Enough(r.isin[1], TradedBy(r.id, asOf))}

(* Selecting from all rows of the sessions measured selects just that.     *)
LEMMA SelectedIs ==
  ASSUME ExchangeInv, NEW asOf \in Days
  PROVE  Selected(master[asOf], asOf, AllRows(asOf)) = PointInTime(asOf)
<1>1. ASSUME NEW r \in master[asOf]
      PROVE  IsLiquid(Measurement(r.id, asOf, AllRows(asOf))) <=> Enough(r.isin[1], TradedBy(r.id, asOf))
  <2>1. r.isin[1] = r.id[1] /\ r.id[1] \in Securities
    BY DEF ExchangeInv, Own
  <2>2. PICK id, T : id = r.id /\ T = TradedBy(r.id, asOf)
    OBVIOUS
  <2>3. Measurement(id, asOf, AllRows(asOf)) = {RowOf(id, d) : d \in T}
    BY <2>2, Measured
  <2>4. T \in SUBSET Days
    BY <2>2, SessionDays DEF TradedBy
  <2>5. id[1] \in Securities /\ id[1] = r.isin[1]
    BY <2>1, <2>2
  <2>6. IsLiquid({RowOf(id, d) : d \in T}) <=> Enough(id[1], T)
    BY <2>4, <2>5, LiquidIs
  <2> QED
    BY <2>2, <2>3, <2>5, <2>6
<1> QED
  BY <1>1 DEF Selected, PointInTime

-----------------------------------------------------------------------------
(* What the exchange published stays, and what a build has read is what    *)
(* was published.                                                          *)

JobFields == {"pc", "asOf", "archived", "mapper", "left", "rows",
              "universe", "pending", "instruments", "failures"}
BuildInv ==
  job.pc \in {"reading", "writing", "instruments", "built"} =>
    /\ DOMAIN job = JobFields /\ job.asOf \in 1..today
    /\ job.pc \in {"reading", "writing"} =>
         /\ job.left \subseteq SessionsBefore(job.asOf)
         /\ job.rows = UNION {Rows(d) : d \in SessionsBefore(job.asOf) \ job.left}
    /\ job.pc = "writing" => job.left # {}
    /\ job.pc \in {"instruments", "built"} => job.universe = PointInTime(job.asOf)

HistoryInv == ExchangeInv /\ BuildInv

(* A day more leaves the published ones.                                   *)
LEMMA DayKeeps ==
  ASSUME ExchangeInv, NEW l, NEW kept, NEW announced, NextDay(l, kept, announced)
  PROVE  /\ today' = today + 1 /\ \A d \in 1..today : master'[d] = master[d]
         /\ \A d \in 1..today : Rows(d)' = Rows(d)
         /\ \A asOf \in 1..today : PointInTime(asOf)' = PointInTime(asOf)
<1>1. /\ today \in Nat /\ today' = today + 1 /\ 1..today \subseteq Days
      /\ \A asOf \in 1..today : \A d \in Days : d < asOf => d \in 1..today
  <2>1. LastDay \in Nat /\ today \in 1..LastDay
    BY HistoryAssumption DEF ExchangeInv, Days
  <2>2. today' = today + 1
    BY DEF NextDay
  <2> QED
    BY <2>1, <2>2 DEF Days
<1>2. ASSUME NEW d \in 1..today PROVE master'[d] = master[d]
  BY <1>1 DEF NextDay, ExchangeInv
<1>3. \A d \in 1..today : Rows(d)' = Rows(d)
  BY <1>2 DEF Rows
<1>4. ASSUME NEW asOf \in 1..today PROVE PointInTime(asOf)' = PointInTime(asOf)
  <2>1. \A d \in SessionsBefore(asOf) : master'[d] = master[d]
    <3>1. asOf \in Days
      BY <1>1
    <3> QED
      BY <1>1, <1>2, <3>1, SessionDays
  <2>2. \A id : TradedBy(id, asOf)' = TradedBy(id, asOf)
    BY <2>1 DEF TradedBy
  <2>3. \A r : Enough(r.isin[1], TradedBy(r.id, asOf))' <=> Enough(r.isin[1], TradedBy(r.id, asOf))
    <3>1. ASSUME NEW r PROVE Enough(r.isin[1], TradedBy(r.id, asOf))' <=> Enough(r.isin[1], TradedBy(r.id, asOf))
      BY <2>2
    <3> QED
      BY <3>1
  <2>4. master'[asOf] = master[asOf]
    BY <1>2
  <2> QED
    BY <2>3, <2>4 DEF PointInTime
<1> QED
  BY <1>1, <1>2, <1>3, <1>4

(* What BuildInv says of one job, of what is published.                    *)
Sound(j, asOf) ==
  /\ j.pc \in {"reading", "writing"} =>
       /\ j.left \subseteq SessionsBefore(asOf)
       /\ j.rows = UNION {Rows(d) : d \in SessionsBefore(asOf) \ j.left}
  /\ j.pc = "writing" => j.left # {}
  /\ j.pc \in {"instruments", "built"} => j.universe = PointInTime(asOf)
Built(j) ==
  j.pc \in {"reading", "writing", "instruments", "built"} =>
    DOMAIN j = JobFields /\ j.asOf \in 1..today /\ Sound(j, j.asOf)

(* While nothing is published, a step is judged by the job it leaves.      *)
LEMMA Unpublished ==
  ASSUME NEW j, job' = j, Built(j), UNCHANGED <<today, master>>
  PROVE  BuildInv'
<1>1. \A d : Rows(d)' = Rows(d)
  BY DEF Rows
<1>2. \A id, asOf : TradedBy(id, asOf)' = TradedBy(id, asOf)
  BY DEF TradedBy
<1>3. \A asOf : PointInTime(asOf)' = PointInTime(asOf)
  <2>1. \A r, asOf : Enough(r.isin[1], TradedBy(r.id, asOf))' = Enough(r.isin[1], TradedBy(r.id, asOf))
    <3>1. ASSUME NEW r, NEW asOf
          PROVE  Enough(r.isin[1], TradedBy(r.id, asOf))' = Enough(r.isin[1], TradedBy(r.id, asOf))
      BY <1>2
    <3> QED
      BY <3>1
  <2> QED
    BY <2>1 DEF PointInTime
<1> QED
  BY <1>1, <1>3 DEF BuildInv, Built, Sound

(* The rows of one session more are read, of a cached file or a new one.   *)
LEMMA RowsRead ==
  ASSUME HistoryInv, job.pc \in {"reading", "writing"}, job.left # {}, HaveRows,
         UNCHANGED <<today, master>>
  PROVE  BuildInv'
<1>1. /\ DOMAIN job = JobFields /\ job.asOf \in 1..today
      /\ job.left \subseteq SessionsBefore(job.asOf)
      /\ job.rows = UNION {Rows(d) : d \in SessionsBefore(job.asOf) \ job.left}
  BY DEF HistoryInv, BuildInv
<1>2. PICK d : d = Session
  OBVIOUS
<1>3. d \in job.left
  <2>1. job.left \subseteq Nat
    BY <1>1, LiquidityAssumption DEF SessionsBefore
  <2>2. \E x \in job.left : \A y \in job.left : x <= y
    BY <2>1, SmallestOf
  <2> QED
    BY <1>2, <2>2 DEF Session
<1>4. PICK j : j = [job EXCEPT !.pc = "reading", !.left = @ \ {d}, !.rows = @ \cup Rows(d)]
  OBVIOUS
<1>5. job' = j
  BY <1>2, <1>4 DEF HaveRows
<1>6. /\ DOMAIN j = JobFields /\ j.pc = "reading" /\ j.asOf = job.asOf
      /\ j.left = job.left \ {d} /\ j.rows = job.rows \cup Rows(d)
  BY <1>1, <1>4 DEF JobFields
<1>7. j.rows = UNION {Rows(x) : x \in SessionsBefore(job.asOf) \ j.left}
  <2>1. SessionsBefore(job.asOf) \ j.left = (SessionsBefore(job.asOf) \ job.left) \cup {d}
    BY <1>1, <1>3, <1>6
  <2> QED
    BY <1>1, <1>6, <2>1
<1>8. Built(j)
  BY <1>1, <1>6, <1>7 DEF Built, Sound
<1> QED
  BY <1>5, <1>8, Unpublished

(* All rows read, the universe is what could be known.                     *)
LEMMA UniverseSelected == ASSUME HistoryInv, SelectUniverse PROVE BuildInv'
<1>1. /\ DOMAIN job = JobFields /\ job.asOf \in 1..today /\ job.left = {}
      /\ job.rows = UNION {Rows(d) : d \in SessionsBefore(job.asOf) \ job.left}
  BY DEF HistoryInv, BuildInv, SelectUniverse
<1>2. PICK asOf : asOf = job.asOf
  OBVIOUS
<1>3. asOf \in Days
  BY <1>1, <1>2, HistoryAssumption DEF HistoryInv, ExchangeInv, Days
<1>4. job.rows = AllRows(asOf)
  BY <1>1, <1>2 DEF AllRows
<1>5. PICK u : u = Selected(master[asOf], asOf, AllRows(asOf))
  OBVIOUS
<1>6. u = PointInTime(asOf)
  BY <1>3, <1>5, SelectedIs DEF HistoryInv
<1>7. PICK b : job' = [job EXCEPT !.pc = IF b = {} THEN "failed" ELSE "instruments",
                                  !.universe = u, !.pending = b]
  <2>1. u = Selected(master[job.asOf], job.asOf, job.rows)
    BY <1>2, <1>4, <1>5
  <2> QED
    BY <2>1 DEF SelectUniverse
<1>8. PICK j : j = job'
  OBVIOUS
<1>9. DOMAIN j = JobFields /\ j.asOf = asOf /\ j.universe = u /\ j.pc \in {"failed", "instruments"}
  BY <1>1, <1>2, <1>7, <1>8 DEF JobFields
<1>10. Built(j)
  BY <1>1, <1>2, <1>6, <1>9 DEF Built, Sound
<1>11. UNCHANGED <<today, master>>
  BY DEF SelectUniverse, exchangeVars
<1> QED
  BY <1>8, <1>10, <1>11, Unpublished

(* The other steps of a build: it ends, begins, waits for a file, or goes  *)
(* on with the universe it has.                                            *)
LEMMA JobElsewhere ==
  ASSUME job'.pc \notin {"reading", "writing", "instruments", "built"}
  PROVE  BuildInv'
BY DEF BuildInv

LEMMA FailedOf ==
  ASSUME HistoryInv, job.pc \in {"reading", "writing"}, Fail
  PROVE  BuildInv'
<1>1. job'.pc = "failed"
  BY DEF HistoryInv, BuildInv, Fail, JobFields
<1> QED
  BY <1>1, JobElsewhere

LEMMA BuildStarted ==
  ASSUME HistoryInv, NEW asOf \in 1..today, NEW archived, NEW mapped,
         StartBuild(asOf, archived, mapped)
  PROVE  BuildInv'
<1>1. PICK m : m = Mapper(mapped)
  OBVIOUS
<1>2. PICK j : j = [pc |-> "reading", asOf |-> asOf, archived |-> archived, mapper |-> m,
                    left |-> SessionsBefore(asOf), rows |-> {},
                    universe |-> {}, pending |-> {}, instruments |-> {}, failures |-> {}]
  OBVIOUS
<1>3. job' = j /\ UNCHANGED <<today, master>>
  BY <1>1, <1>2 DEF StartBuild, exchangeVars
<1>4. DOMAIN j = JobFields /\ j.pc = "reading" /\ j.asOf = asOf /\ j.rows = {}
      /\ j.left = SessionsBefore(asOf)
  BY <1>2 DEF JobFields
<1>5. Built(j)
  BY <1>4 DEF Built, Sound
<1> QED
  BY <1>3, <1>5, Unpublished

LEMMA DownloadStarted == ASSUME HistoryInv, Download PROVE BuildInv'
<1>1. DOMAIN job = JobFields /\ job.asOf \in 1..today /\ Sound(job, job.asOf)
      /\ job.left # {} /\ job.pc = "reading" /\ UNCHANGED <<today, master>>
  BY DEF HistoryInv, BuildInv, Sound, Download, Reading, exchangeVars
<1>2. CASE Fail
  BY <1>1, <1>2, FailedOf
<1>3. CASE job' = [job EXCEPT !.pc = "writing"]
  <2>1. PICK j : j = [job EXCEPT !.pc = "writing"]
    OBVIOUS
  <2>2. DOMAIN j = JobFields /\ j.pc = "writing" /\ j.asOf = job.asOf /\ j.left = job.left
        /\ j.rows = job.rows
    BY <1>1, <2>1 DEF JobFields
  <2>3. Built(j)
    BY <1>1, <2>2 DEF Built, Sound
  <2> QED
    BY <1>1, <1>3, <2>1, <2>3, Unpublished
<1> QED
  BY <1>2, <1>3 DEF Download

LEMMA UniverseKept ==
  ASSUME HistoryInv, job.pc = "instruments", NEW pc \in {"instruments", "built", "failed"},
         NEW pending, NEW failures, NEW instruments,
         job' = [job EXCEPT !.pc = pc, !.pending = pending, !.failures = failures,
                            !.instruments = instruments],
         UNCHANGED <<today, master>>
  PROVE  BuildInv'
<1>1. DOMAIN job = JobFields /\ job.asOf \in 1..today /\ job.universe = PointInTime(job.asOf)
  BY DEF HistoryInv, BuildInv
<1>2. PICK j : j = job'
  OBVIOUS
<1>3. DOMAIN j = JobFields /\ j.pc = pc /\ j.asOf = job.asOf /\ j.universe = job.universe
  BY <1>1, <1>2 DEF JobFields
<1>4. Built(j)
  BY <1>1, <1>3 DEF Built, Sound
<1> QED
  BY <1>2, <1>4, Unpublished

LEMMA InstrumentKeeps ==
  ASSUME HistoryInv, NEW pit, NEW answer, Instrument(pit, answer)
  PROVE  BuildInv'
<1>1. PICK symbol : symbol = Resolved(pit)
  OBVIOUS
<1>2. PICK stage : stage = IF symbol = None THEN "IDENTITY_RESOLUTION" ELSE answer
  OBVIOUS
<1>3. PICK pending, failures, instruments :
        /\ pending = job.pending \ {pit}
        /\ failures = IF stage = "built" THEN job.failures
                      ELSE job.failures \cup {[pit |-> pit, stage |-> stage]}
        /\ instruments = IF stage = "built" THEN job.instruments \cup {[pit |-> pit, symbol |-> symbol]}
                         ELSE job.instruments
  OBVIOUS
<1>4. /\ job.pc = "instruments" /\ UNCHANGED <<today, master>>
      /\ job' = [job EXCEPT !.pending = pending, !.failures = failures, !.instruments = instruments]
  BY <1>1, <1>2, <1>3 DEF Instrument, exchangeVars
<1>5. DOMAIN job = JobFields
  BY <1>4 DEF HistoryInv, BuildInv
<1>6. PICK pc \in {"instruments", "built", "failed"} : pc = "instruments"
  OBVIOUS
<1>7. job' = [job EXCEPT !.pc = pc, !.pending = pending, !.failures = failures,
                         !.instruments = instruments]
  BY <1>4, <1>5, <1>6 DEF JobFields
<1>8. job.pc = "instruments" /\ UNCHANGED <<today, master>>
  BY <1>4
<1> QED
  BY <1>7, <1>8, UniverseKept, Zenon

LEMMA CombineKeeps == ASSUME HistoryInv, Combine PROVE BuildInv'
<1>1. PICK pc \in {"built", "failed"} : job' = [job EXCEPT !.pc = pc]
  <2>1. CASE Joinable(job.instruments)
    BY <2>1 DEF Combine
  <2>2. CASE ~ Joinable(job.instruments)
    BY <2>2 DEF Combine
  <2> QED
    BY <2>1, <2>2
<1>2. job.pc = "instruments" /\ UNCHANGED <<today, master>>
  BY DEF Combine, exchangeVars
<1>3. DOMAIN job = JobFields
  BY <1>2 DEF HistoryInv, BuildInv
<1>4. job' = [job EXCEPT !.pc = pc, !.pending = job.pending, !.failures = job.failures,
                         !.instruments = job.instruments]
  BY <1>1, <1>3 DEF JobFields
<1> QED
  BY <1>2, <1>4, UniverseKept

LEMMA DayKeepsBuild ==
  ASSUME HistoryInv, NEW l, NEW kept, NEW announced, NextDay(l, kept, announced)
  PROVE  BuildInv'
<1>1. /\ today' = today + 1 /\ \A d \in 1..today : Rows(d)' = Rows(d)
      /\ \A asOf \in 1..today : PointInTime(asOf)' = PointInTime(asOf)
  BY DayKeeps DEF HistoryInv
<1>2. today \in Nat /\ 1..today \subseteq Days
      /\ \A asOf \in 1..today : \A d \in Days : d < asOf => d \in 1..today
  BY HistoryAssumption DEF HistoryInv, ExchangeInv, Days
<1>3. job' = job
  BY DEF NextDay
<1>4. SUFFICES ASSUME job.pc \in {"reading", "writing", "instruments", "built"}
      PROVE  BuildInv'
  BY <1>3 DEF BuildInv
<1>5. /\ DOMAIN job = JobFields /\ job.asOf \in 1..today
      /\ job.pc \in {"reading", "writing"} =>
           /\ job.left \subseteq SessionsBefore(job.asOf)
           /\ job.rows = UNION {Rows(d) : d \in SessionsBefore(job.asOf) \ job.left}
      /\ job.pc = "writing" => job.left # {}
      /\ job.pc \in {"instruments", "built"} => job.universe = PointInTime(job.asOf)
  BY <1>4 DEF HistoryInv, BuildInv
<1>6. PICK asOf : asOf = job.asOf
  OBVIOUS
<1>7. \A d \in SessionsBefore(asOf) : Rows(d)' = Rows(d)
  BY <1>1, <1>2, <1>5, <1>6, SessionDays
<1>8. job.asOf \in 1..today'
  BY <1>1, <1>2, <1>5
<1>9. PointInTime(asOf)' = PointInTime(asOf)
  BY <1>1, <1>5, <1>6
<1> QED
  BY <1>3, <1>5, <1>6, <1>7, <1>8, <1>9 DEF BuildInv

LEMMA HistoryStep == ASSUME HistoryInv, [Next]_vars PROVE HistoryInv'
<1>1. ASSUME Exchange PROVE HistoryInv'
  <2>1. PICK l, kept, announced :
           NextDay(l, kept, announced) /\ OwnListing(l) /\ \A r \in kept : Own(r)
    BY <1>1, ExchangeDay DEF HistoryInv
  <2> QED
    BY <2>1, ExchangeKeeps, DayKeepsBuild DEF HistoryInv
<1>2. ASSUME UNCHANGED exchangeVars PROVE ExchangeInv' /\ UNCHANGED <<today, master>>
  BY <1>2 DEF HistoryInv, ExchangeInv, exchangeVars, Own
<1>3. ASSUME NEW asOf \in 1..today, NEW mapped \in MappedOn, NEW archived \in Archives,
             StartBuild(asOf, archived, mapped)
      PROVE  HistoryInv'
  BY <1>2, <1>3, BuildStarted DEF HistoryInv, StartBuild
<1>4. ASSUME ReadCached PROVE HistoryInv'
  <2>1. job.pc = "reading" /\ job.left # {} /\ (HaveRows \/ Fail) /\ UNCHANGED exchangeVars
    BY <1>4 DEF ReadCached, Reading
  <2> QED
    BY <1>2, <2>1, RowsRead, FailedOf DEF HistoryInv
<1>5. ASSUME Download PROVE HistoryInv'
  BY <1>2, <1>5, DownloadStarted DEF HistoryInv, Download
<1>6. ASSUME Written PROVE HistoryInv'
  <2>1. job.pc = "writing" /\ (HaveRows \/ Fail) /\ UNCHANGED exchangeVars
    BY <1>6 DEF Written
  <2>2. job.left # {}
    BY <2>1 DEF HistoryInv, BuildInv
  <2> QED
    BY <1>2, <2>1, <2>2, RowsRead, FailedOf DEF HistoryInv
<1>7. ASSUME SelectUniverse PROVE HistoryInv'
  BY <1>2, <1>7, UniverseSelected DEF HistoryInv, SelectUniverse
<1>8. ASSUME NEW pit, NEW answer, Instrument(pit, answer) PROVE HistoryInv'
  BY <1>2, <1>8, InstrumentKeeps DEF HistoryInv, Instrument
<1>9. ASSUME Combine PROVE HistoryInv'
  BY <1>2, <1>9, CombineKeeps DEF HistoryInv, Combine
<1>10. ASSUME job' = Idle \/ job'.pc = "saving", UNCHANGED exchangeVars PROVE HistoryInv'
  <2>1. job'.pc \notin {"reading", "writing", "instruments", "built"}
    BY <1>10 DEF Idle
  <2> QED
    BY <1>2, <1>10, <2>1, JobElsewhere DEF HistoryInv
<1>11. ASSUME Return \/ Store \/ Crash PROVE HistoryInv'
  BY <1>10, <1>11 DEF Return, Store, Crash
<1>12. ASSUME NEW bars, NEW now, NEW bounded, NEW suspended, Ingest(bars, now, bounded, suspended)
       PROVE  HistoryInv'
  <2>1. job'.pc = "saving" /\ UNCHANGED exchangeVars
    BY <1>12 DEF Ingest
  <2> QED
    BY <1>10, <2>1
<1>13. ASSUME UNCHANGED vars PROVE HistoryInv'
  <2>1. UNCHANGED exchangeVars /\ job' = job
    BY <1>13 DEF vars
  <2>2. UNCHANGED <<today, master>> /\ ExchangeInv'
    BY <1>2, <2>1
  <2>3. Built(job)
    BY DEF HistoryInv, BuildInv, Built, Sound
  <2>4. PICK j : j = job
    OBVIOUS
  <2> QED
    BY <2>1, <2>2, <2>3, <2>4, Unpublished DEF HistoryInv
<1>14. ASSUME \E asOf \in 1..today, mapped \in MappedOn, archived \in Archives :
                 master[mapped] # {} /\ StartBuild(asOf, archived, mapped)
       PROVE  HistoryInv'
  BY <1>3, <1>14
<1>15. ASSUME \E pit \in job.pending, answer \in {"built", "HISTORICAL_INGESTION", "PHASE9_BUILD"} :
                 Instrument(pit, answer)
       PROVE  HistoryInv'
  BY <1>8, <1>15
<1>16. ASSUME \E bars \in Deliveries, slot \in 0..SlotsPerDay + 1, bounded \in BOOLEAN,
                 suspended \in {{}, {today}} : Ingest(bars, <<today, slot>>, bounded, suspended)
       PROVE  HistoryInv'
  BY <1>12, <1>16
<1> QED
  BY <1>1, <1>4, <1>5, <1>6, <1>7, <1>9, <1>11, <1>13, <1>14, <1>15, <1>16 DEF Next

(* Whatever is listed, renamed and published, however files of the cache   *)
(* were left by a crash, and for any calendar: a universe that was selected *)
(* holds the records of its day that had traded enough in the sessions     *)
(* before it, and no other.                                                *)
THEOREM UniverseAlwaysPointInTime == Spec => []UniverseIsPointInTime
<1>1. Init => HistoryInv
  <2>1. Init => BuildInv
    BY DEF Init, Idle, BuildInv
  <2> QED
    BY <2>1, InitExchange DEF HistoryInv
<1>2. HistoryInv => UniverseIsPointInTime
  <2> SUFFICES ASSUME HistoryInv, Selecting
      PROVE  job.universe =
               {r \in master[job.asOf] :
                  LET days == Traded(r, job.asOf)
                  IN /\ Cardinality(days) >= MinCompleted
                     /\ MapThenSumSet(LAMBDA d : Turnover[r.isin[1]][d], days)
                          >= MinAverage * Cardinality(days)}
    BY DEF UniverseIsPointInTime
  <2>1. PICK asOf : asOf = job.asOf
    OBVIOUS
  <2>2. asOf \in Days /\ job.universe = PointInTime(asOf)
    BY <2>1, HistoryAssumption DEF HistoryInv, ExchangeInv, BuildInv, Selecting, Days
  <2>3. ASSUME NEW r \in master[asOf]
        PROVE  Enough(r.isin[1], TradedBy(r.id, asOf)) <=>
                 LET days == Traded(r, asOf)
                 IN /\ Cardinality(days) >= MinCompleted
                    /\ MapThenSumSet(LAMBDA d : Turnover[r.isin[1]][d], days)
                         >= MinAverage * Cardinality(days)
    <3>1. Traded(r, asOf) = TradedBy(r.id, asOf)
      BY <2>2, TradedIs
    <3> QED
      BY <3>1, Zenon DEF Enough
  <2> QED
    BY <2>1, <2>2, <2>3, Zenon DEF PointInTime
<1> QED
  BY <1>1, <1>2, HistoryStep, PTL DEF Spec

-----------------------------------------------------------------------------
(* The stored history                                                      *)

(* What StoredWasValidated says of one file.                               *)
Whole(dataset) ==
  \A s \in dataset.bars :
    /\ s[1] \in TradingDays
    /\ \/ \A slot \in Slots : <<s[1], slot>> \in dataset.bars
       \/ s[1] \in dataset.suspended
       \/ \E t \in dataset.asOf : /\ t[1] = s[1] /\ t[2] \in Slots
                                  /\ \A x \in dataset.bars : NotAfter(x, t)

(* The temporary file is what the next replacement makes the file.         *)
StoreInv ==
  /\ file # NoFile => Whole(file)
  /\ temporary # NoFile => Whole(temporary)

(* What the validator lets through may be stored.                          *)
LEMMA ValidIsWhole ==
  ASSUME NEW bars, NEW asOf, NEW suspended, Valid(bars, asOf, suspended)
  PROVE  Whole(Dataset(bars, asOf, suspended))
<1> DEFINE starts == BagToSet(bars)
           stored == Dataset(bars, asOf, suspended)
<1>1. stored.bars = starts /\ stored.asOf = asOf /\ stored.suspended = suspended
  BY DEF Dataset
<1>2. ASSUME NEW s \in starts
      PROVE  /\ s[1] \in TradingDays
             /\ \/ \A slot \in Slots : <<s[1], slot>> \in starts
                \/ s[1] \in suspended
                \/ \E t \in asOf : /\ t[1] = s[1] /\ t[2] \in Slots
                                   /\ \A x \in starts : NotAfter(x, t)
  <2>1. s \in Expected(s[1]) /\ Complete(s[1], starts, asOf, suspended)
    BY DEF Valid
  <2>2. s[1] \in TradingDays /\ Expected(s[1]) = {s[1]} \X Slots
    BY <2>1 DEF Expected
  <2>3. CASE Expected(s[1]) \subseteq starts
    BY <2>2, <2>3
  <2>4. CASE s[1] \in suspended
    BY <2>2, <2>4
  <2>5. CASE IsOpen(s[1], asOf)
    <3>1. PICK t \in asOf : t[1] = s[1] /\ t[2] \in Slots
      BY <2>5 DEF IsOpen
    <3>2. \A x \in starts : NotAfter(x, t)
      BY DEF Valid
    <3> QED
      BY <2>2, <3>1, <3>2
  <2> QED
    BY <2>1, <2>3, <2>4, <2>5 DEF Complete
<1> QED
  BY <1>1, <1>2 DEF Whole

LEMMA StoreStep == ASSUME StoreInv, [Next]_vars PROVE StoreInv'
<1>1. ASSUME UNCHANGED storeVars PROVE StoreInv'
  BY <1>1 DEF StoreInv, storeVars, Whole
<1>2. ASSUME NEW bars, NEW now, NEW bounded, NEW suspended, Ingest(bars, now, bounded, suspended)
      PROVE  StoreInv'
  <2>1. PICK asOf : Valid(bars, asOf, suspended) /\ temporary' = Dataset(bars, asOf, suspended)
    BY <1>2 DEF Ingest, WriteTemporary
  <2>2. Whole(temporary')
    BY <2>1, ValidIsWhole
  <2> QED
    BY <1>2, <2>2 DEF Ingest, WriteTemporary, StoreInv, Whole
<1>3. ASSUME Store PROVE StoreInv'
  BY <1>3 DEF Store, Replace, StoreInv, Whole
<1>4. ASSUME Crash PROVE StoreInv'
  BY <1>4 DEF Crash, Abandon, StoreInv, Whole
<1>5. ASSUME Exchange PROVE UNCHANGED storeVars
  <2>1. PICK l, kept, announced : NextDay(l, kept, announced)
    BY <1>5, ExchangeDay
  <2> QED
    BY <2>1 DEF NextDay
<1>6. ASSUME NEW asOf, NEW archived, NEW mapped, StartBuild(asOf, archived, mapped)
      PROVE  UNCHANGED storeVars
  BY <1>6 DEF StartBuild
<1>7. ASSUME ReadCached \/ Download \/ Written PROVE UNCHANGED storeVars
  BY <1>7 DEF ReadCached, Download, Written
<1>8. ASSUME SelectUniverse \/ Combine \/ Return PROVE UNCHANGED storeVars
  BY <1>8 DEF SelectUniverse, Combine, Return
<1>9. ASSUME NEW pit, NEW answer, Instrument(pit, answer) PROVE UNCHANGED storeVars
  BY <1>9 DEF Instrument
<1>10. ASSUME UNCHANGED vars PROVE UNCHANGED storeVars
  BY <1>10 DEF vars
<1>11. ASSUME \E bars \in Deliveries, slot \in 0..SlotsPerDay + 1, bounded \in BOOLEAN,
                 suspended \in {{}, {today}} : Ingest(bars, <<today, slot>>, bounded, suspended)
       PROVE  StoreInv'
  BY <1>2, <1>11
<1>12. ASSUME \/ \E asOf \in 1..today, mapped \in MappedOn, archived \in Archives :
                   master[mapped] # {} /\ StartBuild(asOf, archived, mapped)
              \/ job.pc = "instruments" /\
                   \E pit \in job.pending, answer \in {"built", "HISTORICAL_INGESTION", "PHASE9_BUILD"} :
                      Instrument(pit, answer)
       PROVE  UNCHANGED storeVars
  BY <1>6, <1>9, <1>12
<1> QED
  BY <1>1, <1>3, <1>4, <1>5, <1>7, <1>8, <1>10, <1>11, <1>12 DEF Next

(* Whatever the provider delivers, of whatever session, and whichever step *)
(* the process dies in: a file that is there is a whole dataset, whose     *)
(* sessions are complete but for the one open when it was fetched and      *)
(* those without trading.                                                  *)
THEOREM AlwaysStoredValidated == Spec => []StoredWasValidated
<1>1. Init => StoreInv
  BY DEF Init, StoreInit, StoreInv
<1>2. StoreInv => StoredWasValidated
  BY DEF StoreInv, StoredWasValidated, Whole
<1> QED
  BY <1>1, <1>2, StoreStep, PTL DEF Spec

-----------------------------------------------------------------------------
(* Who had which symbol                                                    *)

Holds(s, x)   == listing[s] # None /\ listing[s].symbol = x
GivenUp(x)    == \E c \in changes : c.old = x
Known(s, day) == \E d \in Days : d < day /\ \E r \in master[d] : r.isin[1] = s
Same(r, k)    == r.id = k.id /\ r.symbol = k.symbol /\ r.isin = k.isin

(* What is listed, retained and announced: one holder of a symbol, ids     *)
(* that grow, and a change for each symbol of a retained record.           *)
ListedInv ==
  /\ \A c \in changes : c.old # c.new /\ c.day \in Nat /\ c.day <= today
  /\ \A s, t \in Securities : \A x : Holds(s, x) /\ Holds(t, x) => s = t
  /\ \A s \in Securities : listing[s] # None => listing[s] \in ListingRecords /\ listing[s].id[1] = s
  /\ \A k \in retained :
       /\ GivenUp(k.symbol) /\ listing[k.id[1]] # None
       /\ k.id[2] \in Nat /\ k.id[2] < listing[k.id[1]].id[2]
  /\ \A k, m \in retained : k.id = m.id => k = m

(* What was published of them.                                             *)
MasterInv ==
  /\ \A d \in Days : \A r \in master[d] :
       /\ d <= today /\ r.day = d /\ listing[r.isin[1]] # None /\ r.live \in BOOLEAN
       /\ ~r.live => \E c \in changes : c.old = r.symbol /\ c.day <= d
  /\ \A d \in Days : \A r, q \in master[d] :
       r.isin[1] = q.isin[1] /\ (r.id = q.id \/ (r.live /\ q.live)) => r = q

(* Who is back at a symbol given up came to it by a later change, now and  *)
(* on any day published.                                                   *)
BackByChange ==
  \A c \in changes, s \in Securities :
    Holds(s, c.old) /\ Known(s, c.day) => \E b \in changes : b.new = c.old /\ b.day > c.day
BackByThen ==
  \A c \in changes, d \in Days : \A r \in master[d] :
    r.live /\ c.day <= d /\ r.symbol = c.old /\ Known(r.isin[1], c.day)
      => \E b \in changes : b.new = c.old /\ c.day < b.day /\ b.day <= d

(* A symbol published is still held or was given up since; so whoever took *)
(* it later found it given up.                                             *)
HeldOrGivenUp ==
  \A d \in Days : \A r \in master[d] :
    r.live => \/ \E s \in Securities : Holds(s, r.symbol)
              \/ \E c \in changes : c.old = r.symbol /\ c.day > d
TakenWhenFree ==
  \A c \in changes, d \in Days : \A r \in master[d] :
    r.live /\ r.symbol = c.new /\ c.day > d
      => \E b \in changes : b.old = c.new /\ d < b.day /\ b.day <= c.day

(* A symbol never given up is its first holder's, and a change of symbols  *)
(* given up at no other time leads from a security to itself.              *)
FirstHolder ==
  \A d \in Days : \A r \in master[d] : GivenUp(r.symbol) \/ Holds(r.isin[1], r.symbol)
Once(c) == (\A b \in changes : b.old = c.old => b = c) /\ ~GivenUp(c.new)
Leads(c, w) ==
  /\ Holds(w, c.new)
  /\ \A d \in Days : \A r \in master[d] :
       \/ d < c.day /\ r.symbol = c.old
       \/ d >= c.day /\ r.symbol = c.new
       => r.isin[1] = w
OneSecurity == \A c \in changes : Once(c) => \E w \in Securities : Leads(c, w)

NamesInv ==
  /\ ExchangeInv /\ ListedInv /\ MasterInv
  /\ BackByChange /\ BackByThen /\ HeldOrGivenUp /\ TakenWhenFree /\ FirstHolder /\ OneSecurity

(* What a day changes of the listing: nothing, or a security is listed or  *)
(* renamed, its old record retained if its id is new.                      *)
Unchanged(l, kept, announced) == l = listing /\ kept = retained /\ announced = changes
Others(l, w) == \A s \in Securities \ {w} : l[s] = listing[s]
Taken(l, w) ==
  /\ Others(l, w) /\ l[w] \in ListingRecords /\ l[w] # None /\ l[w].id[1] = w
  /\ l[w].symbol \notin Listed(listing)
Enters(l, kept, announced, w) ==
  Taken(l, w) /\ listing[w] = None /\ kept = retained /\ announced = changes
ChangeOf(l, w) == [old |-> listing[w].symbol, new |-> l[w].symbol, day |-> today + 1]
Renamed(l, kept, announced, w) ==
  /\ Taken(l, w) /\ listing[w] # None
  /\ announced = changes \cup {ChangeOf(l, w)}
  /\ \/ kept = retained /\ l[w].id = listing[w].id
     \/ /\ l[w].id[2] = listing[w].id[2] + 1
        /\ \E k : Same(k, listing[w]) /\ kept = retained \cup {k}
Move(l, kept, announced) ==
  /\ OwnListing(l) /\ \A r \in kept : Own(r)
  /\ \/ Unchanged(l, kept, announced)
     \/ \E w \in Securities : Enters(l, kept, announced, w) \/ Renamed(l, kept, announced, w)

(* The exchange moves so, whatever it does.                                *)
LEMMA RecIs ==
  ASSUME NEW s \in Securities, NEW id \in Nat, NEW symbol \in Symbols, NEW isin \in 1..2
  PROVE  /\ Rec(s, id, symbol, isin) \in ListingRecords /\ Rec(s, id, symbol, isin) # None
         /\ Rec(s, id, symbol, isin).symbol = symbol
         /\ Rec(s, id, symbol, isin).id = <<s, id>> /\ Rec(s, id, symbol, isin).id[2] = id
         /\ Rec(s, id, symbol, isin).id[1] = s
BY HistoryAssumption DEF Rec, ListingRecords

LEMMA ExchangeMoves ==
  ASSUME ExchangeInv, ListedInv, Exchange
  PROVE  \E l, kept, announced : NextDay(l, kept, announced) /\ Move(l, kept, announced)
<1> DEFINE Goal == \E l, kept, announced : NextDay(l, kept, announced) /\ Move(l, kept, announced)
<1>1. OwnListing(listing) /\ \A r \in retained : Own(r)
  BY DEF ExchangeInv, OwnListing
<1>2. CASE QuietDay
  BY <1>1, <1>2 DEF QuietDay, Move, Unchanged
<1>3. ASSUME NEW s \in Securities, NEW symbol \in Symbols, NEW id \in Nat, NEW isin \in 1..2,
             symbol \notin Listed(listing)
      PROVE  \E l : /\ l = [listing EXCEPT ![s] = Rec(s, id, symbol, isin)]
                    /\ OwnListing(l) /\ Taken(l, s) /\ l[s] = Rec(s, id, symbol, isin)
  <2>1. PICK new : new = Rec(s, id, symbol, isin)
    OBVIOUS
  <2>2. new \in ListingRecords /\ new # None /\ new.symbol = symbol /\ new.id[1] = s
    <3>1. /\ Rec(s, id, symbol, isin) \in ListingRecords /\ Rec(s, id, symbol, isin) # None
          /\ Rec(s, id, symbol, isin).symbol = symbol /\ Rec(s, id, symbol, isin).id[1] = s
      BY RecIs
    <3> QED
      BY <2>1, <3>1
  <2>3. PICK l : l = [listing EXCEPT ![s] = new]
    OBVIOUS
  <2>4. OwnListing(l)
    BY <1>1, <2>1, <2>3, OwnListed
  <2>5. l[s] = new /\ Others(l, s)
    BY <2>3, <1>1 DEF OwnListing, Others
  <2> QED
    BY <1>3, <2>1, <2>2, <2>3, <2>4, <2>5 DEF Taken
<1>4. ASSUME NEW s \in Securities, NEW symbol \in Symbols, List(s, symbol) PROVE Goal
  <2>1. /\ listing[s] = None /\ symbol \notin Listed(listing)
        /\ NextDay([listing EXCEPT ![s] = Rec(s, 1, symbol, 1)], retained, changes)
    BY <1>4 DEF List
  <2>2. PICK l : /\ l = [listing EXCEPT ![s] = Rec(s, 1, symbol, 1)]
                 /\ OwnListing(l) /\ Taken(l, s)
    BY <1>3, <2>1
  <2>3. Move(l, retained, changes)
    BY <1>1, <2>1, <2>2 DEF Move, Enters
  <2> QED
    BY <2>1, <2>2, <2>3
<1>5. ASSUME NEW s \in Securities, NEW symbol \in Symbols,
             NEW keeps \in BOOLEAN, NEW deleted \in BOOLEAN, NEW isin \in 1..2,
             Rename(s, symbol, keeps, deleted, isin)
      PROVE  Goal
  <2>1. listing[s] # None /\ symbol \notin Listed(listing)
    BY <1>5 DEF Rename
  <2>2. PICK old : old = listing[s]
    OBVIOUS
  <2>3. /\ old \in ListingRecords /\ Own(old) /\ old.id[2] \in Nat /\ old.id = <<old.id[1], old.id[2]>>
        /\ old.id[1] = s
    <3>1. old \in ListingRecords /\ Own(old) /\ old.id[1] = s
      BY <2>1, <2>2 DEF ExchangeInv, ListedInv
    <3> QED
      BY <3>1 DEF ListingRecords
  <2>4. PICK id, gone, kept :
          /\ id = old.id[2] + (IF keeps THEN 0 ELSE 1)
          /\ gone = [deleted |-> deleted, id |-> old.id, symbol |-> old.symbol, isin |-> old.isin]
          /\ kept = IF keeps THEN retained ELSE retained \cup {gone}
    OBVIOUS
  <2>5. id \in Nat
    BY <2>3, <2>4
  <2>6. PICK l : /\ l = [listing EXCEPT ![s] = Rec(s, id, symbol, isin)]
                 /\ OwnListing(l) /\ Taken(l, s) /\ l[s] = Rec(s, id, symbol, isin)
    BY <1>3, <2>1, <2>5
  <2>7. l[s].symbol = symbol /\ l[s].id = <<s, id>> /\ l[s].id[2] = id
    BY <2>5, <2>6, RecIs
  <2>8. PICK announced : announced = changes \cup {[old |-> old.symbol, new |-> symbol, day |-> today + 1]}
    OBVIOUS
  <2>9. NextDay(l, kept, announced)
    <3>1. NextDay([listing EXCEPT ![s] = Rec(s, id, symbol, isin)], kept, announced)
      BY <1>5, <2>2, <2>4, <2>8, Zenon DEF Rename
    <3> QED
      BY <2>6, <3>1
  <2>10. Same(gone, old) /\ Own(gone)
    BY <2>3, <2>4 DEF Same, Own
  <2>11. Renamed(l, kept, announced, s)
    <3>1. announced = changes \cup {ChangeOf(l, s)}
      BY <2>2, <2>7, <2>8 DEF ChangeOf
    <3>2. CASE keeps
      <4>1. kept = retained /\ id = old.id[2]
        BY <2>3, <2>4, <3>2
      <4>2. l[s].id = listing[s].id
        BY <2>2, <2>3, <2>7, <4>1
      <4> QED
        BY <2>1, <2>6, <3>1, <4>1, <4>2 DEF Renamed
    <3>3. CASE ~keeps
      <4>1. kept = retained \cup {gone} /\ l[s].id[2] = listing[s].id[2] + 1
        BY <2>2, <2>3, <2>4, <2>7, <3>3
      <4>2. \E k : Same(k, listing[s]) /\ kept = retained \cup {k}
        BY <2>2, <2>10, <4>1
      <4> QED
        BY <2>1, <2>6, <3>1, <4>1, <4>2 DEF Renamed
    <3> QED
      BY <3>2, <3>3
  <2>12. \A r \in kept : Own(r)
    BY <1>1, <2>4, <2>10
  <2>13. Move(l, kept, announced)
    BY <2>6, <2>11, <2>12 DEF Move
  <2> QED
    BY <2>9, <2>13
<1> QED
  BY <1>2, <1>4, <1>5 DEF Exchange

(* What is published on a day that passes.                                 *)
Live(r, l, d) ==
  \E s \in Securities :
    /\ l[s] # None
    /\ r = [day |-> d, live |-> TRUE, deleted |-> FALSE,
            id |-> l[s].id, symbol |-> l[s].symbol, isin |-> l[s].isin]
Retained(r, l, kept, d) ==
  \E k \in kept :
    /\ k.symbol \notin Listed(l)
    /\ r = [day |-> d, live |-> FALSE, deleted |-> k.deleted,
            id |-> k.id, symbol |-> k.symbol, isin |-> k.isin]
Earlier(d, r) == d <= today /\ r \in master[d]
Then(d, r, l, kept) == d = today + 1 /\ (Live(r, l, d) \/ Retained(r, l, kept, d))

LEMMA DayPublishes ==
  ASSUME ExchangeInv, MasterInv, NEW l, NEW kept, NEW announced,
         NextDay(l, kept, announced), OwnListing(l)
  PROVE  /\ today \in Nat /\ today' = today + 1 /\ Days \subseteq Nat
         /\ listing' = l /\ retained' = kept /\ changes' = announced
         /\ \A d \in Days : d <= today => master'[d] = master[d]
         /\ \A d \in Days : \A r \in master'[d] : Earlier(d, r) \/ Then(d, r, l, kept)
<1>1. /\ today \in Nat /\ today' = today + 1 /\ Days \subseteq Nat
      /\ listing' = l /\ retained' = kept /\ changes' = announced /\ DOMAIN master = Days
  BY HistoryAssumption DEF ExchangeInv, NextDay, Days
<1>2. \A d \in Days : d # today + 1 => master'[d] = master[d]
  BY <1>1 DEF NextDay
<1>3. \A d \in Days : d <= today => master'[d] = master[d]
  BY <1>1, <1>2
<1>4. ASSUME NEW d \in Days, NEW r \in master'[d] PROVE Earlier(d, r) \/ Then(d, r, l, kept)
  <2>1. CASE r \in master[d]
    BY <2>1 DEF MasterInv, Earlier
  <2>2. CASE r \notin master[d]
    <3>1. d = today + 1
      BY <1>2, <2>2
    <3>2. master'[d] = Published(d, l, kept)
      BY <1>1, <2>2, <3>1 DEF NextDay
    <3>3. CASE r \in {[day |-> d, live |-> TRUE, deleted |-> FALSE,
                       id |-> x.id, symbol |-> x.symbol, isin |-> x.isin] : x \in LiveRecords(l)}
      BY <3>1, <3>3 DEF LiveRecords, Live, Then
    <3>4. CASE r \in {[day |-> d, live |-> FALSE, deleted |-> x.deleted,
                       id |-> x.id, symbol |-> x.symbol, isin |-> x.isin]
                        : x \in {k \in kept : k.symbol \notin Listed(l)}}
      BY <3>1, <3>4 DEF Retained, Then
    <3> QED
      BY <3>2, <3>3, <3>4 DEF Published
  <2> QED
    BY <2>1, <2>2
<1> QED
  BY <1>1, <1>3, <1>4

LEMMA ListedIs == ASSUME NEW l, NEW x PROVE x \in Listed(l) <=> \E s \in Securities : l[s] # None /\ l[s].symbol = x
BY DEF Listed, LiveRecords

(* A move keeps the changes announced and who is listed; a security is at  *)
(* a new symbol only by being listed or by a change announced that day.    *)
LEMMA MoveKeeps ==
  ASSUME NEW l, NEW kept, NEW announced, Move(l, kept, announced)
  PROVE  /\ changes \subseteq announced
         /\ \A c \in announced \ changes :
              \E w \in Securities : Renamed(l, kept, announced, w) /\ c = ChangeOf(l, w)
         /\ \A s \in Securities :
              \/ l[s] = listing[s]
              \/ Taken(l, s) /\ (listing[s] = None \/ ChangeOf(l, s) \in announced)
         /\ \A s \in Securities : listing[s] # None => l[s] # None
         /\ \A k \in kept \ retained :
              \E w \in Securities : /\ Renamed(l, kept, announced, w) /\ Same(k, listing[w])
                                    /\ l[w].id[2] = listing[w].id[2] + 1
         /\ retained \subseteq kept
         /\ \A s, t \in Securities : Taken(l, s) /\ Taken(l, t) => s = t \/ listing[t] = l[t]
<1> DEFINE P1 == changes \subseteq announced /\ retained \subseteq kept
           P2 == \A c \in announced \ changes :
                   \E w \in Securities : Renamed(l, kept, announced, w) /\ c = ChangeOf(l, w)
           P3 == \A s \in Securities :
                   \/ l[s] = listing[s]
                   \/ Taken(l, s) /\ (listing[s] = None \/ ChangeOf(l, s) \in announced)
           P4 == \A k \in kept \ retained :
                   \E w \in Securities : /\ Renamed(l, kept, announced, w) /\ Same(k, listing[w])
                                         /\ l[w].id[2] = listing[w].id[2] + 1
<1>1. CASE Unchanged(l, kept, announced)
  BY <1>1 DEF Unchanged
<1>2. ASSUME NEW w \in Securities, Enters(l, kept, announced, w) PROVE P1 /\ P2 /\ P3 /\ P4
  BY <1>2 DEF Enters, Taken, Others
<1>3. ASSUME NEW w \in Securities, Renamed(l, kept, announced, w) PROVE P1 /\ P2 /\ P3 /\ P4
  <2>1. announced = changes \cup {ChangeOf(l, w)} /\ Taken(l, w)
    BY <1>3 DEF Renamed
  <2>2. P2
    BY <1>3, <2>1
  <2>3. P3
    BY <2>1 DEF Taken, Others
  <2>4. retained \subseteq kept /\ P4
    BY <1>3 DEF Renamed
  <2> QED
    BY <2>1, <2>2, <2>3, <2>4
<1>4. P1 /\ P2 /\ P3 /\ P4
  BY <1>1, <1>2, <1>3 DEF Move
<1>5. \A s \in Securities : listing[s] # None => l[s] # None
  BY <1>4 DEF Taken
<1>6. ASSUME NEW s \in Securities, NEW t \in Securities, Taken(l, s), Taken(l, t), s # t
      PROVE  listing[t] = l[t]
  BY <1>6 DEF Taken, Others
<1> QED
  BY <1>4, <1>5, <1>6

(* A day as the exchange makes it.                                         *)
Day(l, kept, announced) ==
  NamesInv /\ NextDay(l, kept, announced) /\ Move(l, kept, announced)

LEMMA DayFacts ==
  ASSUME NEW l, NEW kept, NEW announced, Day(l, kept, announced)
  PROVE  /\ today \in Nat /\ today' = today + 1 /\ Days \subseteq Nat
         /\ listing' = l /\ retained' = kept /\ changes' = announced
         /\ \A d \in Days : d <= today => master'[d] = master[d]
         /\ \A d \in Days : \A r \in master'[d] : Earlier(d, r) \/ Then(d, r, l, kept)
BY DayPublishes DEF Day, NamesInv, Move

LEMMA ListedKept ==
  ASSUME NEW l, NEW kept, NEW announced, Day(l, kept, announced)
  PROVE  ListedInv'
<1>1. Move(l, kept, announced) /\ ListedInv /\ ExchangeInv
  BY DEF Day, NamesInv
<1>2. /\ today \in Nat /\ today' = today + 1
      /\ listing' = l /\ retained' = kept /\ changes' = announced
  BY DayFacts
<1>3. \A w \in Securities : listing[w] # None => listing[w].symbol \in Listed(listing)
  BY ListedIs
<1>4. ASSUME NEW c \in announced PROVE c.old # c.new /\ c.day \in Nat /\ c.day <= today + 1
  <2>1. CASE c \in changes
    BY <1>1, <1>2, <2>1 DEF ListedInv
  <2>2. CASE c \notin changes
    <3>1. PICK w \in Securities : Renamed(l, kept, announced, w) /\ c = ChangeOf(l, w)
      BY <1>1, <2>2, MoveKeeps
    <3>2. listing[w].symbol # l[w].symbol
      BY <1>3, <3>1 DEF Renamed, Taken
    <3> QED
      BY <1>2, <3>1, <3>2 DEF ChangeOf
  <2> QED
    BY <2>1, <2>2
<1>5. ASSUME NEW s \in Securities, NEW t \in Securities, l[s] # None, l[t] # None,
             l[s].symbol = l[t].symbol
      PROVE  s = t
  <2>1. CASE l[s] = listing[s] /\ l[t] = listing[t]
    BY <1>1, <1>5, <2>1 DEF ListedInv, Holds
  <2>2. CASE Taken(l, s) /\ l[t] = listing[t]
    BY <1>3, <1>5, <2>2 DEF Taken
  <2>3. CASE Taken(l, t) /\ l[s] = listing[s]
    BY <1>3, <1>5, <2>3 DEF Taken
  <2>4. CASE Taken(l, s) /\ Taken(l, t)
    BY <2>2, <2>4, <1>1, MoveKeeps
  <2> QED
    BY <1>1, <2>1, <2>2, <2>3, <2>4, MoveKeeps
<1>6. ASSUME NEW s \in Securities, l[s] # None PROVE l[s] \in ListingRecords /\ l[s].id[1] = s
  <2>1. CASE l[s] = listing[s]
    BY <1>1, <1>6, <2>1 DEF ListedInv
  <2>2. CASE Taken(l, s)
    BY <2>2 DEF Taken
  <2> QED
    BY <1>1, <2>1, <2>2, MoveKeeps
<1>7. ASSUME NEW s \in Securities, listing[s] # None
      PROVE  l[s] # None /\ l[s].id[2] \in Nat /\ listing[s].id[2] \in Nat /\ listing[s].id[2] <= l[s].id[2]
  <2>1. l[s] # None /\ l[s].id[2] \in Nat /\ listing[s].id[2] \in Nat
    <3>1. l[s] # None /\ l[s] \in ListingRecords /\ listing[s] \in ListingRecords
      BY <1>1, <1>6, <1>7, MoveKeeps DEF ListedInv
    <3> QED
      BY <3>1 DEF ListingRecords
  <2>2. listing[s].id[2] = l[s].id[2] \/ l[s].id[2] = listing[s].id[2] + 1
    <3>1. CASE l[s] = listing[s]
      BY <3>1
    <3>2. CASE l[s] # listing[s]
      <4>1. \E w \in Securities : Enters(l, kept, announced, w) \/ Renamed(l, kept, announced, w)
        BY <1>1, <3>2 DEF Move, Unchanged
      <4>2. Renamed(l, kept, announced, s)
        BY <1>7, <3>2, <4>1 DEF Enters, Renamed, Taken, Others
      <4> QED
        BY <4>2 DEF Renamed
    <3> QED
      BY <3>1, <3>2
  <2> QED
    BY <2>1, <2>2
<1>8. ASSUME NEW k \in kept
      PROVE  /\ \E c \in announced : c.old = k.symbol
             /\ k.id[1] \in Securities /\ l[k.id[1]] # None
             /\ k.id[2] \in Nat /\ k.id[2] < l[k.id[1]].id[2]
  <2>1. k.id[1] \in Securities
    BY <1>1 DEF Move, Own
  <2>2. CASE k \in retained
    <3>1. /\ GivenUp(k.symbol) /\ listing[k.id[1]] # None
          /\ k.id[2] \in Nat /\ k.id[2] < listing[k.id[1]].id[2]
      BY <1>1, <2>2 DEF ListedInv
    <3>2. \E c \in announced : c.old = k.symbol
      BY <1>1, <3>1, MoveKeeps DEF GivenUp
    <3>3. PICK s \in Securities : s = k.id[1]
      BY <2>1
    <3>4. /\ l[s] # None /\ l[s].id[2] \in Nat /\ listing[s].id[2] \in Nat
          /\ listing[s].id[2] <= l[s].id[2]
      BY <1>7, <3>1, <3>3
    <3>5. k.id[2] < l[s].id[2]
      BY <3>1, <3>3, <3>4
    <3> QED
      BY <3>1, <3>2, <3>3, <3>4, <3>5
  <2>3. CASE k \notin retained
    <3>1. PICK w \in Securities : /\ Renamed(l, kept, announced, w) /\ Same(k, listing[w])
                                  /\ l[w].id[2] = listing[w].id[2] + 1
      BY <1>1, <2>3, MoveKeeps
    <3>2. listing[w] # None /\ listing[w].id[1] = w
      BY <1>1, <3>1 DEF Renamed, ListedInv
    <3>3. ChangeOf(l, w) \in announced /\ ChangeOf(l, w).old = k.symbol
      BY <3>1 DEF Renamed, ChangeOf, Same
    <3>4. k.id[1] = w /\ k.id[2] = listing[w].id[2]
      BY <3>1, <3>2 DEF Same
    <3>5. l[w] # None /\ listing[w].id[2] \in Nat
      BY <1>7, <3>2
    <3> QED
      BY <3>1, <3>3, <3>4, <3>5
  <2> QED
    BY <2>2, <2>3
<1>9. ASSUME NEW k \in kept, NEW m \in kept, k.id = m.id PROVE k = m
  <2>1. CASE k \in retained /\ m \in retained
    BY <1>1, <1>9, <2>1 DEF ListedInv
  <2>2. ASSUME NEW w \in Securities, Renamed(l, kept, announced, w), NEW j \in kept,
               NEW n \in retained, Same(j, listing[w]), j.id = n.id
        PROVE  FALSE
    <3>1. listing[w].id[1] = w /\ listing[w].id[2] \in Nat
      <4>1. listing[w] # None
        BY <2>2 DEF Renamed
      <4> QED
        BY <1>1, <1>7, <4>1 DEF ListedInv
    <3>2. n.id = listing[w].id
      BY <2>2 DEF Same
    <3>3. n.id[2] \in Nat /\ n.id[2] < listing[n.id[1]].id[2]
      BY <1>1 DEF ListedInv
    <3>4. n.id[2] < listing[w].id[2]
      BY <3>1, <3>2, <3>3
    <3> QED
      BY <3>1, <3>2, <3>4
  <2>3. CASE k \notin retained /\ m \in retained
    BY <1>1, <1>9, <2>2, <2>3, MoveKeeps
  <2>4. CASE m \notin retained /\ k \in retained
    BY <1>1, <1>9, <2>2, <2>4, MoveKeeps
  <2>5. CASE k \notin retained /\ m \notin retained
    <3>1. \E w \in Securities : Renamed(l, kept, announced, w)
      BY <1>1, <2>5, MoveKeeps
    <3> QED
      BY <2>5, <3>1 DEF Renamed
  <2> QED
    BY <2>1, <2>3, <2>4, <2>5
<1>10. /\ \A c \in announced : c.old # c.new /\ c.day \in Nat /\ c.day <= today + 1
       /\ \A s, t \in Securities : \A x :
            l[s] # None /\ l[s].symbol = x /\ l[t] # None /\ l[t].symbol = x => s = t
  BY <1>4, <1>5
<1> QED
  BY <1>2, <1>6, <1>8, <1>9, <1>10 DEF ListedInv, Holds, GivenUp

(* The same in the day's own words.                                        *)
LEMMA DayLists ==
  ASSUME NEW l, NEW kept, NEW announced, Day(l, kept, announced)
  PROVE  /\ \A c \in announced : c.old # c.new /\ c.day \in Nat /\ c.day <= today + 1
         /\ \A s, t \in Securities :
              l[s] # None /\ l[t] # None /\ l[s].symbol = l[t].symbol => s = t
         /\ \A s \in Securities : l[s] # None => l[s].id[1] = s /\ l[s].isin[1] = s
         /\ \A k \in kept :
              /\ \E c \in announced : c.old = k.symbol
              /\ k.id[1] \in Securities /\ k.isin[1] = k.id[1] /\ l[k.id[1]] # None
              /\ k.id[2] < l[k.id[1]].id[2]
         /\ \A k, m \in kept : k.id = m.id => k = m
<1>1. ListedInv' /\ Move(l, kept, announced)
  BY ListedKept DEF Day
<1>2. today' = today + 1 /\ listing' = l /\ retained' = kept /\ changes' = announced
  BY DayFacts
<1>3. \A c \in announced : c.old # c.new /\ c.day \in Nat /\ c.day <= today + 1
  BY <1>1, <1>2 DEF ListedInv
<1>4. \A s, t \in Securities : l[s] # None /\ l[t] # None /\ l[s].symbol = l[t].symbol => s = t
  BY <1>1, <1>2 DEF ListedInv, Holds
<1>5. \A s \in Securities : l[s] # None => l[s].id[1] = s /\ l[s].isin[1] = s
  BY <1>1, <1>2 DEF ListedInv, Move, OwnListing, Own
<1>6. \A k \in kept : k.id[1] \in Securities /\ k.isin[1] = k.id[1]
  BY <1>1 DEF Move, Own
<1>7. \A k \in kept : /\ \E c \in announced : c.old = k.symbol
                      /\ l[k.id[1]] # None /\ k.id[2] < l[k.id[1]].id[2]
  BY <1>1, <1>2 DEF ListedInv, GivenUp
<1>8. \A k, m \in kept : k.id = m.id => k = m
  BY <1>1, <1>2 DEF ListedInv
<1> QED
  BY <1>3, <1>4, <1>5, <1>6, <1>7, <1>8

LEMMA MasterKept ==
  ASSUME NEW l, NEW kept, NEW announced, Day(l, kept, announced)
  PROVE  MasterInv'
<1>1. ExchangeInv /\ MasterInv /\ Move(l, kept, announced)
  BY DEF Day, NamesInv
<1>2. /\ today \in Nat /\ today' = today + 1 /\ Days \subseteq Nat
      /\ listing' = l /\ changes' = announced
      /\ \A d \in Days : \A r \in master'[d] : Earlier(d, r) \/ Then(d, r, l, kept)
  BY DayFacts
<1>3. ASSUME NEW d \in Days, NEW r \in master'[d]
      PROVE  /\ d <= today + 1 /\ r.day = d /\ l[r.isin[1]] # None /\ r.live \in BOOLEAN
             /\ ~r.live => \E c \in announced : c.old = r.symbol /\ c.day <= d
  <2>1. CASE Earlier(d, r)
    <3>1. r \in master[d] /\ r.isin[1] \in Securities
      BY <1>1, <2>1 DEF Earlier, ExchangeInv, Own
    <3>2. /\ d <= today /\ r.day = d /\ listing[r.isin[1]] # None /\ r.live \in BOOLEAN
          /\ ~r.live => \E c \in changes : c.old = r.symbol /\ c.day <= d
      BY <1>1, <3>1 DEF MasterInv
    <3>3. d <= today + 1
      BY <1>2, <3>2
    <3> QED
      BY <1>1, <3>1, <3>2, <3>3, MoveKeeps
  <2>2. CASE d = today + 1 /\ Live(r, l, d)
    BY <1>2, <2>2, DayLists DEF Live
  <2>3. CASE d = today + 1 /\ Retained(r, l, kept, d)
    BY <1>2, <2>3, DayLists DEF Retained
  <2> QED
    BY <1>2, <2>1, <2>2, <2>3 DEF Then
<1>4. ASSUME NEW d \in Days, NEW r \in master'[d], NEW q \in master'[d],
             r.isin[1] = q.isin[1], r.id = q.id \/ (r.live /\ q.live)
      PROVE  r = q
  <2>1. CASE Earlier(d, r) /\ Earlier(d, q)
    BY <1>1, <1>4, <2>1 DEF Earlier, MasterInv
  <2>2. CASE d = today + 1 /\ Live(r, l, d) /\ Live(q, l, d)
    <3>1. PICK s \in Securities : l[s] # None /\
             r = [day |-> d, live |-> TRUE, deleted |-> FALSE,
                  id |-> l[s].id, symbol |-> l[s].symbol, isin |-> l[s].isin]
      BY <2>2 DEF Live
    <3>2. PICK t \in Securities : l[t] # None /\
             q = [day |-> d, live |-> TRUE, deleted |-> FALSE,
                  id |-> l[t].id, symbol |-> l[t].symbol, isin |-> l[t].isin]
      BY <2>2 DEF Live
    <3>3. l[s].isin[1] = s /\ l[t].isin[1] = t /\ r.isin = l[s].isin /\ q.isin = l[t].isin
      BY <3>1, <3>2, DayLists
    <3>4. s = t
      BY <1>4, <3>3
    <3> QED
      BY <3>1, <3>2, <3>4
  <2>3. CASE d = today + 1 /\ Retained(r, l, kept, d) /\ Retained(q, l, kept, d)
    <3>1. PICK k \in kept :
             r = [day |-> d, live |-> FALSE, deleted |-> k.deleted,
                  id |-> k.id, symbol |-> k.symbol, isin |-> k.isin]
      BY <2>3 DEF Retained
    <3>2. PICK m \in kept :
             q = [day |-> d, live |-> FALSE, deleted |-> m.deleted,
                  id |-> m.id, symbol |-> m.symbol, isin |-> m.isin]
      BY <2>3 DEF Retained
    <3>3. r.id = k.id /\ ~r.live /\ q.id = m.id
      BY <3>1, <3>2
    <3>4. k = m
      BY <1>4, <3>1, <3>2, <3>3, DayLists
    <3> QED
      BY <3>1, <3>2, <3>4
  <2>4. ASSUME NEW a, NEW b, Live(a, l, d), Retained(b, l, kept, d),
               a.isin[1] = b.isin[1], a.id = b.id
        PROVE  FALSE
    <3>1. PICK s \in Securities : l[s] # None /\ a.id = l[s].id /\ a.isin = l[s].isin
      BY <2>4 DEF Live
    <3>2. PICK k \in kept : b.id = k.id /\ b.isin = k.isin
      BY <2>4 DEF Retained
    <3>3. k.id = l[s].id /\ k.id[1] = s
      <4>1. k.isin[1] = k.id[1] /\ l[s].isin[1] = s
        BY <3>1, <3>2, DayLists
      <4> QED
        BY <2>4, <3>1, <3>2, <4>1
    <3>4. k.id[2] < k.id[2] /\ k.id[2] \in Nat
      <4>1. k.id[2] < l[s].id[2]
        BY <3>2, <3>3, DayLists
      <4>2. l[s].id[2] \in Nat
        BY <1>2, <3>1, ListedKept DEF ListedInv, ListingRecords
      <4> QED
        BY <3>3, <4>1, <4>2
    <3> QED
      BY <3>4
  <2>5. CASE d = today + 1 /\ Live(r, l, d) /\ Retained(q, l, kept, d)
    BY <1>4, <2>4, <2>5 DEF Live, Retained
  <2>6. CASE d = today + 1 /\ Live(q, l, d) /\ Retained(r, l, kept, d)
    BY <1>4, <2>4, <2>6 DEF Live, Retained
  <2>7. ~(Earlier(d, r) /\ d = today + 1) /\ ~(Earlier(d, q) /\ d = today + 1)
    BY <1>2 DEF Earlier
  <2> QED
    BY <1>2, <2>1, <2>2, <2>3, <2>5, <2>6, <2>7 DEF Then
<1> QED
  BY <1>2, <1>3, <1>4 DEF MasterInv

(* A security known before a day that passed, or now passes, was known.    *)
LEMMA KnownBefore ==
  ASSUME NEW l, NEW kept, NEW announced, Day(l, kept, announced),
         NEW s \in Securities, NEW day \in Nat, day <= today + 1, Known(s, day)'
  PROVE  Known(s, day) /\ listing[s] # None
<1>1. today \in Nat /\ Days \subseteq Nat
      /\ \A d \in Days : d <= today => master'[d] = master[d]
  BY DayFacts
<1>2. PICK d \in Days : d < day /\ \E r \in master'[d] : r.isin[1] = s
  BY DEF Known
<1>3. d <= today
  BY <1>1, <1>2
<1>4. PICK r \in master[d] : r.isin[1] = s
  BY <1>1, <1>2, <1>3
<1>5. listing[s] # None
  BY <1>4 DEF Day, NamesInv, MasterInv
<1> QED
  BY <1>2, <1>4, <1>5 DEF Known

(* Where a security moved to it came by a change of that day.              *)
LEMMA MovedBy ==
  ASSUME NEW l, NEW kept, NEW announced, Day(l, kept, announced),
         NEW s \in Securities, listing[s] # None
  PROVE  l[s] = listing[s] \/ (Taken(l, s) /\ ChangeOf(l, s) \in announced)
BY MoveKeeps DEF Day

LEMMA NewChange ==
  ASSUME NEW l, NEW kept, NEW announced, Day(l, kept, announced),
         NEW c \in announced, c \notin changes
  PROVE  \E w \in Securities :
           /\ Renamed(l, kept, announced, w) /\ listing[w] # None /\ l[w] # None
           /\ c.old = listing[w].symbol /\ c.new = l[w].symbol /\ c.day = today + 1
           /\ c.new \notin Listed(listing)
<1>1. PICK w \in Securities : Renamed(l, kept, announced, w) /\ c = ChangeOf(l, w)
  BY MoveKeeps DEF Day
<1> QED
  BY <1>1 DEF ChangeOf, Renamed, Taken

LEMMA BackKept ==
  ASSUME NEW l, NEW kept, NEW announced, Day(l, kept, announced)
  PROVE  BackByChange' /\ BackByThen'
<1>1. NamesInv /\ ListedInv /\ BackByChange /\ BackByThen /\ changes \subseteq announced
  BY MoveKeeps DEF Day, NamesInv
<1>2. /\ today \in Nat /\ today' = today + 1 /\ Days \subseteq Nat
      /\ listing' = l /\ changes' = announced
      /\ \A d \in Days : \A r \in master'[d] : Earlier(d, r) \/ Then(d, r, l, kept)
  BY DayFacts
<1>3. /\ \A c \in announced : c.day \in Nat /\ c.day <= today + 1 /\ c.old # c.new
      /\ \A c \in changes : c.day \in Nat /\ c.day <= today
  BY <1>1, DayLists DEF ListedInv
<1>4. ASSUME NEW c \in announced, NEW s \in Securities, Holds(s, c.old)', Known(s, c.day)'
      PROVE  \E b \in announced : b.new = c.old /\ b.day > c.day
  <2>1. l[s] # None /\ l[s].symbol = c.old /\ Known(s, c.day) /\ listing[s] # None
    <3>1. Known(s, c.day) /\ listing[s] # None
      BY <1>3, <1>4, KnownBefore
    <3> QED
      BY <1>2, <1>4, <3>1 DEF Holds
  <2>2. CASE c \in changes /\ l[s] = listing[s]
    <3>1. Holds(s, c.old)
      BY <2>1, <2>2 DEF Holds
    <3> QED
      BY <1>1, <2>1, <2>2, <3>1 DEF BackByChange
  <2>3. CASE c \in changes /\ ChangeOf(l, s) \in announced
    <3>1. ChangeOf(l, s).new = c.old /\ ChangeOf(l, s).day > c.day
      BY <1>2, <1>3, <2>1, <2>3 DEF ChangeOf
    <3> QED
      BY <2>3, <3>1
  <2>4. CASE c \notin changes
    <3>1. PICK w \in Securities :
            /\ Renamed(l, kept, announced, w) /\ listing[w] # None /\ l[w] # None
            /\ c.old = listing[w].symbol /\ c.new = l[w].symbol
      BY <2>4, NewChange
    <3>2. s # w
      BY <1>3, <2>1, <3>1
    <3>3. l[s] = listing[s]
      BY <3>1, <3>2 DEF Renamed, Taken, Others
    <3>4. Holds(s, c.old) /\ Holds(w, c.old)
      BY <2>1, <3>1, <3>3 DEF Holds
    <3> QED
      BY <1>1, <3>2, <3>4 DEF ListedInv
  <2> QED
    BY <2>1, <2>2, <2>3, <2>4, MovedBy
<1>5. ASSUME NEW c \in announced, NEW d \in Days, NEW r \in master'[d],
             r.live, c.day <= d, r.symbol = c.old, Known(r.isin[1], c.day)'
      PROVE  \E b \in announced : b.new = c.old /\ c.day < b.day /\ b.day <= d
  <2>1. CASE Earlier(d, r)
    <3>1. c \in changes
      <4>1. c.day <= today
        BY <1>2, <1>3, <1>5, <2>1 DEF Earlier
      <4> QED
        BY <1>2, <1>3, <4>1, NewChange
    <3>2. r \in master[d] /\ r.isin[1] \in Securities
      BY <2>1 DEF Earlier, Day, NamesInv, ExchangeInv, Own
    <3>3. Known(r.isin[1], c.day)
      BY <1>3, <1>5, <3>2, KnownBefore
    <3> QED
      BY <1>1, <1>5, <3>1, <3>2, <3>3 DEF BackByThen
  <2>2. CASE d = today + 1 /\ Live(r, l, d)
    <3>1. PICK s \in Securities : l[s] # None /\ r.symbol = l[s].symbol /\ r.isin = l[s].isin
      BY <2>2 DEF Live
    <3>2. r.isin[1] = s
      BY <3>1, DayLists
    <3>3. Holds(s, c.old)' /\ Known(s, c.day)'
      BY <1>2, <1>5, <3>1, <3>2 DEF Holds
    <3>4. PICK b \in announced : b.new = c.old /\ b.day > c.day
      BY <1>4, <3>3
    <3>5. c.day < b.day /\ b.day <= d
      BY <1>2, <1>3, <2>2, <3>4
    <3> QED
      BY <3>4, <3>5
  <2>3. CASE Retained(r, l, kept, d)
    BY <1>5, <2>3 DEF Retained
  <2> QED
    BY <1>2, <2>1, <2>2, <2>3 DEF Then
<1>6. BackByChange'
  BY <1>2, <1>4 DEF BackByChange
<1>7. BackByThen'
  BY <1>2, <1>5 DEF BackByThen
<1> QED
  BY <1>6, <1>7

LEMMA FreeKept ==
  ASSUME NEW l, NEW kept, NEW announced, Day(l, kept, announced)
  PROVE  HeldOrGivenUp' /\ TakenWhenFree'
<1>1. NamesInv /\ ListedInv /\ HeldOrGivenUp /\ TakenWhenFree /\ changes \subseteq announced
  BY MoveKeeps DEF Day, NamesInv
<1>2. /\ today \in Nat /\ today' = today + 1 /\ Days \subseteq Nat
      /\ listing' = l /\ changes' = announced
      /\ \A d \in Days : \A r \in master'[d] : Earlier(d, r) \/ Then(d, r, l, kept)
  BY DayFacts
<1>3. /\ \A c \in announced : c.day \in Nat /\ c.day <= today + 1
      /\ \A c \in changes : c.day \in Nat /\ c.day <= today
  BY <1>1, DayLists DEF ListedInv
<1>4. ASSUME NEW d \in Days, NEW r \in master'[d], r.live
      PROVE  \/ \E s \in Securities : l[s] # None /\ l[s].symbol = r.symbol
             \/ \E c \in announced : c.old = r.symbol /\ c.day > d
  <2>1. CASE Earlier(d, r)
    <3>1. \/ \E s \in Securities : Holds(s, r.symbol)
          \/ \E c \in changes : c.old = r.symbol /\ c.day > d
      BY <1>1, <1>4, <2>1 DEF HeldOrGivenUp, Earlier
    <3>2. ASSUME NEW s \in Securities, Holds(s, r.symbol), l[s] # listing[s]
          PROVE  \E c \in announced : c.old = r.symbol /\ c.day > d
      <4>1. ChangeOf(l, s) \in announced
        BY <3>2, MovedBy DEF Holds
      <4>2. ChangeOf(l, s).old = r.symbol /\ ChangeOf(l, s).day > d
        BY <1>2, <2>1, <3>2 DEF ChangeOf, Holds, Earlier
      <4> QED
        BY <4>1, <4>2
    <3> QED
      BY <1>1, <3>1, <3>2 DEF Holds
  <2>2. CASE Live(r, l, d)
    BY <2>2 DEF Live
  <2>3. CASE Retained(r, l, kept, d)
    BY <1>4, <2>3 DEF Retained
  <2> QED
    BY <1>2, <2>1, <2>2, <2>3 DEF Then
<1>5. ASSUME NEW c \in announced, NEW d \in Days, NEW r \in master'[d],
             r.live, r.symbol = c.new, c.day > d
      PROVE  \E b \in announced : b.old = c.new /\ d < b.day /\ b.day <= c.day
  <2>1. Earlier(d, r)
    BY <1>2, <1>3, <1>5 DEF Then
  <2>2. CASE c \in changes
    BY <1>1, <1>5, <2>1, <2>2 DEF TakenWhenFree, Earlier
  <2>3. CASE c \notin changes
    <3>1. c.day = today + 1 /\ c.new \notin Listed(listing)
      BY <2>3, NewChange
    <3>2. ~ \E s \in Securities : Holds(s, r.symbol)
      BY <1>5, <3>1, ListedIs DEF Holds
    <3>3. PICK b \in changes : b.old = r.symbol /\ b.day > d
      BY <1>1, <1>5, <2>1, <3>2 DEF HeldOrGivenUp, Earlier
    <3>4. b.day <= c.day /\ d < b.day
      BY <1>2, <1>3, <3>1, <3>3
    <3> QED
      BY <1>1, <1>5, <3>3, <3>4
  <2> QED
    BY <2>2, <2>3
<1>6. HeldOrGivenUp'
  BY <1>2, <1>4 DEF HeldOrGivenUp, Holds
<1>7. TakenWhenFree'
  BY <1>2, <1>5 DEF TakenWhenFree
<1> QED
  BY <1>6, <1>7

LEMMA HolderKept ==
  ASSUME NEW l, NEW kept, NEW announced, Day(l, kept, announced)
  PROVE  FirstHolder' /\ OneSecurity'
<1>1. NamesInv /\ ListedInv /\ FirstHolder /\ OneSecurity /\ ExchangeInv /\ changes \subseteq announced
  BY MoveKeeps DEF Day, NamesInv
<1>2. /\ today \in Nat /\ today' = today + 1 /\ Days \subseteq Nat
      /\ listing' = l /\ changes' = announced
      /\ \A d \in Days : \A r \in master'[d] : Earlier(d, r) \/ Then(d, r, l, kept)
  BY DayFacts
<1>3. /\ \A c \in announced : c.day \in Nat /\ c.day <= today + 1
      /\ \A c \in changes : c.day \in Nat /\ c.day <= today
  BY <1>1, DayLists DEF ListedInv
<1>4. ASSUME NEW d \in Days, NEW r \in master'[d], ~ \E c \in announced : c.old = r.symbol
      PROVE  /\ r.isin[1] \in Securities /\ l[r.isin[1]] # None /\ l[r.isin[1]].symbol = r.symbol
  <2>1. CASE Earlier(d, r)
    <3>1. PICK s \in Securities : s = r.isin[1]
      BY <1>1, <2>1 DEF Earlier, ExchangeInv, Own
    <3>2. Holds(s, r.symbol)
      BY <1>1, <1>4, <2>1, <3>1 DEF FirstHolder, Earlier, GivenUp
    <3>3. l[s] = listing[s]
      <4>1. ASSUME ChangeOf(l, s) \in announced PROVE FALSE
        BY <1>4, <3>2, <4>1 DEF ChangeOf, Holds
      <4> QED
        BY <3>2, <4>1, MovedBy DEF Holds
    <3> QED
      BY <3>1, <3>2, <3>3 DEF Holds
  <2>2. CASE Live(r, l, d)
    <3>1. PICK s \in Securities : l[s] # None /\ r.symbol = l[s].symbol /\ r.isin = l[s].isin
      BY <2>2 DEF Live
    <3> QED
      BY <3>1, DayLists
  <2>3. CASE Retained(r, l, kept, d)
    <3>1. PICK k \in kept : r.symbol = k.symbol
      BY <2>3 DEF Retained
    <3> QED
      BY <1>4, <3>1, DayLists
  <2> QED
    BY <1>2, <2>1, <2>2, <2>3 DEF Then
<1>5. ASSUME NEW c \in announced, \A b \in announced : b.old = c.old => b = c,
             ~ \E b \in announced : b.old = c.new
      PROVE  \E w \in Securities :
               /\ l[w] # None /\ l[w].symbol = c.new
               /\ \A d \in Days : \A r \in master'[d] :
                    \/ d < c.day /\ r.symbol = c.old
                    \/ d >= c.day /\ r.symbol = c.new
                    => r.isin[1] = w
  <2>1. ASSUME NEW w \in Securities, l[w] # None, l[w].symbol = c.new,
               NEW d \in Days, NEW r \in master'[d], r.symbol = c.new
        PROVE  r.isin[1] = w
    <3>1. ~ \E b \in announced : b.old = r.symbol
      BY <1>5, <2>1
    <3>2. /\ r.isin[1] \in Securities /\ l[r.isin[1]] # None /\ l[r.isin[1]].symbol = r.symbol
      BY <1>4, <3>1
    <3> QED
      BY <2>1, <3>2, DayLists
  <2>2. CASE c \in changes
    <3>1. Once(c)
      BY <1>1, <1>5, <2>2 DEF Once, GivenUp
    <3>2. PICK w \in Securities : Leads(c, w)
      BY <1>1, <2>2, <3>1 DEF OneSecurity
    <3>3. l[w] = listing[w]
      <4>1. ASSUME ChangeOf(l, w) \in announced PROVE FALSE
        BY <1>5, <3>2, <4>1 DEF ChangeOf, Leads, Holds
      <4> QED
        BY <3>2, <4>1, MovedBy DEF Leads, Holds
    <3>4. l[w] # None /\ l[w].symbol = c.new
      BY <3>2, <3>3 DEF Leads, Holds
    <3>5. ASSUME NEW d \in Days, NEW r \in master'[d], d < c.day, r.symbol = c.old
          PROVE  r.isin[1] = w
      <4>1. d <= today
        BY <1>2, <1>3, <2>2, <3>5
      <4>2. r \in master[d]
        BY <1>2, <4>1, DayFacts
      <4> QED
        BY <3>2, <3>5, <4>2 DEF Leads
    <3> QED
      BY <2>1, <3>4, <3>5
  <2>3. CASE c \notin changes
    <3>1. PICK w \in Securities :
            /\ listing[w] # None /\ l[w] # None
            /\ c.old = listing[w].symbol /\ c.new = l[w].symbol /\ c.day = today + 1
      BY <2>3, NewChange
    <3>2. ASSUME NEW d \in Days, NEW r \in master'[d], d < c.day, r.symbol = c.old
          PROVE  r.isin[1] = w
      <4>1. d <= today
        BY <1>2, <3>1, <3>2
      <4>2. r \in master[d] /\ r.isin[1] \in Securities
        <5>1. r \in master[d]
          BY <1>2, <4>1, DayFacts
        <5> QED
          BY <1>1, <5>1 DEF ExchangeInv, Own
      <4>3. ~ GivenUp(c.old)
        BY <1>1, <1>5, <2>3 DEF GivenUp
      <4>4. Holds(r.isin[1], c.old) /\ Holds(w, c.old)
        BY <1>1, <3>1, <3>2, <4>2, <4>3 DEF FirstHolder, Holds
      <4> QED
        BY <1>1, <4>2, <4>4 DEF ListedInv
    <3> QED
      BY <2>1, <3>1, <3>2
  <2> QED
    BY <2>2, <2>3
<1>6. FirstHolder'
  BY <1>2, <1>4 DEF FirstHolder, GivenUp, Holds
<1>7. ASSUME NEW c \in changes', Once(c)' PROVE \E w \in Securities : Leads(c, w)'
  <2>1. /\ c \in announced /\ \A b \in announced : b.old = c.old => b = c
        /\ ~ \E b \in announced : b.old = c.new
    BY <1>2, <1>7 DEF Once, GivenUp
  <2>2. PICK w \in Securities :
               /\ l[w] # None /\ l[w].symbol = c.new
               /\ \A d \in Days : \A r \in master'[d] :
                    \/ d < c.day /\ r.symbol = c.old
                    \/ d >= c.day /\ r.symbol = c.new
                    => r.isin[1] = w
    BY <1>5, <2>1
  <2> QED
    BY <1>2, <2>2 DEF Leads, Holds
<1>8. OneSecurity'
  BY <1>7 DEF OneSecurity
<1> QED
  BY <1>6, <1>8

LEMMA NamesStep == ASSUME NamesInv, [Next]_vars PROVE NamesInv'
<1>1. ASSUME Exchange PROVE NamesInv'
  <2>1. PICK l, kept, announced : NextDay(l, kept, announced) /\ Move(l, kept, announced)
    BY <1>1, ExchangeMoves DEF NamesInv
  <2>2. Day(l, kept, announced)
    BY <2>1 DEF Day
  <2>3. ExchangeInv'
    BY <2>1, ExchangeKeeps DEF NamesInv, Move
  <2> QED
    BY <2>2, <2>3, ListedKept, MasterKept, BackKept, FreeKept, HolderKept DEF NamesInv
<1>2. ASSUME UNCHANGED exchangeVars PROVE NamesInv'
  <2>1. UNCHANGED <<today, listing, retained, master, changes>>
    BY <1>2 DEF exchangeVars
  <2>2. /\ \A s, x : Holds(s, x)' <=> Holds(s, x)
        /\ \A x : GivenUp(x)' <=> GivenUp(x)
        /\ \A s, day : Known(s, day)' <=> Known(s, day)
    BY <2>1 DEF Holds, GivenUp, Known
  <2>3. ExchangeInv' /\ ListedInv' /\ MasterInv'
    BY <2>1, <2>2 DEF NamesInv, ExchangeInv, ListedInv, MasterInv, Own
  <2>4. BackByChange' /\ BackByThen' /\ HeldOrGivenUp' /\ TakenWhenFree'
    BY <2>1, <2>2 DEF NamesInv, BackByChange, BackByThen, HeldOrGivenUp, TakenWhenFree
  <2>5. FirstHolder' /\ OneSecurity'
    BY <2>1, <2>2 DEF NamesInv, FirstHolder, OneSecurity, Once, Leads
  <2> QED
    BY <2>3, <2>4, <2>5 DEF NamesInv
<1>3. ASSUME ~ Exchange PROVE UNCHANGED exchangeVars
  BY <1>3 DEF Next, vars, StartBuild, ReadCached, Download, Written, SelectUniverse,
              Instrument, Combine, Return, Ingest, Store, Crash
<1> QED
  BY <1>1, <1>2, <1>3

LEMMA InitNames == ASSUME Init PROVE NamesInv
<1>1. /\ today = 1 /\ retained = {} /\ changes = {} /\ ExchangeInv
      /\ \A d \in Days : master[d] = IF d = 1 THEN Published(1, listing, {}) ELSE {}
  BY InitExchange DEF Init
<1>2. ASSUME NEW s \in Securities, listing[s] # None
      PROVE  listing[s] \in ListingRecords /\ listing[s].id[1] = s /\ listing[s].isin[1] = s
  <2>1. PICK t \in Securities, x \in Symbols : listing[s] = Rec(t, 1, x, 1)
    BY <1>2 DEF Init
  <2>2. listing[s] \in ListingRecords
    BY <2>1, RecIs
  <2> QED
    BY <1>1, <1>2, <2>2 DEF Init, ExchangeInv, Own
<1> DEFINE Row(s) == [day |-> 1, live |-> TRUE, deleted |-> FALSE,
                      id |-> listing[s].id, symbol |-> listing[s].symbol, isin |-> listing[s].isin]
<1>3. ASSUME NEW d \in Days, NEW r \in master[d]
      PROVE  d = 1 /\ \E s \in Securities : listing[s] # None /\ r = Row(s)
  <2>1. d = 1 /\ r \in Published(1, listing, {})
    BY <1>1, <1>3
  <2>2. r \in {[day |-> 1, live |-> TRUE, deleted |-> FALSE,
                id |-> x.id, symbol |-> x.symbol, isin |-> x.isin] : x \in LiveRecords(listing)}
    BY <2>1 DEF Published
  <2> QED
    BY <2>1, <2>2 DEF LiveRecords
<1>4. \A s, t \in Securities : \A x : Holds(s, x) /\ Holds(t, x) => s = t
  BY DEF Init, Holds
<1>5. ListedInv
  BY <1>1, <1>2, <1>4 DEF ListedInv
<1>6. ASSUME NEW s \in Securities, listing[s] # None
      PROVE  /\ Row(s).day = 1 /\ Row(s).live = TRUE /\ Row(s).isin[1] = s
             /\ Row(s).symbol = listing[s].symbol
  BY <1>2, <1>6
<1> HIDE DEF Row
<1>7. ASSUME NEW d \in Days, NEW r \in master[d]
      PROVE  \E s \in Securities : /\ listing[s] # None /\ r = Row(s) /\ r.isin[1] = s
                                   /\ d = 1 /\ r.day = 1 /\ r.live = TRUE
                                   /\ r.symbol = listing[s].symbol
  <2>1. PICK s \in Securities : listing[s] # None /\ r = Row(s)
    BY <1>3, <1>7
  <2>2. d = 1 /\ Row(s).day = 1 /\ Row(s).live = TRUE /\ Row(s).isin[1] = s
        /\ Row(s).symbol = listing[s].symbol
    BY <1>3, <1>6, <1>7, <2>1
  <2> QED
    BY <2>1, <2>2
<1>8. MasterInv
  <2>1. ASSUME NEW d \in Days, NEW r \in master[d], NEW q \in master[d], r.isin[1] = q.isin[1]
        PROVE  r = q
    <3>1. r = Row(r.isin[1]) /\ q = Row(q.isin[1])
      <4>1. PICK s \in Securities : r = Row(s) /\ r.isin[1] = s
        BY <1>7, <2>1
      <4>2. PICK x \in Securities : q = Row(x) /\ q.isin[1] = x
        BY <1>7, <2>1
      <4> QED
        BY <4>1, <4>2
    <3> QED
      BY <2>1, <3>1
  <2>2. ASSUME NEW d \in Days, NEW r \in master[d]
        PROVE  d <= today /\ r.day = d /\ listing[r.isin[1]] # None /\ r.live = TRUE
    <3>1. PICK s \in Securities : /\ listing[s] # None /\ r.isin[1] = s
                                  /\ d = 1 /\ r.day = 1 /\ r.live = TRUE
      BY <1>7, <2>2
    <3> QED
      BY <1>1, <3>1
  <2> QED
    BY <2>1, <2>2 DEF MasterInv
<1>9. BackByChange /\ BackByThen /\ TakenWhenFree /\ OneSecurity
  BY <1>1 DEF BackByChange, BackByThen, TakenWhenFree, OneSecurity
<1>10. ASSUME NEW d \in Days, NEW r \in master[d]
       PROVE  r.isin[1] \in Securities /\ Holds(r.isin[1], r.symbol)
  <2>1. PICK s \in Securities : listing[s] # None /\ r.isin[1] = s /\ r.symbol = listing[s].symbol
    BY <1>7, <1>10
  <2> QED
    BY <2>1 DEF Holds
<1>11. FirstHolder /\ HeldOrGivenUp
  BY <1>10 DEF FirstHolder, HeldOrGivenUp
<1> QED
  BY <1>1, <1>5, <1>8, <1>9, <1>11 DEF NamesInv

-----------------------------------------------------------------------------
(* What a lineage shows                                                    *)

(* The evidence corroborating a change: the old symbol before it, the new  *)
(* one since, and the new one never before.                                *)
Shown(t, evidence, before, after) ==
  /\ before \in evidence /\ before.symbol = t.old /\ before.day < t.day
  /\ after \in evidence /\ after.symbol = t.new /\ after.day >= t.day
Unseen(t, evidence) == \A e \in evidence : e.symbol = t.new => ~(e.day < t.day)

LEMMA ResolutionShows ==
  ASSUME NEW t, t.day \in Int, NEW evidence, \A e \in evidence : e.day \in Int,
         Corroborated(t, evidence)
  PROVE  /\ Shown(t, evidence, Resolution(t, evidence).before, Resolution(t, evidence).after)
         /\ Unseen(t, evidence)
<1> DEFINE old == Under(t.old, EvidenceFor(t, evidence))
           new == Under(t.new, EvidenceFor(t, evidence))
           latest   == LatestOf(Before(t, old))
           earliest == EarliestOf(Since(t, new))
<1>1. Before(t, new) = {} /\ Cardinality(latest) = 1 /\ Cardinality(earliest) = 1
  BY DEF Corroborated
<1>2. latest # {} /\ earliest # {}
  <2> HIDE DEF latest, earliest
  <2> QED
    BY <1>1, FS_EmptySet
<1>3. /\ Resolution(t, evidence).before = (CHOOSE e \in latest : TRUE)
      /\ Resolution(t, evidence).after = (CHOOSE e \in earliest : TRUE)
  BY DEF Resolution
<1>4. Resolution(t, evidence).before \in latest /\ Resolution(t, evidence).after \in earliest
  <2> HIDE DEF latest, earliest
  <2> QED
    BY <1>2, <1>3
<1>5. /\ \A e \in latest : e \in evidence /\ e.symbol = t.old /\ e.day < t.day
      /\ \A e \in earliest : e \in evidence /\ e.symbol = t.new /\ e.day >= t.day
  BY DEF LatestOf, EarliestOf, Before, Since, Under, EvidenceFor
<1>6. Unseen(t, evidence)
  <2>1. ASSUME NEW e \in evidence, e.symbol = t.new, e.day < t.day PROVE FALSE
    <3>1. e \in EvidenceFor(t, evidence)
      BY <2>1 DEF EvidenceFor
    <3>2. e \in Before(t, new)
      BY <2>1, <3>1 DEF Before, Under
    <3> QED
      BY <1>1, <3>2
  <2> QED
    BY <2>1 DEF Unseen
<1> QED
  BY <1>4, <1>5, <1>6 DEF Shown

(* An identity under another symbol is in force by a change that names     *)
(* both, on the other side of it than the identity asked for, and every    *)
(* change that names that one is corroborated.                             *)
LEMMA InForceIs ==
  ASSUME NEW identity, NEW asOf \in Int, NEW transitions, \A t \in transitions : t.day \in Int,
         NEW evidence, \A e \in evidence : e.day \in Int,
         NEW i \in InForce(Lineage(identity, asOf, transitions, evidence), asOf),
         i.symbol # identity.symbol
  PROVE  /\ \A t \in transitions : identity.symbol \in {t.old, t.new} => Corroborated(t, evidence)
         /\ \E t \in transitions : \E before, after \in evidence :
              /\ Shown(t, evidence, before, after)
              /\ \/ i = Identity(before) /\ identity = Identity(after) /\ asOf < t.day
                 \/ i = Identity(after) /\ identity = Identity(before) /\ t.day <= asOf
<1> DEFINE matching == {t \in transitions : identity.symbol \in {t.old, t.new}}
           relevant == {r \in {Resolution(t, evidence) : t \in matching} :
                          identity \in {Identity(r.before), Identity(r.after)}}
           joined   == UNION {Intervals(r) : r \in relevant}
<1>1. PICK j \in Lineage(identity, asOf, transitions, evidence) :
        i = j.identity /\ j.from <= asOf /\ (j.to = None \/ asOf <= j.to)
  BY DEF InForce
<1>2. matching # {}
  <2>1. SUFFICES ASSUME matching = {} PROVE FALSE
    OBVIOUS
  <2>2. Lineage(identity, asOf, transitions, evidence) = {Interval(identity, asOf, None)}
    BY <2>1 DEF Lineage
  <2> QED
    BY <1>1, <2>2 DEF Interval
<1>3. j \in joined /\ \A t \in matching : Corroborated(t, evidence)
  <2> DEFINE ok == (\A t \in matching : Corroborated(t, evidence)) /\ Chronological(joined)
  <2>1. Lineage(identity, asOf, transitions, evidence) = IF ok THEN joined ELSE {}
    BY <1>2 DEF Lineage
  <2> HIDE DEF joined, matching, ok
  <2>2. ok /\ j \in joined
    BY <1>1, <2>1
  <2> QED
    BY <2>2 DEF ok
<1>4. PICK t \in matching : /\ j \in Intervals(Resolution(t, evidence))
                           /\ identity \in {Identity(Resolution(t, evidence).before),
                                            Identity(Resolution(t, evidence).after)}
  BY <1>3
<1>5. PICK before, after : /\ before = Resolution(t, evidence).before
                           /\ after = Resolution(t, evidence).after
  OBVIOUS
<1>6. Shown(t, evidence, before, after) /\ t \in transitions /\ t.day \in Int
  BY <1>3, <1>4, <1>5, ResolutionShows
<1>7. \/ j = Interval(Identity(before), before.day, t.day - 1)
      \/ j = Interval(Identity(after), t.day, None)
  BY <1>4, <1>5 DEF Intervals, Resolution
<1>8. identity = Identity(before) \/ identity = Identity(after)
  BY <1>4, <1>5
<1>9. CASE j = Interval(Identity(before), before.day, t.day - 1)
  <2>1. i = Identity(before) /\ j.to = t.day - 1
    BY <1>1, <1>9 DEF Interval
  <2>2. j.to # None /\ asOf < t.day
    BY <1>1, <1>6, <2>1, LineageAssumption
  <2>3. identity = Identity(after)
    BY <1>8, <2>1
  <2> QED
    BY <1>3, <1>6, <2>1, <2>2, <2>3 DEF Shown
<1>10. CASE j = Interval(Identity(after), t.day, None)
  <2>1. i = Identity(after) /\ j.from = t.day
    BY <1>1, <1>10 DEF Interval
  <2>2. t.day <= asOf /\ identity = Identity(before)
    BY <1>1, <1>8, <2>1
  <2> QED
    BY <1>3, <1>6, <2>1, <2>2 DEF Shown
<1> QED
  BY <1>7, <1>9, <1>10

(* The symbol another identity resolves to is that of one in force, which  *)
(* the provider lists by its ISIN.                                         *)
LEMMA ResolveIs ==
  ASSUME NEW identity, NEW asOf, NEW mapper, NEW transitions, NEW evidence, NEW symbol,
         symbol = Resolve(identity, asOf, mapper, transitions, evidence), symbol # None
  PROVE  \/ symbol = identity.symbol /\ mapper[symbol] = identity.isin
         \/ \E i \in InForce(Lineage(identity, asOf, transitions, evidence), asOf) :
              /\ i.symbol = symbol /\ symbol # identity.symbol
              /\ mapper[symbol] = i.isin
<1> DEFINE current == InForce(Lineage(identity, asOf, transitions, evidence), asOf)
           mapped  == {i \in current : /\ i.symbol \in DOMAIN mapper
                                       /\ mapper[i.symbol] = i.isin}
<1>1. CASE identity.symbol \in DOMAIN mapper
  BY <1>1 DEF Resolve
<1>2. CASE identity.symbol \notin DOMAIN mapper
  <2>1. symbol = IF evidence = {} \/ mapped = {} THEN None ELSE (CHOOSE i \in mapped : TRUE).symbol
    BY <1>2 DEF Resolve
  <2>2. PICK i \in mapped : symbol = i.symbol
    <3> HIDE DEF mapped
    <3> QED
      BY <2>1
  <2> QED
    BY <1>2, <2>2
<1> QED
  BY <1>1, <1>2

(* What ResolvedIsTheSecurity says of one record and the symbol it         *)
(* resolves to.                                                            *)
Again(pit, symbol, asOf) ==
  \E c, again \in changes :
    /\ c.old = pit.symbol /\ c.new = symbol /\ c.day <= asOf
    /\ again # c /\ again.old \in {c.old, c.new}
RightOrAgain(pit, symbol, isin, asOf) ==
  isin[1] = pit.isin[1] \/ (~pit.live /\ Again(pit, symbol, asOf))

(* A record under an announced new symbol before it was announced: the     *)
(* symbol was given up in between, and the evidence of that is missing.    *)
LEMMA NotAhead ==
  ASSUME NamesInv, NEW t \in changes, NEW evidence, \A e \in evidence : e.day \in Int,
         NEW asOf \in Days, NEW pit \in master[asOf], asOf < t.day, pit.symbol = t.new,
         \A c \in changes : pit.symbol \in {c.old, c.new} => Corroborated(c, evidence)
  PROVE  FALSE
<1>1. \A c \in changes : c.day \in Nat
  BY DEF NamesInv, ListedInv
<1>2. \E b \in changes : b.old = t.new /\ b.day <= t.day
  <2>1. CASE pit.live
    BY <2>1 DEF NamesInv, TakenWhenFree
  <2>2. CASE ~pit.live
    <3>1. asOf \in Nat
      BY HistoryAssumption DEF Days
    <3>2. PICK b \in changes : b.old = pit.symbol /\ b.day <= asOf
      BY <2>2 DEF NamesInv, MasterInv
    <3>3. b.day <= t.day
      BY <1>1, <3>1, <3>2
    <3> QED
      BY <3>2, <3>3
  <2> QED
    BY <2>1, <2>2
<1>3. PICK b \in changes : b.old = t.new /\ b.day <= t.day
  BY <1>2
<1>4. Corroborated(b, evidence) /\ Corroborated(t, evidence)
  BY <1>3
<1>5. PICK e \in evidence : e.symbol = t.new /\ e.day < b.day
  BY <1>1, <1>3, <1>4, ResolutionShows DEF Shown
<1>6. Unseen(t, evidence)
  BY <1>1, <1>4, ResolutionShows
<1>7. e.day < t.day
  BY <1>1, <1>3, <1>5
<1> QED
  BY <1>5, <1>6, <1>7 DEF Unseen

(* A record traded under the old symbol by who was known before the change *)
(* came back to it: by a later change, which the evidence refutes.         *)
LEMMA NotBack ==
  ASSUME NamesInv, NEW t \in changes, NEW evidence, \A e \in evidence : e.day \in Int,
         NEW asOf \in Days, NEW pit \in master[asOf], t.day <= asOf, pit.symbol = t.old,
         pit.live, Known(pit.isin[1], t.day),
         NEW before \in evidence, before.symbol = t.old, before.day < t.day,
         \A c \in changes : pit.symbol \in {c.old, c.new} => Corroborated(c, evidence)
  PROVE  FALSE
<1>1. \A c \in changes : c.day \in Nat
  BY DEF NamesInv, ListedInv
<1>2. PICK b \in changes : b.new = t.old /\ t.day < b.day
  BY DEF NamesInv, BackByThen
<1>3. Unseen(b, evidence)
  BY <1>1, <1>2, ResolutionShows
<1>4. before.day < b.day
  BY <1>1, <1>2
<1> QED
  BY <1>2, <1>3, <1>4 DEF Unseen

LEMMA ResolvedRight ==
  ASSUME NamesInv, NEW asOf \in Days, NEW pit \in master[asOf], NEW archived \in SUBSET Days,
         NEW mapper, NEW symbol, symbol # None,
         symbol = Resolve(Identity(pit), asOf, mapper, changes, Archive(archived))
  PROVE  RightOrAgain(pit, symbol, mapper[symbol], asOf)
<1> DEFINE evidence == Archive(archived)
           identity == Identity(pit)
<1>1. identity.symbol = pit.symbol /\ identity.isin = pit.isin
  BY DEF Identity
<1>2. /\ asOf \in Int /\ \A c \in changes : c.day \in Int /\ c.old # c.new
      /\ Days \subseteq Int
  BY HistoryAssumption DEF Days, NamesInv, ListedInv
<1>3. \A e \in evidence : e.day \in Days /\ e \in master[e.day]
  BY DEF Archive, NamesInv, MasterInv
<1>4. \A e \in evidence : e.day \in Int
  BY <1>2, <1>3
<1>5. CASE symbol = identity.symbol /\ mapper[symbol] = identity.isin
  BY <1>1, <1>5 DEF RightOrAgain
<1>6. ASSUME NEW i \in InForce(Lineage(identity, asOf, changes, evidence), asOf),
             i.symbol = symbol, symbol # identity.symbol, mapper[symbol] = i.isin
      PROVE  RightOrAgain(pit, symbol, mapper[symbol], asOf)
  <2> HIDE DEF evidence, identity
  <2>1. /\ \A t \in changes : identity.symbol \in {t.old, t.new} => Corroborated(t, evidence)
        /\ \E t \in changes : \E before, after \in evidence :
             /\ Shown(t, evidence, before, after)
             /\ \/ i = Identity(before) /\ identity = Identity(after) /\ asOf < t.day
                \/ i = Identity(after) /\ identity = Identity(before) /\ t.day <= asOf
    BY <1>2, <1>4, <1>6, InForceIs
  <2>2. PICK t \in changes : \E before, after \in evidence :
             /\ Shown(t, evidence, before, after)
             /\ \/ i = Identity(before) /\ identity = Identity(after) /\ asOf < t.day
                \/ i = Identity(after) /\ identity = Identity(before) /\ t.day <= asOf
    BY <2>1
  <2>3. PICK before \in evidence, after \in evidence :
             /\ Shown(t, evidence, before, after)
             /\ \/ i = Identity(before) /\ identity = Identity(after) /\ asOf < t.day
                \/ i = Identity(after) /\ identity = Identity(before) /\ t.day <= asOf
    BY <2>2
  <2>4. \A c \in changes : pit.symbol \in {c.old, c.new} => Corroborated(c, evidence)
    BY <1>1, <2>1
  <2>5. /\ before.symbol = t.old /\ before.day < t.day /\ before \in master[before.day]
        /\ after.symbol = t.new /\ after.day >= t.day /\ after \in master[after.day]
        /\ before.day \in Days /\ after.day \in Days
    BY <1>3, <2>3 DEF Shown
  <2>6. CASE i = Identity(before) /\ identity = Identity(after) /\ asOf < t.day
    <3>1. pit.symbol = t.new
      BY <1>1, <2>5, <2>6 DEF Identity
    <3> QED
      BY <1>4, <2>4, <2>6, <3>1, NotAhead
  <2>7. CASE i = Identity(after) /\ identity = Identity(before) /\ t.day <= asOf
    <3>1. /\ pit.symbol = t.old /\ pit.isin = before.isin
          /\ symbol = t.new /\ mapper[symbol] = after.isin
      BY <1>1, <1>6, <2>5, <2>7 DEF Identity
    <3>2. ~ pit.live
      <4>1. SUFFICES ASSUME pit.live PROVE FALSE
        BY DEF NamesInv, MasterInv
      <4>2. Known(pit.isin[1], t.day)
        BY <2>5, <3>1 DEF Known
      <4> QED
        BY <1>4, <2>4, <2>5, <2>7, <3>1, <4>1, <4>2, NotBack
    <3>3. CASE Once(t)
      <4>1. PICK w \in Securities : Leads(t, w)
        BY <3>3 DEF NamesInv, OneSecurity
      <4>2. before.isin[1] = w /\ after.isin[1] = w
        BY <2>5, <4>1 DEF Leads
      <4> QED
        BY <3>1, <4>2 DEF RightOrAgain
    <3>4. CASE ~ Once(t)
      <4>1. PICK again \in changes : again # t /\ again.old \in {t.old, t.new}
        BY <1>2, <3>4 DEF Once, GivenUp
      <4>2. Again(pit, symbol, asOf)
        BY <2>7, <3>1, <4>1 DEF Again
      <4> QED
        BY <3>2, <4>2 DEF RightOrAgain
    <3> QED
      BY <3>3, <3>4
  <2> QED
    BY <2>3, <2>6, <2>7
<1>7. \/ symbol = identity.symbol /\ mapper[symbol] = identity.isin
      \/ \E i \in InForce(Lineage(identity, asOf, changes, evidence), asOf) :
           /\ i.symbol = symbol /\ symbol # identity.symbol
           /\ mapper[symbol] = i.isin
  <2> HIDE DEF evidence, identity
  <2>1. symbol = Resolve(identity, asOf, mapper, changes, evidence)
    BY DEF evidence, identity
  <2> QED
    BY <2>1, ResolveIs
<1> QED
  BY <1>5, <1>6, <1>7

-----------------------------------------------------------------------------
(* What becomes of every instrument                                        *)

BuiltOf(j)   == {i.pit : i \in j.instruments}
Failing(j)   == {f.pit : f \in j.failures}
ToBuild(j)   == {r \in j.universe : \E x \in DOMAIN j.mapper : j.mapper[x] = r.isin}
Right(i, j)  == RightOrAgain(i.pit, i.symbol, j.mapper[i.symbol], j.asOf)
Parted(j) ==
  /\ BuiltOf(j) \cap Failing(j) = {} /\ (BuiltOf(j) \cup Failing(j)) \cap j.pending = {}
  /\ BuiltOf(j) \cup Failing(j) \cup j.pending = ToBuild(j)
OfOneRecord(j) == IsFiniteSet(j.instruments) /\ \A i, k \in j.instruments : i.pit = k.pit => i = k
Twins(j)       == \E i, k \in j.instruments : i # k /\ i.symbol = k.symbol

Begun(j) == j.asOf \in 1..today /\ j.archived \in SUBSET Days /\ EnoughSessions(j.asOf)
Fresh(j) == Begun(j) /\ j.universe = {} /\ j.instruments = {} /\ j.failures = {}
Result(j) ==
  /\ Begun(j) /\ j.universe = PointInTime(j.asOf)
  /\ Parted(j) /\ OfOneRecord(j) /\ \A i \in j.instruments : Right(i, j)

Accounted(j) ==
  /\ j.pc \in {"reading", "writing"} => Fresh(j)
  /\ j.pc \in {"instruments", "built"} => Result(j)
  /\ j.pc = "failed" /\ j.universe # {} => Result(j) /\ (j.instruments = {} \/ Twins(j))
AccountInv == Accounted(job)

BookInv == HistoryInv /\ NamesInv /\ AccountInv

(* While nothing is published, what holds of a job goes on holding of it.  *)
LEMMA AccountedStays ==
  ASSUME UNCHANGED exchangeVars, NEW j, Accounted(j), job' = j
  PROVE  AccountInv'
<1>1. today' = today /\ master' = master /\ changes' = changes
  BY DEF exchangeVars
<1>2. \A id, asOf : TradedBy(id, asOf)' = TradedBy(id, asOf)
  BY <1>1 DEF TradedBy
<1>3. \A asOf : PointInTime(asOf)' = PointInTime(asOf)
  <2>1. ASSUME NEW r, NEW asOf
        PROVE  Enough(r.isin[1], TradedBy(r.id, asOf))' = Enough(r.isin[1], TradedBy(r.id, asOf))
    BY <1>2
  <2> QED
    BY <1>1, <2>1 DEF PointInTime
<1>4. \A i : Right(i, j)' <=> Right(i, j)
  BY <1>1 DEF Right, RightOrAgain, Again
<1>5. Accounted(j)'
  BY <1>1, <1>3, <1>4 DEF Accounted, Fresh, Result, Begun
<1> QED
  BY <1>5 DEF AccountInv

(* A day more leaves what was resolved: changes announced stay.            *)
LEMMA DayKeepsAccount ==
  ASSUME BookInv, NEW l, NEW kept, NEW announced,
         NextDay(l, kept, announced), Move(l, kept, announced)
  PROVE  AccountInv'
<1>1. /\ today' = today + 1 /\ \A asOf \in 1..today : PointInTime(asOf)' = PointInTime(asOf)
      /\ today \in Nat
  BY HistoryAssumption, DayKeeps DEF BookInv, HistoryInv, ExchangeInv, Days
<1>2. changes \subseteq changes' /\ job' = job
  BY MoveKeeps DEF NextDay
<1>3. PICK j : j = job
  OBVIOUS
<1>4. \A i : Right(i, j) => Right(i, j)'
  BY <1>2 DEF Right, RightOrAgain, Again
<1>5. Begun(j) => Begun(j)' /\ PointInTime(j.asOf)' = PointInTime(j.asOf)
  BY <1>1 DEF Begun
<1>6. Accounted(j)
  BY <1>3 DEF BookInv, AccountInv
<1>7. (Result(j) => Result(j)') /\ (Fresh(j) => Fresh(j)')
  BY <1>4, <1>5 DEF Result, Fresh
<1>8. Accounted(j)'
  BY <1>6, <1>7 DEF Accounted
<1> QED
  BY <1>2, <1>3, <1>8 DEF AccountInv

LEMMA AccountElsewhere ==
  ASSUME job'.pc \notin {"reading", "writing", "instruments", "built", "failed"}
  PROVE  AccountInv'
BY DEF AccountInv, Accounted

(* Reading, nothing is accounted for yet, whatever comes of it.            *)
LEMMA FreshKept ==
  ASSUME BookInv, job.pc \in {"reading", "writing"}, UNCHANGED exchangeVars,
         NEW pc \in {"reading", "writing", "failed"}, NEW left, NEW rows,
         job' = [job EXCEPT !.pc = pc, !.left = left, !.rows = rows]
  PROVE  AccountInv'
<1>1. DOMAIN job = JobFields /\ Fresh(job)
  BY DEF BookInv, HistoryInv, BuildInv, AccountInv, Accounted
<1>2. PICK j : j = job'
  OBVIOUS
<1>3. /\ j.pc = pc /\ j.asOf = job.asOf /\ j.archived = job.archived /\ j.universe = job.universe
      /\ j.instruments = job.instruments /\ j.failures = job.failures
  BY <1>1, <1>2 DEF JobFields
<1>4. Accounted(j)
  BY <1>1, <1>3 DEF Accounted, Fresh, Begun
<1> QED
  BY <1>2, <1>4, AccountedStays

LEMMA AccountOpened ==
  ASSUME BookInv, NEW asOf \in 1..today, NEW archived \in Archives, NEW mapped,
         StartBuild(asOf, archived, mapped)
  PROVE  AccountInv'
<1>1. PICK m : m = Mapper(mapped)
  OBVIOUS
<1>2. PICK j : j = [pc |-> "reading", asOf |-> asOf, archived |-> archived, mapper |-> m,
                    left |-> SessionsBefore(asOf), rows |-> {},
                    universe |-> {}, pending |-> {}, instruments |-> {}, failures |-> {}]
  OBVIOUS
<1>3. job' = j /\ UNCHANGED exchangeVars /\ EnoughSessions(asOf)
  BY <1>1, <1>2 DEF StartBuild
<1>4. /\ j.pc = "reading" /\ j.asOf = asOf /\ j.archived = archived
      /\ j.universe = {} /\ j.instruments = {} /\ j.failures = {}
  BY <1>2
<1>5. archived \in SUBSET Days
  BY HistoryAssumption
<1>6. Accounted(j)
  BY <1>3, <1>4, <1>5 DEF Accounted, Fresh, Begun
<1> QED
  BY <1>3, <1>6, AccountedStays

LEMMA AccountSelected == ASSUME BookInv, SelectUniverse PROVE AccountInv'
<1>1. /\ DOMAIN job = JobFields /\ job.asOf \in 1..today /\ job.left = {} /\ Fresh(job)
      /\ job.rows = UNION {Rows(d) : d \in SessionsBefore(job.asOf) \ job.left}
  BY DEF BookInv, HistoryInv, BuildInv, AccountInv, Accounted, SelectUniverse
<1>2. PICK asOf : asOf = job.asOf
  OBVIOUS
<1>3. asOf \in Days
  BY <1>1, <1>2, HistoryAssumption DEF BookInv, HistoryInv, ExchangeInv, Days
<1>4. job.rows = AllRows(asOf)
  BY <1>1, <1>2 DEF AllRows
<1>5. PICK u : u = Selected(master[asOf], asOf, AllRows(asOf))
  OBVIOUS
<1>6. u = PointInTime(asOf)
  BY <1>3, <1>5, SelectedIs DEF BookInv, HistoryInv
<1>7. PICK b : b = {r \in u : \E x \in DOMAIN job.mapper : job.mapper[x] = r.isin}
  OBVIOUS
<1>8. job' = [job EXCEPT !.pc = IF b = {} THEN "failed" ELSE "instruments",
                         !.universe = u, !.pending = b]
  <2>1. u = Selected(master[job.asOf], job.asOf, job.rows)
    BY <1>2, <1>4, <1>5
  <2>2. b = Bridged(u, {job.mapper[x] : x \in DOMAIN job.mapper})
    BY <1>7 DEF Bridged
  <2> QED
    BY <2>1, <2>2 DEF SelectUniverse
<1>9. PICK j : j = job'
  OBVIOUS
<1>10. /\ j.asOf = asOf /\ j.universe = u /\ j.pending = b /\ j.pc \in {"failed", "instruments"}
       /\ j.archived = job.archived /\ j.mapper = job.mapper
       /\ j.instruments = {} /\ j.failures = {}
  BY <1>1, <1>2, <1>8, <1>9 DEF JobFields, Fresh
<1>11. Begun(j)
  BY <1>1, <1>2, <1>10 DEF Fresh, Begun
<1>12. Parted(j) /\ OfOneRecord(j)
  BY <1>7, <1>10, FS_EmptySet DEF Parted, OfOneRecord, BuiltOf, Failing, ToBuild
<1>13. Accounted(j)
  BY <1>6, <1>10, <1>11, <1>12 DEF Accounted, Result
<1> QED
  BY <1>9, <1>13, AccountedStays DEF SelectUniverse

(* An instrument built: its record is accounted for, and resolved rightly. *)
LEMMA OneBuilt ==
  ASSUME NamesInv, NEW j, Result(j), NEW pit \in j.pending, NEW symbol, symbol # None,
         symbol = Resolve(Identity(pit), j.asOf, j.mapper, changes, Archive(j.archived)),
         NEW k, k.asOf = j.asOf, k.archived = j.archived, k.mapper = j.mapper,
         k.universe = j.universe, k.pending = j.pending \ {pit}, k.failures = j.failures,
         k.instruments = j.instruments \cup {[pit |-> pit, symbol |-> symbol]}
  PROVE  Result(k)
<1> DEFINE new == [pit |-> pit, symbol |-> symbol]
<1>1. pit \in ToBuild(j) /\ pit \notin BuiltOf(j) /\ pit \notin Failing(j)
  BY DEF Result, Parted
<1>2. Right(new, j)
  <2>1. j.asOf \in Days /\ j.archived \in SUBSET Days
    BY HistoryAssumption DEF Result, Begun, NamesInv, ExchangeInv, Days
  <2>2. pit \in master[j.asOf]
    BY <1>1 DEF ToBuild, Result, PointInTime
  <2>3. RightOrAgain(pit, symbol, j.mapper[symbol], j.asOf)
    BY <2>1, <2>2, ResolvedRight
  <2> QED
    BY <2>3 DEF Right
<1>3. new.pit = pit
  OBVIOUS
<1> HIDE DEF new
<1>4. BuiltOf(k) = BuiltOf(j) \cup {pit} /\ Failing(k) = Failing(j)
  BY <1>3 DEF BuiltOf, Failing, new
<1>5. Parted(k)
  <2>1. ToBuild(k) = ToBuild(j)
    BY DEF ToBuild
  <2> QED
    BY <1>1, <1>4, <2>1 DEF Result, Parted
<1>6. OfOneRecord(k)
  <2>1. IsFiniteSet(k.instruments)
    <3>1. PICK S : S = j.instruments
      OBVIOUS
    <3>2. IsFiniteSet(S \cup {new})
      BY <3>1, FS_AddElement DEF Result, OfOneRecord
    <3> QED
      BY <3>1, <3>2 DEF new
  <2>2. \A i \in j.instruments : i.pit # pit
    BY <1>1 DEF BuiltOf
  <2>3. k.instruments = j.instruments \cup {new}
    BY DEF new
  <2> QED
    BY <1>3, <2>1, <2>2, <2>3 DEF Result, OfOneRecord
<1>7. \A i : Right(i, k) <=> Right(i, j)
  BY DEF Right
<1> QED
  BY <1>2, <1>5, <1>6, <1>7 DEF Result, Begun, new

LEMMA OneFailed ==
  ASSUME NEW j, Result(j), NEW pit \in j.pending, NEW stage,
         NEW k, k.asOf = j.asOf, k.archived = j.archived, k.mapper = j.mapper,
         k.universe = j.universe, k.pending = j.pending \ {pit}, k.instruments = j.instruments,
         k.failures = j.failures \cup {[pit |-> pit, stage |-> stage]}
  PROVE  Result(k)
<1>1. pit \in ToBuild(j) /\ pit \notin BuiltOf(j) /\ pit \notin Failing(j)
  BY DEF Result, Parted
<1>2. BuiltOf(k) = BuiltOf(j) /\ Failing(k) = Failing(j) \cup {pit}
  <2>1. PICK new : new = [pit |-> pit, stage |-> stage]
    OBVIOUS
  <2>2. new.pit = pit /\ k.failures = j.failures \cup {new}
    BY <2>1
  <2> QED
    BY <2>2 DEF BuiltOf, Failing
<1>3. Parted(k)
  <2>1. ToBuild(k) = ToBuild(j)
    BY DEF ToBuild
  <2> QED
    BY <1>1, <1>2, <2>1 DEF Result, Parted
<1>4. \A i : Right(i, k) <=> Right(i, j)
  BY DEF Right
<1> QED
  BY <1>3, <1>4 DEF Result, Begun, OfOneRecord

LEMMA AccountInstrument ==
  ASSUME BookInv, NEW pit \in job.pending, NEW answer, Instrument(pit, answer)
  PROVE  AccountInv'
<1>1. DOMAIN job = JobFields /\ Result(job) /\ job.pc = "instruments" /\ UNCHANGED exchangeVars
  BY DEF BookInv, HistoryInv, BuildInv, AccountInv, Accounted, Instrument
<1>2. PICK symbol : symbol = Resolved(pit)
  OBVIOUS
<1>3. PICK stage : stage = IF symbol = None THEN "IDENTITY_RESOLUTION" ELSE answer
  OBVIOUS
<1>4. job' = [job EXCEPT !.pending = @ \ {pit},
                  !.failures = IF stage = "built" THEN @ ELSE @ \cup {[pit |-> pit, stage |-> stage]},
                  !.instruments = IF stage = "built" THEN @ \cup {[pit |-> pit, symbol |-> symbol]}
                                  ELSE @]
  BY <1>2, <1>3 DEF Instrument
<1>5. PICK j, k : j = job /\ k = job'
  OBVIOUS
<1>6. /\ k.pc = "instruments" /\ k.asOf = j.asOf /\ k.archived = j.archived
      /\ k.mapper = j.mapper /\ k.universe = j.universe /\ k.pending = j.pending \ {pit}
  BY <1>1, <1>4, <1>5 DEF JobFields
<1>7. CASE stage = "built"
  <2>1. symbol # None /\ k.failures = j.failures
        /\ k.instruments = j.instruments \cup {[pit |-> pit, symbol |-> symbol]}
    BY <1>1, <1>3, <1>4, <1>5, <1>7 DEF JobFields
  <2>2. symbol = Resolve(Identity(pit), j.asOf, j.mapper, changes, Archive(j.archived))
    BY <1>2, <1>5 DEF Resolved
  <2>3. Result(k)
    BY <1>1, <1>5, <1>6, <2>1, <2>2, OneBuilt DEF BookInv
  <2> QED
    BY <1>1, <1>5, <1>6, <2>3, AccountedStays DEF Accounted
<1>8. CASE stage # "built"
  <2>1. /\ k.failures = j.failures \cup {[pit |-> pit, stage |-> stage]}
        /\ k.instruments = j.instruments
    BY <1>1, <1>4, <1>5, <1>8 DEF JobFields
  <2>2. Result(k)
    BY <1>1, <1>5, <1>6, <2>1, OneFailed
  <2> QED
    BY <1>1, <1>5, <1>6, <2>2, AccountedStays DEF Accounted
<1> QED
  BY <1>7, <1>8

LEMMA AccountCombined == ASSUME BookInv, Combine PROVE AccountInv'
<1>1. /\ DOMAIN job = JobFields /\ Result(job) /\ UNCHANGED exchangeVars
      /\ job' = [job EXCEPT !.pc = IF Joinable(job.instruments) THEN "built" ELSE "failed"]
  BY DEF BookInv, HistoryInv, BuildInv, AccountInv, Accounted, Combine
<1>2. PICK j, k : j = job /\ k = job'
  OBVIOUS
<1>3. /\ k.asOf = j.asOf /\ k.archived = j.archived /\ k.mapper = j.mapper
      /\ k.universe = j.universe /\ k.pending = j.pending /\ k.failures = j.failures
      /\ k.instruments = j.instruments
      /\ k.pc = IF Joinable(j.instruments) THEN "built" ELSE "failed"
  BY <1>1, <1>2 DEF JobFields
<1>4. Result(k)
  <2>1. \A i : Right(i, k) <=> Right(i, j)
    BY <1>3 DEF Right
  <2>2. BuiltOf(k) = BuiltOf(j) /\ Failing(k) = Failing(j) /\ ToBuild(k) = ToBuild(j)
    BY <1>3 DEF BuiltOf, Failing, ToBuild
  <2>3. Parted(k) /\ OfOneRecord(k)
    BY <1>1, <1>2, <1>3, <2>2 DEF Result, Parted, OfOneRecord
  <2> QED
    BY <1>1, <1>2, <1>3, <2>1, <2>3 DEF Result, Begun
<1>5. Joinable(j.instruments) \/ k.instruments = {} \/ Twins(k)
  BY <1>3 DEF Joinable, Twins
<1>6. Accounted(k)
  BY <1>3, <1>4, <1>5 DEF Accounted
<1> QED
  BY <1>1, <1>2, <1>6, AccountedStays

LEMMA BookStep == ASSUME BookInv, [Next]_vars PROVE BookInv'
<1>1. HistoryInv' /\ NamesInv'
  BY HistoryStep, NamesStep DEF BookInv
<1>2. ASSUME Exchange PROVE AccountInv'
  <2>1. PICK l, kept, announced : NextDay(l, kept, announced) /\ Move(l, kept, announced)
    BY <1>2, ExchangeMoves DEF BookInv, NamesInv
  <2> QED
    BY <2>1, DayKeepsAccount
<1>3. ASSUME HaveRows, job.pc \in {"reading", "writing"}, UNCHANGED exchangeVars PROVE AccountInv'
  <2>1. PICK left, rows : left = job.left \ {Session} /\ rows = job.rows \cup Rows(Session)
    OBVIOUS
  <2>2. DOMAIN job = JobFields
    BY <1>3 DEF BookInv, HistoryInv, BuildInv
  <2>3. PICK pc \in {"reading", "writing", "failed"} : pc = "reading"
    OBVIOUS
  <2>4. job' = [job EXCEPT !.pc = pc, !.left = left, !.rows = rows]
    BY <1>3, <2>1, <2>2, <2>3 DEF HaveRows, JobFields
  <2> QED
    BY <1>3, <2>4, FreshKept
<1>4. ASSUME NEW pc \in {"reading", "writing", "failed"}, job' = [job EXCEPT !.pc = pc],
             job.pc \in {"reading", "writing"}, UNCHANGED exchangeVars
      PROVE  AccountInv'
  <2>1. DOMAIN job = JobFields
    BY <1>4 DEF BookInv, HistoryInv, BuildInv
  <2>2. PICK left, rows : left = job.left /\ rows = job.rows
    OBVIOUS
  <2>3. job' = [job EXCEPT !.pc = pc, !.left = left, !.rows = rows]
    BY <1>4, <2>1, <2>2 DEF JobFields
  <2>4. job.pc \in {"reading", "writing"} /\ UNCHANGED exchangeVars
    BY <1>4
  <2> QED
    BY <2>3, <2>4, FreshKept
<1>5. ASSUME ReadCached PROVE AccountInv'
  BY <1>3, <1>4, <1>5 DEF ReadCached, Reading, Fail
<1>6. ASSUME Download PROVE AccountInv'
  BY <1>4, <1>6 DEF Download, Reading, Fail
<1>7. ASSUME Written PROVE AccountInv'
  BY <1>3, <1>4, <1>7 DEF Written, Fail
<1>8. ASSUME job' = Idle \/ job'.pc = "saving" PROVE AccountInv'
  BY <1>8, AccountElsewhere DEF Idle
<1>9. ASSUME Return \/ Store \/ Crash PROVE AccountInv'
  BY <1>8, <1>9 DEF Return, Store, Crash
<1>10. ASSUME \E bars \in Deliveries, slot \in 0..SlotsPerDay + 1, bounded \in BOOLEAN,
                 suspended \in {{}, {today}} : Ingest(bars, <<today, slot>>, bounded, suspended)
       PROVE  AccountInv'
  <2>1. job'.pc = "saving"
    BY <1>10 DEF Ingest
  <2> QED
    BY <1>8, <2>1
<1>11. ASSUME UNCHANGED vars PROVE AccountInv'
  <2>1. PICK j : j = job
    OBVIOUS
  <2> QED
    BY <1>11, <2>1, AccountedStays DEF BookInv, AccountInv, vars
<1>12. ASSUME \E asOf \in 1..today, mapped \in MappedOn, archived \in Archives :
                 master[mapped] # {} /\ StartBuild(asOf, archived, mapped)
       PROVE  AccountInv'
  BY <1>12, AccountOpened
<1>13. ASSUME \E pit \in job.pending, answer \in {"built", "HISTORICAL_INGESTION", "PHASE9_BUILD"} :
                 Instrument(pit, answer)
       PROVE  AccountInv'
  BY <1>13, AccountInstrument
<1>14. AccountInv'
  BY <1>2, <1>5, <1>6, <1>7, <1>9, <1>10, <1>11, <1>12, <1>13, AccountSelected, AccountCombined
     DEF Next
<1> QED
  BY <1>1, <1>14 DEF BookInv

(* Two records of one security, of which one replaced the other, did not   *)
(* both trade often enough: there are too few sessions for both.           *)
LEMMA OneLiquid ==
  ASSUME NamesInv, NEW asOf \in Days, EnoughSessions(asOf),
         NEW a \in PointInTime(asOf), NEW b \in PointInTime(asOf), a.isin[1] = b.isin[1]
  PROVE  a = b
<1> DEFINE A == TradedBy(a.id, asOf)
           B == TradedBy(b.id, asOf)
           S == SessionsBefore(asOf)
<1>1. SUFFICES ASSUME a # b PROVE FALSE
  OBVIOUS
<1>2. /\ a \in master[asOf] /\ b \in master[asOf]
      /\ Cardinality(A) >= MinCompleted /\ Cardinality(B) >= MinCompleted
  BY DEF PointInTime, Enough
<1>3. a.id # b.id /\ a.id[1] = a.isin[1] /\ b.id[1] = b.isin[1]
  BY <1>1, <1>2 DEF NamesInv, ExchangeInv, MasterInv, Own
<1>4. S \subseteq Days /\ IsFiniteSet(S) /\ Cardinality(S) = Lookback
  <2>1. SessionsBefore(asOf) \subseteq Days
    BY SessionDays
  <2>2. IsFiniteSet(SessionsBefore(asOf))
    BY SessionDays, FS_Subset
  <2> QED
    BY <2>1, <2>2 DEF EnoughSessions
<1>5. A \cap B = {}
  <2>1. SUFFICES ASSUME NEW d \in A, d \in B PROVE FALSE
    OBVIOUS
  <2>2. d \in Days
    BY <1>4 DEF TradedBy
  <2>3. PICK x \in master[d] : x.live /\ x.id = a.id
    BY DEF TradedBy
  <2>4. PICK y \in master[d] : y.live /\ y.id = b.id
    BY <2>1 DEF TradedBy
  <2>5. x.isin[1] = x.id[1] /\ y.isin[1] = y.id[1]
    BY <2>2 DEF NamesInv, ExchangeInv, Own
  <2>6. x.isin[1] = y.isin[1]
    BY <1>3, <2>3, <2>4, <2>5
  <2>7. x = y
    BY <2>2, <2>3, <2>4, <2>6 DEF NamesInv, MasterInv
  <2> QED
    BY <1>3, <2>3, <2>4, <2>7
<1>6. A \in SUBSET S /\ B \in SUBSET S
  BY DEF TradedBy
<1> HIDE DEF A, B, S
<1>7. IsFiniteSet(A) /\ IsFiniteSet(B) /\ A \cup B \in SUBSET S
  BY <1>4, <1>6, FS_Subset
<1>8. Cardinality(A \cup B) = Cardinality(A) + Cardinality(B) - 0
  BY <1>5, <1>7, FS_Union, FS_EmptySet
<1>9. Cardinality(A \cup B) <= Lookback
  BY <1>4, <1>7, FS_Subset
<1>10. Cardinality(A) \in Nat /\ Cardinality(B) \in Nat /\ Lookback \in Nat /\ MinCompleted \in Nat
       /\ 2 * MinCompleted > Lookback
  BY <1>7, FS_CardinalityType, LiquidityAssumption
<1> QED
  BY <1>2, <1>8, <1>9, <1>10

LEMMA InitBook == ASSUME Init PROVE BookInv
<1>1. HistoryInv
  BY InitExchange DEF Init, Idle, BuildInv, HistoryInv
<1>2. AccountInv
  BY DEF Init, Idle, AccountInv, Accounted
<1> QED
  BY <1>1, <1>2, InitNames DEF BookInv

(* However symbols are given up, taken over and taken back, ISINs and ids   *)
(* change, and sparse the archived evidence is: what was built for a record *)
(* that traded is its own security; only for a record the exchange retained *)
(* of a symbol given up can it be another, and only after one of the two    *)
(* symbols was given up a second time.                                      *)
THEOREM AlwaysItsSecurity == Spec => []ResolvedIsTheSecurity
<1>1. BookInv => ResolvedIsTheSecurity
  <2> SUFFICES ASSUME BookInv, Selecting, NEW i \in job.instruments
      PROVE  IsTheSecurity(i) \/ (~i.pit.live /\ GivenUpTwice(i))
    BY DEF ResolvedIsTheSecurity
  <2>1. Right(i, job)
    BY DEF BookInv, AccountInv, Accounted, Result, Selecting
  <2> QED
    BY <2>1 DEF Right, RightOrAgain, Again, IsTheSecurity, GivenUpTwice
<1> QED
  BY <1>1, InitBook, BookStep, PTL DEF Spec

(* Whatever of its steps fail, of whichever instrument: each instrument to  *)
(* be built has one result or one failure, and a build that reaches joining *)
(* fails only when nothing was built or another security than the record's. *)
THEOREM EachAlwaysAccounted == Spec => []EachAccountedOnce
<1>1. BookInv => EachAccountedOnce
  <2> SUFFICES ASSUME BookInv, job.pc \in {"instruments", "built", "failed"}, job.universe # {}
      PROVE  /\ BuiltOf(job) \cap Failing(job) = {}
             /\ (BuiltOf(job) \cup Failing(job)) \cap job.pending = {}
             /\ Cardinality(job.instruments) = Cardinality(BuiltOf(job))
             /\ BuiltOf(job) \cup Failing(job) \cup job.pending = ToBuild(job)
             /\ job.pc = "failed" =>
                  BuiltOf(job) = {} \/ \E i \in job.instruments : ~IsTheSecurity(i)
    BY DEF EachAccountedOnce, BuiltOf, Failing, ToBuild
  <2>1. Result(job) /\ (job.pc = "failed" => job.instruments = {} \/ Twins(job))
    BY DEF BookInv, AccountInv, Accounted
  <2>2. Cardinality(job.instruments) = Cardinality(BuiltOf(job))
    <3>1. PICK I : I = job.instruments
      OBVIOUS
    <3>2. PICK P : P = {i.pit : i \in I}
      OBVIOUS
    <3>3. PICK f : f = [i \in I |-> i.pit]
      OBVIOUS
    <3>4. IsFiniteSet(I) /\ \A i, k \in I : i.pit = k.pit => i = k
      BY <2>1, <3>1 DEF Result, OfOneRecord
    <3>5. f \in Bijection(I, P)
      BY <3>2, <3>3, <3>4 DEF Bijection, Injection, Surjection, IsInjective
    <3>6. Cardinality(P) = Cardinality(I)
      BY <3>4, <3>5, FS_Bijection DEF ExistsBijection
    <3> QED
      BY <3>1, <3>2, <3>6 DEF BuiltOf
  <2>3. ASSUME Twins(job) PROVE \E i \in job.instruments : ~IsTheSecurity(i)
    <3>1. PICK i \in job.instruments, k \in job.instruments : i # k /\ i.symbol = k.symbol
      BY <2>3 DEF Twins
    <3>2. i.pit # k.pit
      BY <2>1, <3>1 DEF Result, OfOneRecord
    <3>3. PICK asOf : asOf = job.asOf
      OBVIOUS
    <3>4. i.pit \in PointInTime(asOf) /\ k.pit \in PointInTime(asOf)
      BY <2>1, <3>3 DEF Result, Parted, BuiltOf, ToBuild
    <3>5. asOf \in Days /\ EnoughSessions(asOf)
      BY <2>1, <3>3, HistoryAssumption DEF Result, Begun, BookInv, NamesInv, ExchangeInv, Days
    <3>6. i.pit.isin[1] # k.pit.isin[1]
      BY <3>2, <3>4, <3>5, OneLiquid DEF BookInv
    <3> QED
      BY <3>1, <3>6 DEF IsTheSecurity
  <2> QED
    BY <2>1, <2>2, <2>3 DEF Result, Parted, BuiltOf
<1> QED
  BY <1>1, InitBook, BookStep, PTL DEF Spec

=============================================================================
