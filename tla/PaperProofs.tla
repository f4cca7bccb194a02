---------------------------- MODULE PaperProofs ----------------------------
(***************************************************************************)
(* Theorems about the paper account and its three users: the book of       *)
(* PaperBook, for any symbols, prices, limits and number of orders, the    *)
(* session of LiveSession, for any trades, clock and prices, and the loop  *)
(* of PaperDecisionLoop, for any rows and days.                            *)
(***************************************************************************)
EXTENDS PaperBook, PaperDecisionLoop, LiveSession, CollectionLemmas

-----------------------------------------------------------------------------
(* Arithmetic                                                              *)

(* Division rounds down, and is exact on multiples.                        *)
LEMMA DivBelow ==
  ASSUME NEW a \in Int, NEW b \in Int, b > 0
  PROVE  a \div b \in Int /\ b * (a \div b) <= a
  OBVIOUS

LEMMA DivExact ==
  ASSUME NEW a \in Int, NEW b \in Int, b > 0
  PROVE  (a * b) \div b = a
  OBVIOUS

(* A nonnegative factor keeps the order, and a positive one gives it back. *)
LEMMA Ordered ==
  ASSUME NEW k \in Int, k >= 0, NEW x \in Int, NEW y \in Int, x <= y
  PROVE  k * x <= k * y
  OBVIOUS

LEMMA Cancelled ==
  ASSUME NEW k \in Int, k > 0, NEW x \in Int, NEW y \in Int, k * x <= k * y
  PROVE  x <= y
  OBVIOUS

(* A fill leaves no cost without a position, and profit and cost change by *)
(* what is paid.                                                           *)
Booked(r, q, c, side, n, f) ==
  /\ r.qty = q + side * n /\ r.cost \in Nat /\ r.gain \in Int
  /\ r.qty = 0 => r.cost = 0
  /\ Sgn(r.qty) * r.cost = Sgn(q) * c + r.gain + side * n * f

LEMMA FillEffect ==
  ASSUME NEW q \in Int, NEW c \in Nat, NEW side \in {-1, 1}, NEW n \in Nat \ {0}, NEW f \in Nat,
         q = 0 => c = 0
  PROVE  Booked(Filled(q, c, side, n, f), q, c, side, n, f)
<1> DEFINE r == Filled(q, c, side, n, f)
<1> SUFFICES /\ r.qty = q + side * n /\ r.cost \in Nat /\ r.gain \in Int
             /\ r.qty = 0 => r.cost = 0
             /\ Sgn(r.qty) * r.cost = Sgn(q) * c + r.gain + side * n * f
  BY DEF Booked
<1> DEFINE nf == n * f
<1>0. nf \in Nat /\ side * n * f = side * nf
  OBVIOUS
<1>1. CASE q * side >= 0
  <2>1. r.qty = q + side * n /\ r.cost = c + nf /\ r.gain = 0
    BY <1>1 DEF Filled
  <2> HIDE DEF nf
  <2> QED BY <1>0, <1>1, <2>1 DEF Sgn
<1>2. CASE q * side < 0
  <2> DEFINE m == Magnitude(q)
             closed == IF n < m THEN n ELSE m
             part == (c * closed) \div m
  <2>1. m \in Nat /\ m > 0 /\ Sgn(q) = -side /\ q = -side * m /\ closed \in Nat
    BY <1>2 DEF Magnitude, Sgn
  <2>2. part \in Int /\ part <= c
    <3>1. c * closed <= c * m
      BY <2>1, Ordered
    <3>2. c * closed \in Int /\ m * part <= c * closed /\ part \in Int
      BY <2>1, DivBelow
    <3> HIDE DEF part, m, closed
    <3>3. m * part <= m * c
      BY <2>1, <3>1, <3>2
    <3> QED BY <2>1, <3>2, <3>3, Cancelled
  <2>3. /\ r.qty = q + side * n
        /\ r.cost = IF n > closed THEN (n - closed) * f ELSE c - part
        /\ r.gain = Sgn(q) * (closed * f - part)
    BY <1>2 DEF Filled
  <2>4. CASE n < m
    <3>1. r.cost = c - part /\ r.gain = -side * (nf - part) /\ closed = n
      BY <2>1, <2>3, <2>4
    <3>2. Sgn(r.qty) = -side /\ r.qty # 0
      BY <2>1, <2>3, <2>4 DEF Sgn
    <3> HIDE DEF nf, part, m
    <3> QED BY <1>0, <2>1, <2>2, <2>3, <3>1, <3>2
  <2>5. CASE n >= m
    <3>1. closed = m /\ part = c
      BY <2>1, <2>5, DivExact
    <3>2. CASE n = m
      <4>1. r.cost = 0 /\ r.qty = 0 /\ r.gain = -side * (nf - c)
        BY <2>1, <2>3, <3>1, <3>2
      <4> HIDE DEF nf, part, m
      <4> QED BY <1>0, <2>1, <2>3, <3>2, <4>1 DEF Sgn
    <3>3. CASE n > m
      <4> DEFINE mf == m * f
      <4>1. mf \in Int /\ (n - m) * f = nf - mf
        BY <2>1
      <4>4. nf - mf \in Nat
        <5>1. n - m \in Nat
          BY <2>1, <3>3
        <5> QED BY <4>1, <5>1
      <4>2. r.cost = nf - mf /\ r.gain = -side * (mf - c)
        BY <2>1, <2>3, <3>1, <3>3, <4>1
      <4>3. Sgn(r.qty) = side /\ r.qty # 0
        BY <2>1, <2>3, <3>3 DEF Sgn
      <4> HIDE DEF nf, mf, part, m
      <4> QED BY <1>0, <2>1, <2>3, <4>1, <4>2, <4>3, <4>4
    <3> QED BY <2>1, <2>5, <3>2, <3>3
  <2> QED BY <2>1, <2>4, <2>5
<1> QED BY <1>1, <1>2

-----------------------------------------------------------------------------
(* What RiskEngine answers                                                 *)

Between(x, y, z) == (x <= y /\ y <= z) \/ (z <= y /\ y <= x)
Opposed(e, p) == (e > 0 /\ p < 0) \/ (e < 0 /\ p > 0)
Beyond(e, p)  == (e > 0 /\ p > e) \/ (e < 0 /\ p < e)
Short(e, p)   == (e > 0 /\ 0 < p /\ p < e) \/ (e < 0 /\ e < p /\ p < 0)

(* The kinds of a transition, and what each opens and closes.              *)
LEMMA Kinds ==
  ASSUME NEW e \in Int, NEW p \in Int, e # p
  PROVE  \/ /\ e = 0 /\ Transition(e, p) = "OPEN"
            /\ Opening(e, p) = Abs(p) /\ Closing(e, p) = 0
         \/ /\ e # 0 /\ p = 0 /\ Transition(e, p) = "FLATTEN"
            /\ Opening(e, p) = 0 /\ Closing(e, p) = Abs(e)
         \/ /\ Opposed(e, p)
            /\ Transition(e, p) = "REVERSE"
            /\ Opening(e, p) = Abs(p) /\ Closing(e, p) = Abs(e)
         \/ /\ Beyond(e, p)
            /\ Transition(e, p) = "INCREASE"
            /\ Opening(e, p) = Abs(p) - Abs(e) /\ Closing(e, p) = 0
         \/ /\ Short(e, p)
            /\ Transition(e, p) = "REDUCE"
            /\ Opening(e, p) = 0 /\ Closing(e, p) = Abs(e) - Abs(p)
<1>1. /\ e * p > 0 <=> (e > 0 /\ p > 0) \/ (e < 0 /\ p < 0)
      /\ e * p < 0 <=> (e > 0 /\ p < 0) \/ (e < 0 /\ p > 0)
      /\ e * p \in Int
  OBVIOUS
<1> DEFINE ep == e * p
<1> HIDE DEF ep
<1>2. /\ Transition(e, p) = CASE e = 0 -> "OPEN" [] e # 0 /\ p = 0 -> "FLATTEN"
                              [] ep < 0 -> "REVERSE"
                              [] ep > 0 /\ Abs(p) > Abs(e)  -> "INCREASE"
                              [] ep > 0 /\ Abs(p) <= Abs(e) -> "REDUCE"
      /\ Opening(e, p) = CASE ep > 0 -> IF Abs(p) > Abs(e) THEN Abs(p) - Abs(e) ELSE 0
                           [] OTHER -> Abs(p)
      /\ Closing(e, p) = CASE e = 0 -> 0
                           [] ep > 0 -> IF Abs(e) > Abs(p) THEN Abs(e) - Abs(p) ELSE 0
                           [] OTHER -> Abs(e)
  BY DEF Transition, Opening, Closing, ep
<1>3. /\ ep > 0 <=> (e > 0 /\ p > 0) \/ (e < 0 /\ p < 0)
      /\ ep < 0 <=> (e > 0 /\ p < 0) \/ (e < 0 /\ p > 0)
      /\ ep \in Int
  BY <1>1 DEF ep
<1>4. CASE e = 0
  <2>1. Transition(e, p) = "OPEN" /\ Closing(e, p) = 0
    BY <1>2, <1>3, <1>4
  <2>2. Opening(e, p) = Abs(p)
    BY <1>2, <1>3, <1>4
  <2> QED BY <1>4, <2>1, <2>2
<1>5. CASE e # 0 /\ p = 0
  BY <1>2, <1>3, <1>5 DEF Abs, Opposed, Beyond, Short
<1>6. CASE e # 0 /\ p # 0 /\ ep < 0
  <2>1. Transition(e, p) = "REVERSE"
    BY <1>2, <1>3, <1>6
  <2>2. Opening(e, p) = Abs(p) /\ Closing(e, p) = Abs(e) /\ Opposed(e, p)
    BY <1>2, <1>3, <1>6 DEF Opposed
  <2> QED BY <2>1, <2>2
<1>7. CASE e # 0 /\ p # 0 /\ ~(ep < 0) /\ Abs(p) > Abs(e)
  BY <1>2, <1>3, <1>7 DEF Abs, Opposed, Beyond, Short
<1>8. CASE e # 0 /\ p # 0 /\ ~(ep < 0) /\ ~(Abs(p) > Abs(e))
  BY <1>2, <1>3, <1>8 DEF Abs, Opposed, Beyond, Short
<1> QED BY <1>4, <1>5, <1>6, <1>7, <1>8

(* calculate_position_size rounds down: no quantity up to it puts more     *)
(* than the budget of one trade at risk.                                   *)
LEMMA Sized ==
  ASSUME NEW equity \in Nat, NEW stop \in Nat \ {0}
  PROVE  /\ PositionSize(equity, stop) \in Int
         /\ \A n \in Nat : n <= PositionSize(equity, stop) => 100 * n * stop <= equity * RiskPct
<1> DEFINE k == PositionSize(equity, stop)
           b == 100 * stop
<1>1. equity * RiskPct \in Int /\ b \in Int /\ b > 0
  BY RiskAssumption
<1>2. k \in Int /\ b * k <= equity * RiskPct
  BY <1>1, DivBelow DEF PositionSize
<1>3. ASSUME NEW n \in Nat, n <= k PROVE 100 * n * stop <= equity * RiskPct
  <2>1. b * n <= b * k /\ b * n \in Int /\ b * k \in Int
    <3> HIDE DEF k, b
    <3> QED BY <1>1, <1>2, <1>3, Ordered
  <2>2. 100 * n * stop = b * n
    OBVIOUS
  <2> HIDE DEF k, b
  <2> QED BY <1>1, <1>2, <2>1, <2>2
<1> QED BY <1>2, <1>3

(* The quantity cut to the exposure limit rounds down as well.             *)
LEMMA RoomLeft ==
  ASSUME NEW gross \in Int, NEW equity \in Nat, NEW prc \in Nat \ {0},
         NEW room, room = (equity * GrossPct - 100 * gross) \div (100 * prc)
  PROVE  /\ room \in Int
         /\ \A n \in Int : n <= room => ~OverExposed(gross + prc * n, equity)
<1> DEFINE b == 100 * prc
           limit == equity * GrossPct
<1>1. limit \in Int /\ b \in Int /\ b > 0
  BY RiskAssumption
<1>2. room \in Int /\ b * room <= limit - 100 * gross
  BY <1>1, DivBelow
<1>3. ASSUME NEW n \in Int, n <= room PROVE 100 * (gross + prc * n) <= limit
  <2>1. b * n <= b * room /\ b * n \in Int /\ b * room \in Int
    <3> HIDE DEF b, limit
    <3> QED BY <1>1, <1>2, <1>3, Ordered
  <2>2. 100 * (gross + prc * n) = 100 * gross + b * n
    OBVIOUS
  <2> HIDE DEF b, limit
  <2> QED BY <1>1, <1>2, <2>1, <2>2
<1>4. ASSUME NEW n \in Int, n <= room PROVE ~OverExposed(gross + prc * n, equity)
  <2>1. 100 * (gross + prc * n) \in Int
    OBVIOUS
  <2> QED BY <1>1, <1>3, <1>4, <2>1 DEF OverExposed
<1> QED BY <1>2, <1>4

(* The position an approved order leaves of e when p was asked for.        *)
After(e, p, d) == e + Sgn(p - e) * d.quantity

(* Whatever is cut of it, an approved order goes towards what was asked    *)
(* for and not past it, opens no more than the risk budget, and ends       *)
(* smaller than before or within the exposure limit.                       *)
LEMMA DecisionEffect ==
  ASSUME NEW a, a.equity \in Nat, a.cash \in Nat, a.gross \in Int,
         NEW e \in Int, NEW p \in Int, e # p,
         NEW prc \in Nat \ {0}, NEW stop \in Nat \ {0}, NEW vol,
         NEW d, d = DecideTransition(a, e, p, prc, stop, vol), d.approved,
         NEW q, q = After(e, p, d)
  PROVE  /\ d.quantity \in Nat \ {0} /\ q \in Int
         /\ Between(e, q, p)
         /\ 100 * Opening(e, q) * stop <= a.equity * RiskPct
         /\ IF Transition(e, p) \in {"REDUCE", "FLATTEN"} THEN Abs(q) < Abs(e)
            ELSE ~OverExposed(a.gross + prc * (Abs(q) - Abs(e)), a.equity)
         /\ Opening(e, p) > 0 => a.trades < MaxTrades
         /\ e = 0 => a.open < MaxOpen
<1> DEFINE kind    == Transition(e, p)
           release == kind \in {"REDUCE", "FLATTEN"}
           reverse == kind = "REVERSE"
           sized   == PositionSize(a.equity, stop)
           asked   == Opening(e, p)
           opening == Least(sized, asked)
           cashQty == a.cash \div prc
           short   == ~release /\ cashQty < opening
           wanted  == IF release THEN Abs(p - e) ELSE IF short THEN cashQty ELSE opening
           order   == CASE release -> Abs(p - e)
                        [] reverse -> Closing(e, p) + opening
                        [] OTHER   -> opening
           over    == OverExposed(GrossAfter(kind, a.gross, e, p, opening, prc), a.equity)
           room    == (a.equity * GrossPct - 100 * a.gross) \div (100 * prc)
           opened  == IF over /\ reverse THEN Least(opening, room) ELSE opening
           final   == CASE ~over   -> order
                        [] reverse -> Closing(e, p) + opened
                        [] OTHER   -> Least(order, room)
<1>1. /\ WithinAccountLimits(a, ~release, kind = "OPEN")
      /\ wanted > 0 /\ order > 0 /\ (over => room > 0)
      /\ d.quantity = final
  BY DEF DecideTransition, Rejected
<1>2. /\ sized \in Int /\ room \in Int /\ cashQty \in Int
      /\ \A n \in Nat : n <= sized => 100 * n * stop <= a.equity * RiskPct
      /\ \A n \in Int : n <= room => ~OverExposed(a.gross + prc * n, a.equity)
  <2>1. sized \in Int /\ \A n \in Nat : n <= sized => 100 * n * stop <= a.equity * RiskPct
    BY Sized
  <2> HIDE DEF sized
  <2>2. cashQty \in Int
    BY DivBelow
  <2>3. room \in Int /\ \A n \in Int : n <= room => ~OverExposed(a.gross + prc * n, a.equity)
    BY RoomLeft
  <2> HIDE DEF cashQty, room
  <2> QED BY <2>1, <2>2, <2>3
<1>3. /\ ~release => a.trades < MaxTrades
      /\ kind = "OPEN" => a.open < MaxOpen
  BY <1>1 DEF WithinAccountLimits
<1>4. over \in BOOLEAN
  BY DEF OverExposed
<1> HIDE DEF sized, room, cashQty
<1>5. CASE release
  <2>1. d.quantity \in Nat /\ 0 < d.quantity /\ d.quantity <= Abs(p - e)
    <3>1. order = Abs(p - e) /\ ~reverse /\ Abs(p - e) \in Nat /\ Abs(p - e) > 0
      BY <1>5 DEF Abs
    <3>2. final = IF ~over THEN Abs(p - e) ELSE Least(Abs(p - e), room)
      BY <1>4, <3>1
    <3> HIDE DEF order, over, reverse, final
    <3> QED BY <1>1, <1>2, <3>1, <3>2 DEF Least
  <2>2. (e > 0 /\ 0 <= p /\ p < e) \/ (e < 0 /\ e < p /\ p <= 0)
    BY <1>5, Kinds DEF Short
  <2>3. /\ q \in Int /\ Abs(q) < Abs(e)
        /\ Between(e, q, p) /\ e # q /\ ~Opposed(e, q) /\ ~Beyond(e, q) /\ e # 0
    BY <2>1, <2>2 DEF After, Sgn, Abs, Between, Opposed, Beyond
  <2>4. Opening(e, q) = 0 /\ Opening(e, p) = 0
    BY <1>5, <2>2, <2>3, Kinds DEF Abs
  <2>5. 100 * Opening(e, q) * stop <= a.equity * RiskPct
    <3>1. a.equity * RiskPct \in Nat
      BY RiskAssumption
    <3> QED BY <2>4, <3>1
  <2> QED BY <1>5, <2>1, <2>2, <2>3, <2>4, <2>5
<1>6. CASE ~release
  <2>1. asked \in Nat /\ opening \in Int /\ opening <= sized /\ opening <= asked /\ opening > 0
    <3>1. asked \in Nat
      BY Kinds DEF Abs, Opposed, Beyond, Short
    <3>2. wanted = IF short THEN cashQty ELSE opening
      BY <1>6
    <3>3. opening \in Int /\ opening <= sized /\ opening <= asked
      BY <1>2, <3>1 DEF Least
    <3> HIDE DEF opening, asked, wanted
    <3> QED BY <1>1, <1>2, <3>1, <3>2, <3>3
  <2>2. CASE reverse
    <3>1. /\ Opposed(e, p)
          /\ asked = Abs(p) /\ Closing(e, p) = Abs(e)
      BY <1>6, <2>2, Kinds
    <3>2. d.quantity = Abs(e) + opened
      BY <1>1, <1>4, <1>6, <2>2, <3>1
    <3>3. opened \in Nat /\ 0 < opened /\ opened <= opening
      <4> HIDE DEF opening, over, reverse
      <4> QED BY <1>1, <1>2, <2>1 DEF Least
    <3>4. ~OverExposed(a.gross + prc * (opened - Abs(e)), a.equity)
      <4>1. CASE ~over
        BY <1>4, <2>2, <4>1 DEF GrossAfter
      <4>2. CASE over
        <5>1. opened - Abs(e) \in Int /\ opened - Abs(e) <= room
          <6>1. opened <= room
            BY <1>2, <2>1, <2>2, <4>2 DEF Least
          <6>2. Abs(e) \in Nat
            BY DEF Abs
          <6> HIDE DEF opened
          <6> QED BY <1>2, <3>3, <6>1, <6>2
        <5> HIDE DEF opened
        <5> QED BY <1>2, <5>1
      <4> QED BY <4>1, <4>2
    <3> HIDE DEF opened, opening, asked, over
    <3>5. /\ q \in Int /\ Abs(q) = opened /\ q # 0 /\ e # q /\ d.quantity \in Nat \ {0}
          /\ Between(e, q, p)
          /\ Opposed(e, q)
      BY <2>1, <3>1, <3>2, <3>3 DEF After, Sgn, Abs, Between, Opposed
    <3>6. Opening(e, q) = opened
      BY <3>5, Kinds DEF Abs, Opposed, Beyond, Short
    <3>7. 100 * Opening(e, q) * stop <= a.equity * RiskPct
      <4>1. opened <= sized
        BY <1>2, <2>1, <3>3
      <4> QED BY <1>2, <3>3, <3>6, <4>1
    <3>8. e # 0
      BY <3>5 DEF Opposed
    <3> QED BY <1>3, <1>6, <2>2, <3>4, <3>5, <3>7, <3>8
  <2>3. CASE ~reverse
    <3>1. /\ \/ e = 0 /\ asked = Abs(p)
             \/ /\ Beyond(e, p)
                /\ asked = Abs(p) - Abs(e)
          /\ e = 0 <=> kind = "OPEN"
      BY <1>6, <2>3, Kinds DEF Opposed, Beyond, Short
    <3>2. d.quantity = IF over THEN Least(opening, room) ELSE opening
      BY <1>1, <1>4, <1>6, <2>3
    <3>3. d.quantity \in Nat /\ 0 < d.quantity /\ d.quantity <= opening
      <4> HIDE DEF opening, over
      <4> QED BY <1>1, <1>2, <2>1, <3>2 DEF Least
    <3>4. ~OverExposed(a.gross + prc * d.quantity, a.equity)
      <4>1. CASE ~over
        BY <1>4, <1>6, <2>3, <3>2, <4>1 DEF GrossAfter
      <4>2. CASE over
        <5> HIDE DEF opening, over
        <5>1. d.quantity <= room
          BY <1>2, <2>1, <3>2, <4>2 DEF Least
        <5>2. d.quantity \in Int
          BY <3>3
        <5> QED BY <1>2, <5>1, <5>2
      <4> QED BY <4>1, <4>2
    <3> HIDE DEF opening, asked, over
    <3>5. /\ q \in Int /\ Abs(q) - Abs(e) = d.quantity /\ e # q
          /\ Between(e, q, p)
          /\ e = 0 \/ Beyond(e, q)
      BY <2>1, <3>1, <3>3 DEF After, Sgn, Abs, Between, Beyond
    <3>6. Opening(e, q) = d.quantity
      BY <3>5, Kinds DEF Abs, Opposed, Beyond, Short
    <3>7. 100 * Opening(e, q) * stop <= a.equity * RiskPct
      <4>1. d.quantity <= sized
        BY <1>2, <2>1, <3>3
      <4> QED BY <1>2, <3>3, <3>6, <4>1
    <3> QED BY <1>3, <1>6, <3>1, <3>3, <3>4, <3>5, <3>7
  <2> QED BY <2>2, <2>3
<1> QED BY <1>5, <1>6

(* With resizing disabled an approved order is the whole order asked for.  *)
LEMMA ExactDecision ==
  ASSUME ~AllowResize,
         NEW a, a.equity \in Nat, a.cash \in Nat, a.gross \in Int,
         NEW e \in Int, NEW p \in Int, e # p,
         NEW prc \in Nat \ {0}, NEW stop \in Nat \ {0}, NEW vol,
         NEW d, d = DecideTransition(a, e, p, prc, stop, vol), d.approved
  PROVE  /\ After(e, p, d) = p /\ d.projected = p /\ d.quantity = Abs(p - e)
         /\ d.gross = a.gross + prc * (Abs(p) - Abs(e))
<1> DEFINE kind    == Transition(e, p)
           release == kind \in {"REDUCE", "FLATTEN"}
           reverse == kind = "REVERSE"
           asked   == Opening(e, p)
           opening == Least(PositionSize(a.equity, stop), asked)
           cashQty == a.cash \div prc
           short   == ~release /\ cashQty < opening
           order   == CASE release -> Abs(p - e)
                        [] reverse -> Closing(e, p) + opening
                        [] OTHER   -> opening
           over    == OverExposed(GrossAfter(kind, a.gross, e, p, opening, prc), a.equity)
<1>1. /\ ~(short \/ (~release /\ opening < asked)) /\ ~over
      /\ d.quantity = order
      /\ d.gross = GrossAfter(kind, a.gross, e, p, opening, prc)
      /\ d.projected = CASE release -> p
                         [] reverse -> IF e > 0 THEN -opening ELSE opening
                         [] OTHER   -> e + (IF p > 0 THEN opening ELSE -opening)
  BY DEF DecideTransition, Rejected
<1>2. PositionSize(a.equity, stop) \in Int /\ asked \in Nat /\ Abs(p) \in Nat /\ Abs(e) \in Nat
  <2>1. PositionSize(a.equity, stop) \in Int
    BY Sized
  <2>2. asked \in Nat
    BY Kinds DEF Abs, Opposed, Beyond, Short
  <2>3. Abs(p) \in Nat /\ Abs(e) \in Nat
    BY DEF Abs
  <2> QED BY <2>1, <2>2, <2>3
<1>3. ~release => opening = asked
  BY <1>1, <1>2 DEF Least
<1> HIDE DEF opening, over
<1>4. /\ d.quantity = Abs(p - e) /\ d.projected = p
      /\ d.gross = a.gross + prc * (Abs(p) - Abs(e))
  <2>1. CASE release
    BY <1>1, <2>1 DEF GrossAfter
  <2>2. CASE reverse
    <3>1. /\ Opposed(e, p)
          /\ asked = Abs(p) /\ Closing(e, p) = Abs(e) /\ ~release
      BY <2>2, Kinds
    <3> QED BY <1>1, <1>2, <1>3, <2>2, <3>1 DEF GrossAfter, Abs, Opposed
  <2>3. CASE ~release /\ ~reverse
    <3>1. \/ e = 0 /\ asked = Abs(p)
          \/ /\ Beyond(e, p)
             /\ asked = Abs(p) - Abs(e)
      BY <2>3, Kinds
    <3>2. /\ d.quantity = asked /\ d.gross = a.gross + prc * asked
          /\ d.projected = e + (IF p > 0 THEN asked ELSE -asked)
      BY <1>1, <1>3, <2>3 DEF GrossAfter
    <3>3. asked = Abs(p) - Abs(e)
      BY <1>2, <3>1 DEF Abs, Beyond
    <3> HIDE DEF asked
    <3> QED BY <1>2, <3>1, <3>2, <3>3 DEF Abs, Beyond
  <2> QED BY <2>1, <2>2, <2>3
<1> QED BY <1>4 DEF After, Sgn, Abs

-----------------------------------------------------------------------------
(* The book                                                                *)

(* What a new quantity of one symbol makes of the exposure of some.        *)
LEMMA ValueChanged ==
  ASSUME NEW b \in [Symbols -> Int], NEW m \in [Symbols -> Nat], NEW s \in Symbols,
         NEW q \in Int, NEW ss \in SUBSET Symbols, s \in ss
  PROVE  /\ ValueOf(b, m, ss) \in Int /\ ValueOf(b, m, ss \ {s}) \in Int
         /\ ValueOf([b EXCEPT ![s] = q], m, ss) = ValueOf(b, m, ss) + m[s] * (Abs(q) - Abs(b[s]))
         /\ ValueOf([b EXCEPT ![s] = q], m, ss) = ValueOf(b, m, ss \ {s}) + m[s] * Abs(q)
<1> DEFINE c == [b EXCEPT ![s] = q]
           f == [x \in Symbols |-> Abs(b[x]) * m[x]]
           g == [x \in Symbols |-> Abs(c[x]) * m[x]]
           out == ss \ {s}
<1>1. f \in [Symbols -> Int] /\ g \in [Symbols -> Int] /\ IsFiniteSet(Symbols)
  BY AccountAssumption DEF Abs
<1>2. /\ f[s] = Abs(b[s]) * m[s] /\ g[s] = Abs(q) * m[s]
      /\ \A y \in Symbols \ {s} : g[y] = f[y]
      /\ f[s] \in Int /\ g[s] \in Int
  BY <1>1
<1>3. /\ ValueOf(b, m, ss) = SumFunctionOnSet(f, ss)
      /\ ValueOf(b, m, out) = SumFunctionOnSet(f, out)
      /\ ValueOf(c, m, ss) = SumFunctionOnSet(g, ss)
  BY DEF ValueOf
<1>4. out \in SUBSET Symbols
  OBVIOUS
<1> HIDE DEF f, g
<1>5. SumFunctionOnSet(g, ss) = SumFunctionOnSet(f, ss) - f[s] + g[s]
  BY <1>1, <1>2, SumChanged
<1>6. /\ SumFunctionOnSet(f, ss) \in Int
      /\ SumFunctionOnSet(f, ss) = f[s] + SumFunctionOnSet(f, out)
  BY <1>1, SumTaken
<1>7. SumFunctionOnSet(f, out) \in Int
  BY <1>1, <1>4, SumTaken
<1>8. Abs(q) \in Int /\ Abs(b[s]) \in Int /\ m[s] \in Int
  BY DEF Abs
<1> HIDE DEF out
<1> QED BY <1>2, <1>3, <1>5, <1>6, <1>7, <1>8 DEF c, out

(* The inductive invariant: the types, the sums, and no cost without a     *)
(* position, without which a position opened anew would carry the cost of  *)
(* an earlier one.                                                         *)
NoIdleCost == \A s \in Symbols : qty[s] = 0 => cost[s] = 0
BookInv == BookTypeOK /\ AccountAddsUp /\ NoIdleCost /\ SlotsHeld

(* The figures of the account, typed.                                      *)
LEMMA Figures ==
  ASSUME BookInv
  PROVE  /\ Equity \in Int /\ Exposure(price) \in Int
         /\ Exposure(price) = ValueOf(qty, price, Symbols)
         /\ qty \in [Symbols -> Int] /\ price \in [Symbols -> Nat \ {0}]
<1>1. /\ qty \in [Symbols -> Int] /\ cost \in [Symbols -> Nat] /\ realized \in Int
      /\ price \in [Symbols -> Nat \ {0}] /\ IsFiniteSet(Symbols) /\ Initial \in Nat
  BY AccountAssumption, BookAssumption DEF BookInv, BookTypeOK, AccountTypeOK
<1> DEFINE f == [s \in Symbols |-> qty[s] * price[s] - Sgn(qty[s]) * cost[s]]
           g == [s \in Symbols |-> Magnitude(qty[s]) * price[s]]
<1>2. f \in [Symbols -> Int] /\ g \in [Symbols -> Int] /\ DOMAIN f = Symbols /\ DOMAIN g = Symbols
  BY <1>1 DEF Sgn, Magnitude
<1>3. Unrealized(price) = SumFunctionOnSet(f, Symbols) /\ Exposure(price) = SumFunctionOnSet(g, Symbols)
  BY <1>2 DEF Unrealized, Exposure, SumFunction
<1>4. ValueOf(qty, price, Symbols) = SumFunctionOnSet(g, Symbols)
  BY DEF ValueOf, Abs, Magnitude
<1> HIDE DEF f, g
<1>5. SumFunctionOnSet(f, Symbols) \in Int /\ SumFunctionOnSet(g, Symbols) \in Int
  BY <1>1, <1>2, SumTaken
<1> QED BY <1>1, <1>3, <1>4, <1>5 DEF Equity

(* A proposal that the portfolio and risk approve, and what is recorded.   *)
Recorded(s, target, stop, d) ==
  [approved |-> TRUE, symbol |-> s, from |-> qty[s], target |-> target,
   projected |-> d.projected, gross |-> d.gross, stop |-> stop,
   equity |-> Equity, before |-> Exposure(price),
   foreseen |-> ValueOf(Projected(qty, s, target), price, Symbols)]

Taken(s, target, stop, vol, available, d) ==
  /\ Equity > 0 /\ target # qty[s]
  /\ PortfolioApproves(qty, price, Equity, s, target)
  /\ d = DecideTransition(Account(available), qty[s], target, price[s], stop, vol)
  /\ d.approved
  /\ Spread(qty, price, Equity, s, d)
  /\ Evaluate(s, target, d)
  /\ last' = Recorded(s, target, stop, d)

(* What a proposal does: a refusal, or an order that is taken.             *)
LEMMA Proposal ==
  ASSUME NEW s, NEW target, NEW stop, NEW vol, NEW available, NEW peak,
         Propose(s, target, stop, vol, available, peak)
  PROVE  \/ SubmitBlocked /\ UNCHANGED <<price, entries>> /\ last' = NoAssessment
         \/ \E d : Taken(s, target, stop, vol, available, d)
<1> DEFINE d == Decision(s, target, stop, vol, available, peak)
           Answered(x) == /\ Evaluate(s, target, x) \/ Refuse(x)
                          /\ last' = IF x.approved THEN Recorded(s, target, stop, x)
                                     ELSE NoAssessment
<1>1. /\ Equity > 0 /\ target # qty[s] /\ PortfolioApproves(qty, price, Equity, s, target)
      /\ Answered(d)
  <2>1. \E x \in {d} : Answered(x)
    BY DEF Propose, Recorded
  <2> HIDE DEF d, Answered
  <2> QED BY <2>1 DEF Propose
<1>2. CASE d.approved
  <2>1. /\ d = DecideTransition(Account(available), qty[s], target, price[s], stop, vol)
        /\ Spread(qty, price, Equity, s, d)
    BY <1>2 DEF Decision, Rejected
  <2> HIDE DEF d
  <2>2. Evaluate(s, target, d)
    BY <1>1, <1>2 DEF Refuse
  <2>3. Taken(s, target, stop, vol, available, d)
    BY <1>1, <1>2, <2>1, <2>2 DEF Taken
  <2> QED BY <2>3
<1>3. CASE ~d.approved
  <2> HIDE DEF d
  <2> QED BY <1>1, <1>3 DEF Evaluate, Refuse
<1> QED BY <1>2, <1>3

(* The position and the exposure an approved order leaves.                 *)
LEMMA TakenPosition ==
  ASSUME BookInv, NEW s \in Symbols, NEW target \in Quantities, NEW stop \in Stops, NEW vol,
         NEW available \in Available, NEW d, Taken(s, target, stop, vol, available, d),
         NEW q, q = After(qty[s], target, d)
  PROVE  /\ d.quantity \in Nat \ {0} /\ q \in Quantities
         /\ Between(qty[s], q, target)
         /\ 100 * Opening(qty[s], q) * stop <= Equity * RiskPct
         /\ IF Transition(qty[s], target) \in {"REDUCE", "FLATTEN"} THEN Abs(q) < Abs(qty[s])
            ELSE ~OverExposed(Exposure(price)', Equity)
         /\ Opening(qty[s], target) > 0 => entries < MaxTrades
         /\ qty[s] = 0 => Cardinality(HeldSymbols) < MaxOpen
         /\ qty' = [qty EXCEPT ![s] = q] /\ price' = price
         /\ Exposure(price)' = Exposure(price) + price[s] * (Abs(q) - Abs(qty[s]))
         /\ Exposure(price)' = ValueOf(qty', price, Symbols)
<1> DEFINE a == Account(available)
<1>1. /\ Equity \in Nat /\ Exposure(price) \in Int
      /\ Exposure(price) = ValueOf(qty, price, Symbols)
      /\ qty \in [Symbols -> Int] /\ price \in [Symbols -> Nat \ {0}]
  BY Figures DEF Taken
<1>2. /\ a.equity = Equity /\ a.cash = available /\ a.gross = Exposure(price)
      /\ a.trades = entries /\ a.open = Cardinality(HeldSymbols)
  BY DEF Account
<1>3. /\ qty[s] \in Int /\ target \in Int /\ qty[s] # target /\ available \in Nat
      /\ price[s] \in Nat \ {0} /\ stop \in Nat \ {0} /\ Largest \in Nat
  BY <1>1, BookAssumption DEF Taken, Quantities
<1>4. d = DecideTransition(a, qty[s], target, price[s], stop, vol) /\ d.approved
  BY DEF Taken
<1> HIDE DEF a
<1>5. /\ d.quantity \in Nat \ {0} /\ q \in Int
      /\ Between(qty[s], q, target)
      /\ 100 * Opening(qty[s], q) * stop <= a.equity * RiskPct
      /\ IF Transition(qty[s], target) \in {"REDUCE", "FLATTEN"} THEN Abs(q) < Abs(qty[s])
         ELSE ~OverExposed(a.gross + price[s] * (Abs(q) - Abs(qty[s])), a.equity)
      /\ Opening(qty[s], target) > 0 => a.trades < MaxTrades
      /\ qty[s] = 0 => a.open < MaxOpen
  BY <1>1, <1>2, <1>3, <1>4, DecisionEffect
<1>6. q \in Quantities
  <2>1. qty[s] \in -Largest..Largest /\ target \in -Largest..Largest
    BY DEF BookInv, BookTypeOK, Quantities
  <2> QED BY <1>3, <1>5, <2>1 DEF Quantities, Between
<1>7. qty' = [qty EXCEPT ![s] = q] /\ price' = price
  <2>1. /\ qty' = [qty EXCEPT ![s] = Filled(qty[s], cost[s], Sgn(target - qty[s]), d.quantity,
                                            Fill(price[s], Sgn(target - qty[s]))).qty]
        /\ price' = price
    BY DEF Taken, Evaluate, Submit
  <2>2. Filled(qty[s], cost[s], Sgn(target - qty[s]), d.quantity,
               Fill(price[s], Sgn(target - qty[s]))).qty = q
    BY DEF Filled, After
  <2> QED BY <2>1, <2>2
<1>8. Exposure(price)' = ValueOf(qty', price, Symbols)
  <2>1. Exposure(price)' = SumFunction([x \in Symbols |-> Magnitude(qty'[x]) * price[x]])
    BY <1>7 DEF Exposure
  <2> QED BY <2>1 DEF ValueOf, SumFunction, Abs, Magnitude
<1>9. Exposure(price)' = Exposure(price) + price[s] * (Abs(q) - Abs(qty[s]))
  <2>1. price \in [Symbols -> Nat] /\ q \in Int
    BY <1>1, <1>5
  <2>2. Symbols \in SUBSET Symbols /\ qty \in [Symbols -> Int]
    BY <1>1
  <2>3. ValueOf([qty EXCEPT ![s] = q], price, Symbols)
          = ValueOf(qty, price, Symbols) + price[s] * (Abs(q) - Abs(qty[s]))
    BY <2>1, <2>2, ValueChanged
  <2> QED BY <1>1, <1>7, <1>8, <2>3
<1> QED BY <1>2, <1>5, <1>6, <1>7, <1>8, <1>9

(* A fill price is a natural number, and a fee an integer.                 *)
LEMMA FillPrice ==
  ASSUME NEW x \in Nat, NEW side \in {-1, 1}
  PROVE  Fill(x, side) \in Nat /\ \A y \in Int : Fee(y) \in Int
<1> DEFINE slip == (x * SlipPct) \div 100
<1>1. x * SlipPct \in Int /\ x * SlipPct <= 100 * x /\ 0 <= x * SlipPct
  BY AccountAssumption
<1>2. slip \in Int /\ 100 * slip <= x * SlipPct /\ 0 <= slip
  BY <1>1
<1>3. slip <= x
  BY <1>1, <1>2
<1> HIDE DEF slip
<1>4. Fill(x, side) \in Nat
  BY <1>2, <1>3 DEF Fill, slip
<1>5. ASSUME NEW y \in Int PROVE Fee(y) \in Int
  BY AccountAssumption DEF Fee
<1> QED BY <1>4, <1>5

(* An approved order keeps the books.                                      *)
LEMMA TakenBooks ==
  ASSUME BookInv, NEW s \in Symbols, NEW target \in Quantities, NEW stop \in Stops, NEW vol,
         NEW available \in Available, NEW d, Taken(s, target, stop, vol, available, d)
  PROVE  BookInv'
<1> DEFINE side == Sgn(target - qty[s])
           n    == d.quantity
           q    == After(qty[s], target, d)
           f    == Fill(price[s], side)
           fee  == Fee(n * f)
           r    == Filled(qty[s], cost[s], side, n, f)
<1>1. /\ n \in Nat \ {0} /\ q \in Quantities /\ q \in Int
      /\ Opening(qty[s], target) > 0 => entries < MaxTrades
      /\ qty[s] = 0 => Cardinality(HeldSymbols) < MaxOpen
      /\ qty' = [qty EXCEPT ![s] = q] /\ price' = price
  <2>1. Quantities \subseteq Int
    BY BookAssumption DEF Quantities
  <2> QED BY <2>1, TakenPosition
<1>2. /\ qty \in [Symbols -> Quantities] /\ qty \in [Symbols -> Int] /\ cost \in [Symbols -> Nat]
      /\ {pnl, moved} \subseteq [Symbols -> Int] /\ bought = qty /\ realized \in Int /\ cash \in Int
      /\ price \in [Symbols -> Prices] /\ IsFiniteSet(Symbols) /\ Prices \subseteq Nat
      /\ journal \in 0..MaxOrders /\ entries \in 0..MaxTrades
      /\ MaxOrders \in Nat /\ MaxTrades \in Nat
  BY AccountAssumption, RiskAssumption
     DEF BookInv, BookTypeOK, AccountTypeOK, AccountAddsUp, PositionsBalance
<1>3. side \in {-1, 1} /\ qty[s] \in Int /\ cost[s] \in Nat /\ (qty[s] = 0 => cost[s] = 0)
  BY <1>2 DEF Sgn, BookInv, NoIdleCost
<1>4. f \in Nat /\ fee \in Int /\ side * n * f \in Int
  <2>1. price[s] \in Nat
    BY <1>2
  <2> HIDE DEF side
  <2>2. f \in Nat
    BY <1>3, <2>1, FillPrice
  <2> HIDE DEF f, n
  <2>3. n * f \in Int /\ side * n * f \in Int
    BY <1>1, <1>3, <2>2
  <2> QED BY <1>3, <2>1, <2>2, <2>3, FillPrice
<1>5. /\ journal < MaxOrders /\ journal' = journal + 1
      /\ qty' = [qty EXCEPT ![s] = r.qty] /\ cost' = [cost EXCEPT ![s] = r.cost]
      /\ pnl' = [pnl EXCEPT ![s] = Earlier(pnl, s) + r.gain - fee]
      /\ moved' = [moved EXCEPT ![s] = Earlier(moved, s) - side * n * f - fee]
      /\ realized' = realized - fee + r.gain
      /\ cash' = cash - side * n * f - fee
      /\ bought' = [bought EXCEPT ![s] = @ + side * n]
      /\ entries' = entries + (IF Opening(qty[s], target) > 0 THEN 1 ELSE 0)
  BY DEF Taken, Evaluate, Submit, Moved
<1>6. /\ r.qty = q /\ r.cost \in Nat /\ r.gain \in Int
      /\ r.qty = 0 => r.cost = 0
      /\ Sgn(r.qty) * r.cost = Sgn(qty[s]) * cost[s] + r.gain + side * n * f
      /\ q = qty[s] + side * n
  <2>1. q = qty[s] + side * n
    BY DEF After
  <2> HIDE DEF side, f, q, n
  <2>2. /\ r.qty = qty[s] + side * n /\ r.cost \in Nat /\ r.gain \in Int
        /\ r.qty = 0 => r.cost = 0
        /\ Sgn(r.qty) * r.cost = Sgn(qty[s]) * cost[s] + r.gain + side * n * f
    <3>1. r = Filled(qty[s], cost[s], side, n, f)
      OBVIOUS
    <3> HIDE DEF r, fee
    <3>2. Booked(Filled(qty[s], cost[s], side, n, f), qty[s], cost[s], side, n, f)
      BY <1>1, <1>3, <1>4, FillEffect
    <3> QED BY <3>1, <3>2 DEF Booked
  <2> QED BY <2>1, <2>2
<1> DEFINE value == side * n * f
           before == [x \in Symbols |-> Sgn(qty[x]) * cost[x]]
           after  == [x \in Symbols |-> Sgn(qty'[x]) * cost'[x]]
<1> HIDE DEF side, n, q, f, fee, r, value
<1>7. BookTypeOK'
  <2>1. /\ qty' \in [Symbols -> Quantities] /\ qty' \in [Symbols -> Int]
        /\ cost' \in [Symbols -> Nat] /\ {pnl', moved', bought'} \subseteq [Symbols -> Int]
    <3>1. /\ Earlier(pnl, s) + r.gain - fee \in Int /\ bought[s] + side * n \in Int
          /\ Earlier(moved, s) - side * n * f - fee \in Int
      BY <1>1, <1>2, <1>3, <1>4, <1>6 DEF Earlier
    <3> QED BY <1>1, <1>2, <1>5, <1>6, <3>1
  <2>2. realized' \in Int /\ cash' \in Int /\ journal' \in 0..MaxOrders
    BY <1>2, <1>4, <1>5, <1>6
  <2>3. entries' \in 0..MaxTrades
    <3>1. CASE Opening(qty[s], target) > 0
      BY <1>1, <1>2, <1>5, <3>1
    <3>2. CASE ~(Opening(qty[s], target) > 0)
      BY <1>2, <1>5, <3>2
    <3> QED BY <3>1, <3>2
  <2> QED BY <1>1, <1>2, <2>1, <2>2, <2>3 DEF BookTypeOK, AccountTypeOK
<1>8. BooksBalance'
  <2>1. before \in [Symbols -> Int] /\ after \in [Symbols -> Int]
    <3>1. qty' \in [Symbols -> Int] /\ cost' \in [Symbols -> Nat]
      BY <1>1, <1>2, <1>5, <1>6
    <3> QED BY <1>2, <3>1 DEF Sgn
  <2>2. /\ before[s] = Sgn(qty[s]) * cost[s] /\ after[s] = Sgn(r.qty) * r.cost
        /\ \A y \in Symbols \ {s} : after[y] = before[y]
    BY <1>2, <1>5
  <2>3. /\ realized - SumFunctionOnSet(before, Symbols) = cash
        /\ BooksBalance' <=> realized' - SumFunctionOnSet(after, Symbols) = cash'
    BY DEF BookInv, AccountAddsUp, BooksBalance, SumFunction
  <2> HIDE DEF before, after
  <2>4. /\ SumFunctionOnSet(before, Symbols) \in Int
        /\ SumFunctionOnSet(after, Symbols) = SumFunctionOnSet(before, Symbols) - before[s] + after[s]
    <3>1. IsFiniteSet(Symbols) /\ Symbols \in SUBSET Symbols /\ s \in Symbols
      BY <1>2
    <3>2. SumFunctionOnSet(before, Symbols) \in Int
      BY <2>1, <3>1, SumTaken
    <3>3. SumFunctionOnSet(after, Symbols) = SumFunctionOnSet(before, Symbols) - before[s] + after[s]
      BY <2>1, <2>2, <3>1, SumChanged
    <3> QED BY <3>2, <3>3
  <2>5. after[s] = before[s] + r.gain + value /\ before[s] \in Int /\ value \in Int
    BY <1>4, <1>6, <2>1, <2>2 DEF value
  <2>6. cash' = cash - value - fee
    BY <1>5 DEF value
  <2> QED BY <1>2, <1>4, <1>5, <1>6, <2>3, <2>4, <2>5, <2>6
<1>9. PositionsBalance'
  <2>1. qty' = bought'
    BY <1>1, <1>2, <1>5, <1>6
  <2>2. /\ pnl[s] \in Int /\ moved[s] \in Int
        /\ \A y \in Symbols : pnl[y] - Sgn(qty[y]) * cost[y] = moved[y]
    BY <1>2 DEF BookInv, AccountAddsUp, PositionsBalance
  <2>3. /\ pnl'[s] = Earlier(pnl, s) + r.gain - fee
        /\ moved'[s] = Earlier(moved, s) - value - fee
        /\ qty'[s] = r.qty /\ cost'[s] = r.cost
    BY <1>2, <1>5 DEF value
  <2>4. \A y \in Symbols \ {s} :
          pnl'[y] = pnl[y] /\ moved'[y] = moved[y] /\ qty'[y] = qty[y] /\ cost'[y] = cost[y]
    BY <1>2, <1>5
  <2>5. PICK owed \in Int : owed = Sgn(qty[s]) * cost[s]
    BY <1>3 DEF Sgn
  <2>6. Earlier(pnl, s) - owed = Earlier(moved, s) /\ Earlier(pnl, s) \in Int
    <3>1. CASE qty[s] = 0
      BY <1>3, <2>5, <3>1 DEF Earlier, Sgn
    <3>2. CASE qty[s] # 0
      BY <2>2, <2>5, <3>2 DEF Earlier
    <3> QED BY <3>1, <3>2
  <2>7. Sgn(r.qty) * r.cost = owed + r.gain + value /\ value \in Int
    BY <1>4, <1>6, <2>5 DEF value
  <2>8. pnl'[s] - Sgn(qty'[s]) * cost'[s] = moved'[s]
    BY <1>4, <1>6, <2>3, <2>5, <2>6, <2>7
  <2> QED BY <2>1, <2>2, <2>4, <2>8 DEF PositionsBalance
<1>10. NoIdleCost'
  BY <1>1, <1>2, <1>5, <1>6 DEF BookInv, NoIdleCost
<1>11. SlotsHeld'
  <2>1. IsFiniteSet(HeldSymbols) /\ Cardinality(HeldSymbols) \in Nat
        /\ Cardinality(HeldSymbols) <= MaxOpen /\ MaxOpen \in Nat
    BY <1>2, FS_Subset, FS_CardinalityType, RiskAssumption DEF HeldSymbols, BookInv, SlotsHeld
  <2>2. CASE qty[s] # 0
    <3>1. HeldSymbols' \subseteq HeldSymbols
      BY <1>1, <1>2, <2>2 DEF HeldSymbols
    <3>2. Cardinality(HeldSymbols') \in Nat /\ Cardinality(HeldSymbols') <= Cardinality(HeldSymbols)
      BY <2>1, <3>1, FS_Subset, FS_CardinalityType
    <3> QED BY <2>1, <3>2 DEF SlotsHeld
  <2>3. CASE qty[s] = 0
    <3>1. HeldSymbols' \subseteq HeldSymbols \cup {s} /\ s \notin HeldSymbols
      BY <1>1, <1>2, <2>3 DEF HeldSymbols
    <3>2. /\ IsFiniteSet(HeldSymbols \cup {s})
          /\ Cardinality(HeldSymbols \cup {s}) = Cardinality(HeldSymbols) + 1
      BY <2>1, <3>1, FS_AddElement
    <3>3. Cardinality(HeldSymbols') \in Nat /\ Cardinality(HeldSymbols') <= Cardinality(HeldSymbols) + 1
      BY <3>1, <3>2, FS_Subset, FS_CardinalityType
    <3> QED BY <1>1, <2>1, <2>3, <3>3 DEF SlotsHeld
  <2> QED BY <2>2, <2>3
<1> QED BY <1>7, <1>8, <1>9, <1>10, <1>11 DEF BookInv, AccountAddsUp

(* The day starts with an empty book.                                      *)
LEMMA BookInitially == BookInit => BookInv
<1> SUFFICES ASSUME BookInit PROVE BookInv
  OBVIOUS
<1>1. /\ qty = [s \in Symbols |-> 0] /\ cost = [s \in Symbols |-> 0] /\ pnl = [s \in Symbols |-> 0]
      /\ moved = [s \in Symbols |-> 0] /\ bought = [s \in Symbols |-> 0]
      /\ realized = 0 /\ cash = 0 /\ journal = 0 /\ entries = 0
      /\ price \in [Symbols -> Prices] /\ IsFiniteSet(Symbols)
      /\ {MaxOrders, MaxTrades, MaxOpen, Largest} \subseteq Nat
  BY AccountAssumption, RiskAssumption, BookAssumption DEF BookInit, AccountInit
<1>2. BookTypeOK
  <2>1. 0 \in Quantities
    BY <1>1 DEF Quantities
  <2> QED BY <1>1, <2>1 DEF BookTypeOK, AccountTypeOK
<1>3. AccountAddsUp
  <2> DEFINE f == [s \in Symbols |-> Sgn(qty[s]) * cost[s]]
  <2>1. /\ f \in [Symbols -> Int] /\ DOMAIN f = Symbols /\ \A s \in Symbols : f[s] = 0
        /\ \A s \in Symbols : pnl[s] - Sgn(qty[s]) * cost[s] = moved[s]
    BY <1>1 DEF Sgn
  <2>2. BooksBalance <=> realized - SumFunctionOnSet(f, Symbols) = cash
    BY <2>1 DEF BooksBalance, SumFunction
  <2> HIDE DEF f
  <2>3. SumFunctionOnSet(f, Symbols) = 0
    BY <1>1, <2>1, SumOfZeros
  <2> QED BY <1>1, <2>1, <2>2, <2>3 DEF AccountAddsUp, PositionsBalance
<1>4. NoIdleCost
  BY <1>1 DEF NoIdleCost
<1>5. SlotsHeld
  <2>1. HeldSymbols = {}
    BY <1>1 DEF HeldSymbols
  <2> QED BY <1>1, <2>1, FS_EmptySet DEF SlotsHeld
<1> QED BY <1>2, <1>3, <1>4, <1>5 DEF BookInv

(* Steps that take no order leave the books alone.                         *)
LEMMA BooksAlone ==
  ASSUME BookInv, UNCHANGED <<books, fillVars, entries>>,
         journal' \in 0..MaxOrders, price' \in [Symbols -> Prices]
  PROVE  BookInv'
<1>1. BookTypeOK'
  BY DEF BookInv, BookTypeOK, AccountTypeOK, books, fillVars
<1>2. AccountAddsUp' /\ NoIdleCost'
  BY DEF BookInv, AccountAddsUp, BooksBalance, PositionsBalance, NoIdleCost, books, fillVars
<1>3. SlotsHeld'
  BY DEF BookInv, SlotsHeld, HeldSymbols, books
<1> QED BY <1>1, <1>2, <1>3 DEF BookInv

(* A refused proposal, and a mark, leave the books alone.                  *)
LEMMA BlockedAlone ==
  ASSUME BookInv, SubmitBlocked, UNCHANGED <<price, entries>>
  PROVE  BookInv'
<1>1. journal' \in 0..MaxOrders /\ price' \in [Symbols -> Prices]
  BY AccountAssumption DEF BookInv, BookTypeOK, AccountTypeOK, SubmitBlocked
<1> QED BY <1>1, BooksAlone DEF SubmitBlocked

LEMMA MarkAlone ==
  ASSUME BookInv, NEW s \in Symbols, NEW p \in Prices, Mark(s, p)
  PROVE  BookInv'
<1>1. journal' \in 0..MaxOrders /\ price' \in [Symbols -> Prices]
  BY DEF BookInv, BookTypeOK, AccountTypeOK, Mark, accountVars, fillVars
<1> QED BY <1>1, BooksAlone DEF Mark, accountVars, fillVars

(* What a step may do: nothing that is recorded, a mark or a refusal,      *)
(* neither of which is recorded as an approval, or an approved order.      *)
LEMMA Steps ==
  ASSUME BookInv, [BookNext]_bookVars
  PROVE  /\ BookInv'
         /\ \/ UNCHANGED bookVars
            \/ last' = NoAssessment
            \/ \E s \in Symbols, target \in Quantities, stop \in Stops, vol \in Volatility,
                  available \in Available : \E d : Taken(s, target, stop, vol, available, d)
<1>1. CASE UNCHANGED bookVars
  <2>1. UNCHANGED <<books, fillVars, entries>> /\ journal' = journal /\ price' = price
    BY <1>1 DEF bookVars, accountVars, fillVars
  <2>2. BookInv'
    BY <2>1, BooksAlone DEF BookInv, BookTypeOK, AccountTypeOK
  <2> QED BY <1>1, <2>2
<1>2. ASSUME NEW s \in Symbols, NEW target \in Quantities, NEW stop \in Stops, NEW vol \in Volatility,
             NEW available \in Available, NEW peak \in Peaks,
             Propose(s, target, stop, vol, available, peak)
      PROVE  /\ BookInv'
             /\ last' = NoAssessment \/ \E d : Taken(s, target, stop, vol, available, d)
  <2>1. CASE SubmitBlocked /\ UNCHANGED <<price, entries>> /\ last' = NoAssessment
    BY <2>1, BlockedAlone
  <2>2. ASSUME NEW d, Taken(s, target, stop, vol, available, d) PROVE BookInv'
    BY <2>2, TakenBooks
  <2> QED BY <1>2, <2>1, <2>2, Proposal
<1>3. ASSUME NEW s \in Symbols, NEW p \in Prices, Mark(s, p)
      PROVE  BookInv' /\ last' = NoAssessment
  BY <1>3, MarkAlone DEF Mark
<1> QED BY <1>1, <1>2, <1>3 DEF BookNext

(* The inductive invariant holds of every state an account of              *)
(* PaperTradingRuntime, run through the gate, reaches.                     *)
THEOREM BookSafe == BookSpec => []BookInv
<1>1. BookInit => BookInv
  BY BookInitially
<1>2. BookInv /\ [BookNext]_bookVars => BookInv'
  BY Steps
<1> QED BY <1>1, <1>2, PTL DEF BookSpec

(* After any fills, partial closes and reversals, the account's profit is  *)
(* what all of them left in cash and in positions, the profit of each      *)
(* position what its own left since the symbol was last flat, and the      *)
(* positions are those the journal filled (submit, account_snapshot,       *)
(* mark_to_market).                                                        *)
THEOREM AccountAlwaysAddsUp == BookSpec => []AccountAddsUp
<1>1. BookInv => AccountAddsUp
  BY DEF BookInv
<1> QED BY <1>1, BookSafe, PTL

-----------------------------------------------------------------------------
(* The limits                                                              *)

OrderLimits == NeverMoreThanAsked /\ ExposureHeld /\ RiskBudgetHeld

(* Unresized, the limits on what the book concentrates on, and what was    *)
(* foreseen.                                                               *)
ExactLimits == SpreadHeld /\ ProjectionMet

(* An approved order keeps the limits it was judged by.                    *)
LEMMA TakenLimits ==
  ASSUME BookInv, NEW s \in Symbols, NEW target \in Quantities, NEW stop \in Stops, NEW vol,
         NEW available \in Available, NEW d, Taken(s, target, stop, vol, available, d)
  PROVE  OrderLimits'
<1> DEFINE e == qty[s]
           q == After(e, target, d)
           before == Exposure(price)
<1>1. /\ q \in Quantities /\ Between(e, q, target)
      /\ 100 * Opening(e, q) * stop <= Equity * RiskPct
      /\ IF Transition(e, target) \in {"REDUCE", "FLATTEN"} THEN Abs(q) < Abs(e)
         ELSE ~OverExposed(Exposure(price)', Equity)
      /\ qty' = [qty EXCEPT ![s] = q]
      /\ Exposure(price)' = before + price[s] * (Abs(q) - Abs(e))
  BY TakenPosition
<1>2. /\ last'.symbol = s /\ last'.from = e /\ last'.target = target
      /\ last'.stop = stop /\ last'.equity = Equity /\ last'.before = before
  BY DEF Taken, Recorded
<1>3. /\ before \in Int /\ qty \in [Symbols -> Int] /\ price[s] \in Nat \ {0} /\ e \in Int
      /\ q \in Int
  <2>1. Quantities \subseteq Int
    BY BookAssumption DEF Quantities
  <2> QED BY <1>1, <2>1, Figures
<1> HIDE DEF e, q, before
<1>4. qty'[s] = q
  BY <1>1, <1>3
<1>5. NeverMoreThanAsked'
  BY <1>1, <1>2, <1>4 DEF NeverMoreThanAsked, Between
<1>6. RiskBudgetHeld'
  BY <1>1, <1>2, <1>4 DEF RiskBudgetHeld, Opened
<1>7. ExposureHeld'
  <2>1. CASE Transition(e, target) \in {"REDUCE", "FLATTEN"}
    <3>1. Abs(q) - Abs(e) \in Int /\ Abs(q) - Abs(e) < 0
      BY <1>1, <1>3, <2>1 DEF Abs
    <3>2. price[s] * (Abs(q) - Abs(e)) < 0 /\ price[s] * (Abs(q) - Abs(e)) \in Int
      BY <1>3, <3>1
    <3>3. Exposure(price)' < before
      BY <1>1, <1>3, <3>2
    <3> QED BY <1>2, <2>1, <3>3 DEF ExposureHeld, Release
  <2>2. CASE Transition(e, target) \notin {"REDUCE", "FLATTEN"}
    BY <1>1, <1>2, <2>2 DEF ExposureHeld, Release
  <2> QED BY <2>1, <2>2
<1> QED BY <1>5, <1>6, <1>7 DEF OrderLimits

(* Every step keeps them, or records no approval.                          *)
LEMMA LimitsStep ==
  ASSUME BookInv, OrderLimits, [BookNext]_bookVars
  PROVE  OrderLimits'
<1>1. CASE UNCHANGED bookVars
  BY <1>1 DEF OrderLimits, NeverMoreThanAsked, ExposureHeld, RiskBudgetHeld, Approved, Release,
              Opened, Exposure, bookVars, accountVars, books
<1>2. CASE last' = NoAssessment
  BY <1>2 DEF OrderLimits, NeverMoreThanAsked, ExposureHeld, RiskBudgetHeld, Approved, NoAssessment
<1>3. CASE \E s \in Symbols, target \in Quantities, stop \in Stops, vol \in Volatility,
              available \in Available : \E d : Taken(s, target, stop, vol, available, d)
  BY <1>3, TakenLimits
<1> QED BY <1>1, <1>2, <1>3, Steps

(* A symbol is not correlated with itself.                                 *)
LEMMA NotItsOwnCompanion ==
  ASSUME NEW s \in Symbols
  PROVE  s \notin Companions(s)
<1> SUFFICES ASSUME {s, s} \in Correlated PROVE FALSE
  BY DEF Companions
<1>1. Cardinality({s, s}) = 2
  BY ConcentrationAssumption
<1>2. Cardinality({s}) = 1
  BY FS_Singleton
<1>3. {s, s} = {s}
  OBVIOUS
<1> QED BY <1>1, <1>2, <1>3

(* What Spread counted is what the book holds once the order is filled.    *)
LEMMA SpreadMet ==
  ASSUME NEW b \in [Symbols -> Int], NEW m \in [Symbols -> Nat], NEW s \in Symbols,
         NEW p \in Int, p # b[s], NEW equity, NEW d,
         d.projected = p, d.quantity = Abs(p - b[s]), Spread(b, m, equity, s, d),
         NEW new, new = [b EXCEPT ![s] = p]
  PROVE  /\ Within(ValueOf(new, m, {s}), equity, SymbolPct)
         /\ Within(ValueOf(new, m, SectorPeers(s)), equity, SectorPct)
         /\ Transition(b[s], p) # "INCREASE" =>
              Within(ValueOf(new, m, {s} \cup Companions(s)), equity, CorrelatedPct)
<1> DEFINE e        == b[s]
           replaces == Transition(e, p) \in {"REDUCE", "FLATTEN", "REVERSE"}
           proposed == m[s] * (IF replaces THEN Abs(p) ELSE Abs(p - e))
           replaced == IF replaces THEN {s} ELSE {}
<1>1. /\ Within(ValueOf(b, m, {s} \ replaced) + proposed, equity, SymbolPct)
      /\ Within(ValueOf(b, m, SectorPeers(s) \ replaced) + proposed, equity, SectorPct)
      /\ Within(ValueOf(b, m, Companions(s)) + proposed, equity, CorrelatedPct)
  BY DEF Spread
<1>2. /\ Transition(e, p) = "OPEN" => Abs(p - e) = Abs(p) /\ Abs(p - e) = Abs(p) - Abs(e)
      /\ Transition(e, p) = "INCREASE" => Abs(p - e) = Abs(p) - Abs(e)
      /\ replaces \/ Transition(e, p) \in {"OPEN", "INCREASE"}
  BY Kinds DEF Abs, Opposed, Beyond, Short
<1>3. ASSUME NEW ss \in SUBSET Symbols, s \in ss
      PROVE  ValueOf(new, m, ss) = ValueOf(b, m, ss \ replaced) + proposed
  <2>1. /\ ValueOf(new, m, ss) = ValueOf(b, m, ss) + m[s] * (Abs(p) - Abs(e))
        /\ ValueOf(new, m, ss) = ValueOf(b, m, ss \ {s}) + m[s] * Abs(p)
    BY <1>3, ValueChanged
  <2>2. CASE replaces
    BY <2>1, <2>2
  <2>3. CASE ~replaces
    <3>1. ss \ replaced = ss /\ proposed = m[s] * (Abs(p) - Abs(e))
      BY <1>2, <2>3
    <3> QED BY <2>1, <3>1
  <2> QED BY <2>2, <2>3
<1>4. /\ {s} \in SUBSET Symbols /\ SectorPeers(s) \in SUBSET Symbols /\ s \in SectorPeers(s)
      /\ {s} \cup Companions(s) \in SUBSET Symbols
      /\ ({s} \cup Companions(s)) \ {s} = Companions(s)
  BY NotItsOwnCompanion DEF SectorPeers, Companions
<1>5. ASSUME Transition(e, p) # "INCREASE"
      PROVE  ValueOf(new, m, {s} \cup Companions(s)) = ValueOf(b, m, Companions(s)) + proposed
  <2>1. ValueOf(new, m, {s} \cup Companions(s))
          = ValueOf(b, m, ({s} \cup Companions(s)) \ {s}) + m[s] * Abs(p)
    <3> DEFINE group == {s} \cup Companions(s)
    <3>1. group \in SUBSET Symbols /\ s \in group
      BY <1>4
    <3> HIDE DEF group
    <3>2. ValueOf(new, m, group) = ValueOf(b, m, group \ {s}) + m[s] * Abs(p)
      BY <3>1, ValueChanged
    <3> QED BY <3>2 DEF group
  <2>2. proposed = m[s] * Abs(p)
    BY <1>2, <1>5
  <2> QED BY <1>4, <2>1, <2>2
<1> HIDE DEF proposed, replaced
<1>6. /\ ValueOf(new, m, {s}) = ValueOf(b, m, {s} \ replaced) + proposed
      /\ ValueOf(new, m, SectorPeers(s)) = ValueOf(b, m, SectorPeers(s) \ replaced) + proposed
  BY <1>3, <1>4
<1> QED BY <1>1, <1>5, <1>6

(* Without a resize the order leaves exactly the book that was judged.     *)
LEMMA TakenExact ==
  ASSUME ~AllowResize,
         BookInv, NEW s \in Symbols, NEW target \in Quantities, NEW stop \in Stops, NEW vol,
         NEW available \in Available, NEW d, Taken(s, target, stop, vol, available, d)
  PROVE  ExactLimits'
<1> DEFINE new == [qty EXCEPT ![s] = target]
           a   == Account(available)
<1>1. /\ Equity \in Nat /\ Exposure(price) \in Int /\ qty \in [Symbols -> Int]
      /\ price \in [Symbols -> Nat \ {0}] /\ price \in [Symbols -> Nat]
      /\ target \in Int /\ qty[s] \in Int /\ target # qty[s] /\ stop \in Nat \ {0}
      /\ available \in Nat /\ price[s] \in Nat \ {0}
  <2>1. /\ Equity \in Nat /\ Exposure(price) \in Int /\ qty \in [Symbols -> Int]
        /\ price \in [Symbols -> Nat \ {0}] /\ target # qty[s]
    BY Figures DEF Taken
  <2>2. target \in Int /\ stop \in Nat \ {0} /\ available \in Nat
    BY BookAssumption DEF Quantities
  <2>3. price \in [Symbols -> Nat]
    BY <2>1
  <2> QED BY <2>1, <2>2, <2>3
<1>2. /\ a.equity = Equity /\ a.cash = available /\ a.gross = Exposure(price)
      /\ d = DecideTransition(a, qty[s], target, price[s], stop, vol) /\ d.approved
  BY DEF Account, Taken
<1> HIDE DEF a
<1>3. /\ After(qty[s], target, d) = target
      /\ d.projected = target /\ d.quantity = Abs(target - qty[s])
      /\ d.gross = Exposure(price) + price[s] * (Abs(target) - Abs(qty[s]))
  BY <1>1, <1>2, ExactDecision
<1>4. /\ qty' = new /\ price' = price /\ qty'[s] = target
      /\ Exposure(price)' = d.gross
      /\ Exposure(price)' = ValueOf(new, price, Symbols)
  <2>1. /\ qty' = new /\ price' = price
        /\ Exposure(price)' = Exposure(price) + price[s] * (Abs(target) - Abs(qty[s]))
        /\ Exposure(price)' = ValueOf(qty', price, Symbols)
    BY <1>3, TakenPosition
  <2> QED BY <1>1, <1>3, <2>1
<1>5. /\ last'.symbol = s /\ last'.from = qty[s] /\ last'.projected = target
      /\ last'.gross = d.gross /\ last'.equity = Equity
      /\ last'.foreseen = ValueOf(new, price, Symbols)
  BY <1>3 DEF Taken, Recorded, Projected
<1>6. ProjectionMet'
  BY <1>4, <1>5 DEF ProjectionMet
<1>7. /\ Within(ValueOf(new, price, {s}), Equity, PortfolioSymbolPct)
      /\ Within(ValueOf(new, price, SectorPeers(s)), Equity, PortfolioSectorPct)
  BY DEF Taken, PortfolioApproves, Projected
<1>8. /\ Within(ValueOf(new, price, {s}), Equity, SymbolPct)
      /\ Within(ValueOf(new, price, SectorPeers(s)), Equity, SectorPct)
      /\ Transition(qty[s], target) # "INCREASE" =>
           Within(ValueOf(new, price, {s} \cup Companions(s)), Equity, CorrelatedPct)
  <2>1. Spread(qty, price, Equity, s, d)
    BY DEF Taken
  <2> QED BY <1>1, <1>3, <2>1, SpreadMet
<1> HIDE DEF new
<1>9. SpreadHeld'
  BY <1>4, <1>5, <1>7, <1>8 DEF SpreadHeld, Concentrated
<1> QED BY <1>6, <1>9 DEF ExactLimits

(* Every step keeps that.                                                  *)
LEMMA ExactStep ==
  ASSUME ~AllowResize, BookInv, ExactLimits, [BookNext]_bookVars
  PROVE  ExactLimits'
<1>1. CASE UNCHANGED bookVars
  BY <1>1 DEF ExactLimits, SpreadHeld, ProjectionMet, Concentrated, Approved, Exposure,
              bookVars, accountVars, books
<1>2. CASE last' = NoAssessment
  BY <1>2 DEF ExactLimits, SpreadHeld, ProjectionMet, Approved, NoAssessment
<1>3. CASE \E s \in Symbols, target \in Quantities, stop \in Stops, vol \in Volatility,
              available \in Available : \E d : Taken(s, target, stop, vol, available, d)
  BY <1>3, TakenExact
<1> QED BY <1>1, <1>2, <1>3, Steps

(* The day starts with no approval.                                        *)
LEMMA LimitsInitially == BookInit => OrderLimits /\ ExactLimits
  BY DEF BookInit, NoAssessment, OrderLimits, ExactLimits, NeverMoreThanAsked, ExposureHeld,
         RiskBudgetHeld, SpreadHeld, ProjectionMet, Approved

(* Resized or not, no order passes what was asked for, puts more than the  *)
(* budget of one trade at risk, takes a slot there is not, or leaves the   *)
(* book above its exposure limit unless it makes it smaller                *)
(* (RiskEngine.evaluate and PaperTradingRuntime.submit).                   *)
THEOREM OrdersWithinLimits == BookSpec => [](NeverMoreThanAsked /\ ExposureHeld /\ RiskBudgetHeld /\ SlotsHeld)
<1>1. BookInit => OrderLimits
  BY LimitsInitially
<1>2. BookInv /\ OrderLimits /\ [BookNext]_bookVars => OrderLimits'
  BY LimitsStep
<1>3. BookInv /\ OrderLimits => NeverMoreThanAsked /\ ExposureHeld /\ RiskBudgetHeld /\ SlotsHeld
  BY DEF BookInv, OrderLimits
<1> QED BY <1>1, <1>2, <1>3, BookSafe, PTL DEF BookSpec

(* Without resizing the projections and the spread always hold.            *)
LEMMA ExactSafe == ~AllowResize => (BookSpec => []ExactLimits)
<1> SUFFICES ASSUME ~AllowResize PROVE BookSpec => []ExactLimits
  OBVIOUS
<1>1. BookInit => ExactLimits
  BY LimitsInitially
<1>2. BookInv /\ ExactLimits /\ [BookNext]_bookVars => ExactLimits'
  BY ExactStep
<1> QED BY <1>1, <1>2, BookSafe, PTL DEF BookSpec

(* With resizing disabled, the frozen configuration, an approved order     *)
(* keeps every limit it was judged by, those on concentration included,    *)
(* although Portfolio and Risk project the book in different ways.         *)
THEOREM LimitsAlwaysHeld == ~AllowResize => (BookSpec => []LimitsHeld)
<1> SUFFICES ASSUME ~AllowResize PROVE BookSpec => []LimitsHeld
  OBVIOUS
<1>1. BookSpec => []ExactLimits
  BY ExactSafe
<1>2. ExactLimits /\ NeverMoreThanAsked /\ ExposureHeld /\ RiskBudgetHeld /\ SlotsHeld => LimitsHeld
  BY DEF ExactLimits, LimitsHeld
<1> QED BY <1>1, <1>2, OrdersWithinLimits, PTL

(* ... and leaves the position and the exposure that both had projected.   *)
THEOREM ProjectionAlwaysMet == ~AllowResize => (BookSpec => []ProjectionMet)
<1> SUFFICES ASSUME ~AllowResize PROVE BookSpec => []ProjectionMet
  OBVIOUS
<1>1. BookSpec => []ExactLimits
  BY ExactSafe
<1>2. ExactLimits => ProjectionMet
  BY DEF ExactLimits
<1> QED BY <1>1, <1>2, PTL

-----------------------------------------------------------------------------
(* The candles of the session                                              *)

(* What a candle is of the trades of its bucket.                           *)
Faithful(c) ==
  LET T == TradesOf(c.start)
  IN  /\ \E k \in T : (\A j \in T : k <= j) /\ c.open = trades[k].price
      /\ \E k \in T : (\A j \in T : j <= k) /\ c.close = trades[k].price
      /\ \E k \in T : c.high = trades[k].price
      /\ \E k \in T : c.low = trades[k].price
      /\ \A j \in T : c.low <= trades[j].price /\ trades[j].price <= c.high
      /\ c.volume = SumFunction([j \in T |-> trades[j].volume])

TradesType == trades \in Seq(Trades)

(* The numbers of an accepted trade.                                       *)
LEMMA TradeTyped ==
  ASSUME NEW t \in Trades
  PROVE  t.price \in Nat \ {0} /\ t.volume \in Nat /\ t.time \in Int
<1>1. t.price \in TradePrices /\ t.volume \in Volumes /\ t.time \in Times
  BY DEF Trades
<1>2. TradePrices \subseteq Nat \ {0} /\ Volumes \subseteq Nat
  BY PipelineAssumption
<1>3. t.time \in Int
  BY <1>1 DEF Times
<1> QED
  BY <1>1, <1>2, <1>3

(* The trades so far and the ones of a bucket.                             *)
LEMMA Typed ==
  ASSUME TradesType
  PROVE  /\ Len(trades) \in Nat /\ DOMAIN trades = 1..Len(trades)
         /\ \A j \in DOMAIN trades : /\ trades[j].price \in Nat \ {0} /\ trades[j].volume \in Nat
                                     /\ trades[j].time \in Int
         /\ \A b : TradesOf(b) \subseteq 1..Len(trades) /\ IsFiniteSet(TradesOf(b))
<1>1. Len(trades) \in Nat /\ DOMAIN trades = 1..Len(trades)
      /\ \A j \in DOMAIN trades : trades[j] \in Trades
  BY DEF TradesType
<1>2. \A t \in Trades : t.price \in Nat \ {0} /\ t.volume \in Nat /\ t.time \in Int
  BY TradeTyped
<1>3. \A b : TradesOf(b) \subseteq 1..Len(trades)
  BY <1>1 DEF TradesOf
<1>4. IsFiniteSet(1..Len(trades))
  BY <1>1, FS_Interval
<1> QED
  BY <1>1, <1>2, <1>3, <1>4, FS_Subset

(* An element above all others is the maximum, one below all the minimum.  *)
LEMMA MaxIs ==
  ASSUME NEW S, S \subseteq Int, NEW m \in S, \A x \in S : x <= m
  PROVE  Max(S) = m
<1>1. \A y \in S : (\A x \in S : x <= y) => y = m
  OBVIOUS
<1> QED
  BY <1>1 DEF Max

LEMMA MinIs ==
  ASSUME NEW S, S \subseteq Int, NEW m \in S, \A x \in S : m <= x
  PROVE  Min(S) = m
<1>1. \A y \in S : (\A x \in S : y <= x) => y = m
  OBVIOUS
<1> QED
  BY <1>1 DEF Min

(* Such a candle is the one of the definition.                             *)
LEMMA FaithfulIs ==
  ASSUME TradesType, NEW c, Faithful(c)
  PROVE  Candle(c) = CandleOf(c.start)
<1> DEFINE T == TradesOf(c.start)
           ps == {trades[j].price : j \in T}
<1>1. T \subseteq Int /\ T \subseteq DOMAIN trades
  BY Typed DEF TradesOf
<1>2. ps \subseteq Int
  BY <1>1, Typed
<1>3. c.open = trades[Min(T)].price
  <2>1. PICK k \in T : (\A j \in T : k <= j) /\ c.open = trades[k].price
    BY DEF Faithful
  <2>2. Min(T) = k
    BY <1>1, <2>1, MinIs
  <2> QED
    BY <2>1, <2>2
<1>4. c.close = trades[Max(T)].price
  <2>1. PICK k \in T : (\A j \in T : j <= k) /\ c.close = trades[k].price
    BY DEF Faithful
  <2>2. Max(T) = k
    BY <1>1, <2>1, MaxIs
  <2> QED
    BY <2>1, <2>2
<1>5. c.high = Max(ps)
  <2>1. c.high \in ps /\ \A x \in ps : x <= c.high
    BY DEF Faithful
  <2> HIDE DEF ps
  <2> QED
    BY <1>2, <2>1, MaxIs
<1>6. c.low = Min(ps)
  <2>1. c.low \in ps /\ \A x \in ps : c.low <= x
    BY DEF Faithful
  <2> HIDE DEF ps
  <2> QED
    BY <1>2, <2>1, MinIs
<1>7. c.volume = SumFunction([j \in T |-> trades[j].volume])
  BY DEF Faithful
<1> QED
  BY <1>3, <1>4, <1>5, <1>6, <1>7 DEF Candle, CandleOf

(* A trade of another bucket changes nothing of a candle.                  *)
LEMMA FaithfulKept ==
  ASSUME TradesType, NEW e \in Trades, trades' = Append(trades, e),
         NEW c, Faithful(c), BucketStart(e.time) # c.start
  PROVE  Faithful(c)'
<1> DEFINE n == Len(trades)
<1>1. /\ n \in Nat /\ DOMAIN trades = 1..n /\ DOMAIN trades' = 1..(n + 1)
      /\ \A j \in 1..n : trades'[j] = trades[j]
      /\ trades'[n + 1] = e
  BY DEF TradesType
<1>2. TradesOf(c.start)' = TradesOf(c.start)
  <2>1. TradesOf(c.start)' = {j \in 1..(n + 1) : BucketStart(trades'[j].time) = c.start}
    BY <1>1 DEF TradesOf, BucketStart
  <2>2. TradesOf(c.start) = {j \in 1..n : BucketStart(trades[j].time) = c.start}
    BY <1>1 DEF TradesOf
  <2>3. \A j \in 1..(n + 1) : j \in 1..n \/ j = n + 1
    BY <1>1
  <2>4. 1..n \subseteq 1..(n + 1)
    BY <1>1
  <2> QED
    BY <1>1, <2>1, <2>2, <2>3, <2>4
<1>3. \A j \in TradesOf(c.start) : trades'[j] = trades[j]
  BY <1>1 DEF TradesOf
<1>4. [j \in TradesOf(c.start) |-> trades'[j].volume] = [j \in TradesOf(c.start) |-> trades[j].volume]
  BY <1>3
<1> QED
  BY <1>2, <1>3, <1>4 DEF Faithful

(* A trade of its bucket changes it as the aggregator does.                *)
LEMMA FaithfulWith ==
  ASSUME TradesType, NEW e \in Trades, trades' = Append(trades, e),
         NEW c, Faithful(c), BucketStart(e.time) = c.start, NEW d, d = WithTrade(c, e),
         DOMAIN c = {"start", "open", "high", "low", "close", "volume", "last"}
  PROVE  Faithful(d)' /\ d.start = c.start
<1> DEFINE n == Len(trades)
           T == TradesOf(c.start)
           U == T \cup {n + 1}
<1>1. /\ n \in Nat /\ DOMAIN trades = 1..n /\ DOMAIN trades' = 1..(n + 1)
      /\ \A j \in 1..n : trades'[j] = trades[j]
      /\ trades'[n + 1] = e
  BY DEF TradesType
<1>2. TradesOf(c.start)' = U
  <2>1. TradesOf(c.start)' = {j \in 1..(n + 1) : BucketStart(trades'[j].time) = c.start}
    BY <1>1 DEF TradesOf, BucketStart
  <2>2. T = {j \in 1..n : BucketStart(trades[j].time) = c.start}
    BY <1>1 DEF TradesOf
  <2>3. \A j \in 1..(n + 1) : j \in 1..n \/ j = n + 1
    BY <1>1
  <2>4. 1..n \subseteq 1..(n + 1) /\ n + 1 \in 1..(n + 1)
    BY <1>1
  <2> HIDE DEF T, n
  <2> QED
    BY <1>1, <2>1, <2>2, <2>3, <2>4
<1>3. /\ \A j \in T : trades'[j] = trades[j] /\ j <= n + 1 /\ j # n + 1 /\ j \in Int
      /\ \A j \in T : trades[j].price \in Int
      /\ T \subseteq U /\ n + 1 \in U /\ T # {} /\ IsFiniteSet(T)
  <2>1. T \subseteq 1..n /\ IsFiniteSet(T) /\ \A j \in 1..n : trades[j].price \in Int
    BY <1>1, Typed
  <2>2. T # {}
    BY DEF Faithful
  <2> HIDE DEF T, n
  <2> QED
    BY <1>1, <2>1, <2>2
<1>4. /\ d.start = c.start /\ d.open = c.open /\ d.close = e.price
      /\ d.high = Larger(c.high, e.price) /\ d.low = Smaller(c.low, e.price)
      /\ d.volume = c.volume + e.volume
  BY DEF WithTrade
<1>5. e.price \in Int /\ e.volume \in Int
  BY TradeTyped
<1>6. \E k \in U : (\A j \in U : k <= j) /\ d.open = trades'[k].price
  <2>1. PICK k \in T : (\A j \in T : k <= j) /\ c.open = trades[k].price
    BY DEF Faithful
  <2> HIDE DEF T, n
  <2> QED
    BY <1>3, <1>4, <2>1
<1>7. \E k \in U : (\A j \in U : j <= k) /\ d.close = trades'[k].price
  <2>1. n + 1 \in U /\ (\A j \in U : j <= n + 1) /\ d.close = trades'[n + 1].price
    BY <1>1, <1>3, <1>4
  <2> QED
    BY <2>1
<1>8. /\ \E k \in T : c.high = trades[k].price
      /\ \E k \in T : c.low = trades[k].price
      /\ \A j \in T : c.low <= trades[j].price /\ trades[j].price <= c.high
      /\ c.volume = SumFunction([j \in T |-> trades[j].volume])
  BY DEF Faithful
<1>9. /\ \E k \in U : d.high = trades'[k].price
      /\ \E k \in U : d.low = trades'[k].price
      /\ \A j \in U : d.low <= trades'[j].price /\ trades'[j].price <= d.high
  <2> HIDE DEF T, n
  <2>1. c.high \in Int /\ c.low \in Int
    BY <1>3, <1>8
  <2>2. d.high = e.price \/ d.high = c.high
    BY <1>4 DEF Larger
  <2>3. d.low = e.price \/ d.low = c.low
    BY <1>4 DEF Smaller
  <2>4. d.high >= e.price /\ d.high >= c.high /\ d.low <= e.price /\ d.low <= c.low
        /\ d.high \in Int /\ d.low \in Int
    BY <1>4, <1>5, <2>1 DEF Larger, Smaller
  <2>5. \E k \in U : d.high = trades'[k].price
    BY <1>1, <1>3, <1>8, <2>2
  <2>6. \E k \in U : d.low = trades'[k].price
    BY <1>1, <1>3, <1>8, <2>3
  <2>7. ASSUME NEW j \in U PROVE d.low <= trades'[j].price /\ trades'[j].price <= d.high
    <3>1. CASE j = n + 1
      BY <1>1, <2>4, <3>1
    <3>2. CASE j \in T
      <4>1. /\ trades'[j].price = trades[j].price /\ trades[j].price \in Int
            /\ c.low <= trades[j].price /\ trades[j].price <= c.high
        BY <1>3, <1>8, <3>2
      <4> HIDE DEF U
      <4> QED
        BY <2>1, <2>4, <4>1
    <3> QED
      BY <3>1, <3>2
  <2> QED
    BY <2>5, <2>6, <2>7
<1>10. d.volume = SumFunction([j \in U |-> trades'[j].volume])
  <2> DEFINE f == [j \in T |-> trades[j].volume]
             h == [j \in U |-> trades'[j].volume]
  <2>1. f \in [T -> Int] /\ h \in [U -> Int] /\ IsFiniteSet(U) /\ T \in SUBSET T /\ U \ {n + 1} = T
    <3>1. \A j \in T : trades[j].volume \in Int
      BY <1>3, Typed DEF TradesOf
    <3>2. \A j \in U : trades'[j].volume \in Int
      <4>1. \A j \in T : trades'[j].volume \in Int
        BY <1>3, <3>1
      <4> HIDE DEF T, n
      <4> QED
        BY <1>1, <1>5, <4>1
    <3>3. IsFiniteSet(U)
      BY <1>3, FS_AddElement
    <3>4. U \ {n + 1} = T
      BY <1>3
    <3> HIDE DEF T, U, n
    <3> QED
      BY <3>1, <3>2, <3>3, <3>4
  <2>2. \A j \in T : f[j] = h[j]
    BY <1>3
  <2>3. h[n + 1] = e.volume
    BY <1>1
  <2> HIDE DEF f, h
  <2>4. SumFunctionOnSet(h, U) = h[n + 1] + SumFunctionOnSet(h, U \ {n + 1})
    <3>1. n + 1 \in U /\ U \in SUBSET U
      OBVIOUS
    <3> HIDE DEF U, T, n
    <3> QED
      BY <2>1, <3>1, SumTaken
  <2>5. SumFunctionOnSet(f, T) = SumFunctionOnSet(h, T) /\ SumFunctionOnSet(f, T) \in Int
    <3>1. T \subseteq U
      OBVIOUS
    <3> HIDE DEF U, T, n
    <3>2. SumFunctionOnSet(f, T) = SumFunctionOnSet(h, T)
      BY <1>3, <2>1, <2>2, <3>1, SumSame
    <3>3. SumFunctionOnSet(f, T) \in Int
      BY <1>3, <2>1, SumTaken
    <3> QED
      BY <3>2, <3>3
  <2>6. SumFunction(f) = SumFunctionOnSet(f, T) /\ SumFunction(h) = SumFunctionOnSet(h, U)
    BY <2>1 DEF SumFunction
  <2>7. c.volume = SumFunction(f)
    BY <1>8 DEF f
  <2>8. SumFunction(h) = c.volume + e.volume
    <3>1. SumFunctionOnSet(h, U \ {n + 1}) = SumFunctionOnSet(h, T)
      BY <2>1
    <3> HIDE DEF U, T, n
    <3> QED
      BY <1>5, <2>3, <2>4, <2>5, <2>6, <2>7, <3>1
  <2> QED
    BY <1>4, <2>8 DEF h
<1> HIDE DEF U, T, n
<1> QED
  BY <1>2, <1>4, <1>6, <1>7, <1>9, <1>10 DEF Faithful

(* A trade of a new bucket is its candle.                                  *)
LEMMA FaithfulNew ==
  ASSUME TradesType, NEW e \in Trades, trades' = Append(trades, e),
         \A j \in DOMAIN trades : BucketStart(trades[j].time) # BucketStart(e.time),
         NEW d, d = NewCandle(e)
  PROVE  Faithful(d)' /\ d.start = BucketStart(e.time)
<1> DEFINE n == Len(trades)
           b == BucketStart(e.time)
<1>1. /\ n \in Nat /\ DOMAIN trades = 1..n /\ DOMAIN trades' = 1..(n + 1)
      /\ \A j \in 1..n : trades'[j] = trades[j]
      /\ trades'[n + 1] = e
  BY DEF TradesType
<1>2. TradesOf(b)' = {n + 1}
  <2>1. TradesOf(b)' = {j \in 1..(n + 1) : BucketStart(trades'[j].time) = b}
    BY <1>1 DEF TradesOf, BucketStart
  <2>2. \A j \in 1..n : BucketStart(trades'[j].time) # b
    BY <1>1
  <2>3. \A j \in 1..(n + 1) : j \in 1..n \/ j = n + 1
    BY <1>1
  <2>4. n + 1 \in 1..(n + 1)
    BY <1>1
  <2> HIDE DEF b, n
  <2>5. BucketStart(trades'[n + 1].time) = b
    BY <1>1 DEF b
  <2> QED
    BY <2>1, <2>2, <2>3, <2>4, <2>5
<1>3. e.price \in Int /\ e.volume \in Int
  BY TradeTyped
<1>4. /\ d.start = b /\ d.open = e.price /\ d.close = e.price /\ d.high = e.price
      /\ d.low = e.price /\ d.volume = e.volume
  BY DEF NewCandle
<1>5. SumFunction([j \in {n + 1} |-> trades'[j].volume]) = e.volume
  <2> DEFINE h == [j \in {n + 1} |-> trades'[j].volume]
             S == {n + 1}
  <2>1. h \in [S -> Int] /\ h[n + 1] = e.volume /\ IsFiniteSet(S) /\ S \ {n + 1} = {} /\ n + 1 \in S
    BY <1>1, <1>3, FS_Singleton
  <2> HIDE DEF h, S
  <2>2. SumFunctionOnSet(h, S) = h[n + 1] + SumFunctionOnSet(h, S \ {n + 1})
    BY <2>1, SumTaken
  <2>3. SumFunctionOnSet(h, S \ {n + 1}) = 0
    BY <2>1, SumTaken
  <2>4. SumFunction(h) = SumFunctionOnSet(h, S)
    BY <2>1 DEF SumFunction
  <2>5. SumFunction(h) = e.volume
    BY <1>3, <2>1, <2>2, <2>3, <2>4
  <2> QED
    BY <2>5 DEF h
<1> HIDE DEF b, n
<1>6. Faithful(d)' <=>
        LET T == TradesOf(b)'
        IN  /\ \E k \in T : (\A j \in T : k <= j) /\ d.open = trades'[k].price
            /\ \E k \in T : (\A j \in T : j <= k) /\ d.close = trades'[k].price
            /\ \E k \in T : d.high = trades'[k].price
            /\ \E k \in T : d.low = trades'[k].price
            /\ \A j \in T : d.low <= trades'[j].price /\ trades'[j].price <= d.high
            /\ d.volume = SumFunction([j \in T |-> trades'[j].volume])
  BY <1>4 DEF Faithful
<1> QED
  BY <1>1, <1>2, <1>3, <1>4, <1>5, <1>6 DEF b

(* The bucket of a time; in the session it starts at a positive tick.      *)
LEMMA BucketTyped ==
  ASSUME NEW t \in Int
  PROVE  BucketStart(t) \in Int /\ (InSession(t) => BucketStart(t) \in Nat \ {0})
<1> DEFINE k == (t - SessionStart) \div Timeframe
<1>1. SessionStart \in Nat \ {0} /\ Timeframe \in Nat \ {0}
  BY PipelineAssumption
<1>2. k \in Int /\ (t >= SessionStart => k >= 0)
  BY <1>1
<1> HIDE DEF k
<1>3. k * Timeframe \in Int /\ (k >= 0 => k * Timeframe >= 0)
  BY <1>1, <1>2
<1>4. BucketStart(t) = SessionStart + k * Timeframe
  BY DEF BucketStart, k
<1> HIDE DEF k
<1> QED
  BY <1>1, <1>2, <1>3, <1>4 DEF InSession

FormingFields == {"start", "open", "high", "low", "close", "volume", "last"}

(* The trades so far, and the candles that hold them.                      *)
Bucketed ==
  /\ TradesType /\ candles \in Seq(Range(candles))
  /\ forming = NoCandle => trades = <<>> /\ candles = <<>>
  /\ forming # NoCandle =>
       /\ DOMAIN forming = FormingFields /\ forming.start \in Nat \ {0} /\ Faithful(forming)
       /\ \A j \in DOMAIN trades : BucketStart(trades[j].time) <= forming.start
  /\ \A i \in DOMAIN candles :
       /\ candles[i].start \in Nat \ {0} /\ candles[i].start < forming.start
       /\ Candle(candles[i]) = candles[i] /\ Faithful(candles[i])
  /\ \A i, j \in DOMAIN candles : i < j => candles[i].start < candles[j].start
  /\ \A j \in DOMAIN trades :
       \/ BucketStart(trades[j].time) = forming.start
       \/ \E i \in DOMAIN candles : candles[i].start = BucketStart(trades[j].time)

(* The prices of such a candle are positive.                               *)
LEMMA CandleTyped ==
  ASSUME TradesType, NEW c, Faithful(c)
  PROVE  /\ c.open \in Nat \ {0} /\ c.close \in Nat \ {0}
         /\ c.high \in Nat \ {0} /\ c.low \in Nat \ {0}
         /\ Faithful(Candle(c)) /\ Candle(Candle(c)) = Candle(c) /\ Candle(c).start = c.start
<1>1. \A k \in TradesOf(c.start) : trades[k].price \in Nat \ {0}
  BY Typed DEF TradesOf
<1>2. c.open \in Nat \ {0} /\ c.close \in Nat \ {0} /\ c.high \in Nat \ {0} /\ c.low \in Nat \ {0}
  BY <1>1 DEF Faithful
<1>3. Candle(Candle(c)) = Candle(c) /\ Candle(c).start = c.start
  BY DEF Candle
<1>4. Faithful(Candle(c))
  BY DEF Faithful, Candle
<1> QED
  BY <1>2, <1>3, <1>4

(* The property is what Bucketed says.                                     *)
LEMMA BucketedExact == Bucketed => CandlesExact
<1> SUFFICES ASSUME Bucketed PROVE CandlesExact
  OBVIOUS
<1> DEFINE all    == IF trades = <<>> THEN candles ELSE Append(candles, Candle(forming))
           starts == [i \in DOMAIN all |-> all[i].start]
           m      == Len(candles)
<1>1. m \in Nat /\ DOMAIN candles = 1..m /\ DOMAIN trades = 1..Len(trades) /\ Len(trades) \in Nat
  BY DEF Bucketed, TradesType
<1>2. CASE trades = <<>>
  <2>1. DOMAIN trades = {}
    BY <1>2
  <2>2. forming = NoCandle
    <3>1. ASSUME forming # NoCandle PROVE FALSE
      <4>1. TradesOf(forming.start) # {}
        BY <3>1 DEF Bucketed, Faithful
      <4> QED
        BY <2>1, <4>1 DEF TradesOf
    <3> QED
      BY <3>1
  <2>3. all = <<>> /\ DOMAIN all = {}
    BY <1>2, <2>2 DEF Bucketed
  <2> QED
    BY <2>1, <2>3 DEF CandlesExact, Range, Buckets
<1>3. CASE trades # <<>>
  <2> DEFINE c == Candle(forming)
  <2>1. forming # NoCandle
    BY <1>3 DEF Bucketed
  <2>2. /\ forming.start \in Nat \ {0} /\ Faithful(c) /\ Candle(c) = c /\ c.start = forming.start
    BY <2>1, CandleTyped DEF Bucketed
  <2> HIDE DEF c
  <2>3. /\ all = Append(candles, c) /\ DOMAIN all = 1..(m + 1)
        /\ \A i \in 1..m : all[i] = candles[i]
        /\ all[m + 1] = c
    <3>1. all = Append(candles, c)
      BY <1>3 DEF c
    <3> HIDE DEF all
    <3> QED
      BY <1>1, <3>1 DEF Bucketed
  <2>4. \A i \in 1..(m + 1) : i \in 1..m \/ i = m + 1
    BY <1>1
  <2> HIDE DEF all
  <2>5. \A i \in DOMAIN all : Faithful(all[i]) /\ Candle(all[i]) = all[i]
    BY <1>1, <2>2, <2>3, <2>4 DEF Bucketed
  <2>6. \A i \in DOMAIN all : all[i] = CandleOf(starts[i])
    <3>1. ASSUME NEW i \in DOMAIN all PROVE all[i] = CandleOf(starts[i])
      <4>1. PICK x : x = all[i]
        OBVIOUS
      <4>2. Candle(x) = CandleOf(x.start)
        BY <2>5, <4>1, FaithfulIs DEF Bucketed
      <4>3. starts[i] = x.start
        BY <4>1
      <4> QED
        BY <2>5, <4>1, <4>2, <4>3
    <3> QED
      BY <3>1
  <2>7. \A i, j \in DOMAIN all : i < j => starts[i] < starts[j]
    <3>1. ASSUME NEW i \in DOMAIN all, NEW j \in DOMAIN all, i < j PROVE all[i].start < all[j].start
      <4>1. i \in 1..m
        BY <1>1, <2>3, <3>1
      <4>2. CASE j \in 1..m
        BY <1>1, <2>3, <3>1, <4>1, <4>2 DEF Bucketed
      <4>3. CASE j = m + 1
        BY <1>1, <2>2, <2>3, <4>1, <4>3 DEF Bucketed
      <4> QED
        BY <2>3, <2>4, <4>2, <4>3
    <3> QED
      BY <3>1
  <2>8. Range(starts) = Buckets
    <3>1. ASSUME NEW i \in DOMAIN all PROVE all[i].start \in Buckets
      <4>1. PICK k \in TradesOf(all[i].start) : TRUE
        BY <2>5 DEF Faithful
      <4> QED
        BY <4>1 DEF TradesOf, Buckets
    <3>2. ASSUME NEW j \in DOMAIN trades PROVE \E i \in DOMAIN all : all[i].start = BucketStart(trades[j].time)
      <4>1. CASE BucketStart(trades[j].time) = forming.start
        <5>1. m + 1 \in DOMAIN all
          BY <1>1, <2>3
        <5> QED
          BY <2>2, <2>3, <4>1, <5>1
      <4>2. CASE \E i \in DOMAIN candles : candles[i].start = BucketStart(trades[j].time)
        <5>1. PICK i \in DOMAIN candles : candles[i].start = BucketStart(trades[j].time)
          BY <4>2
        <5>2. i \in DOMAIN all /\ all[i] = candles[i]
          BY <1>1, <2>3, <5>1
        <5> QED
          BY <5>1, <5>2
      <4> QED
        BY <4>1, <4>2 DEF Bucketed
    <3>3. Range(starts) = {all[i].start : i \in DOMAIN all}
      BY DEF Range
    <3> HIDE DEF starts
    <3> QED
      BY <3>1, <3>2, <3>3 DEF Buckets
  <2> QED
    BY <2>6, <2>7, <2>8 DEF CandlesExact, all, c
<1> QED
  BY <1>2, <1>3

(* The first trade, one of the candle forming, and one that completes it.  *)
LEMMA FirstBucketed ==
  ASSUME Bucketed, NEW e \in Trades, FirstTrade(e)
  PROVE  Bucketed'
<1>1. trades = <<>> /\ candles = <<>> /\ candles' = <<>> /\ trades' = Append(trades, e)
      /\ forming' = NewCandle(e)
  BY DEF FirstTrade, Bucketed
<1>2. PICK d : d = NewCandle(e)
  OBVIOUS
<1>3. BucketStart(e.time) \in Nat \ {0}
  BY TradeTyped, BucketTyped DEF FirstTrade
<1>4. Faithful(d)' /\ d.start = BucketStart(e.time)
  BY <1>1, <1>2, FaithfulNew DEF Bucketed
<1>5. DOMAIN d = FormingFields
  BY <1>2 DEF NewCandle, FormingFields
<1>6. DOMAIN trades' = {1} /\ trades'[1] = e /\ TradesType'
  BY <1>1 DEF Bucketed, TradesType
<1>7. forming' = d /\ forming' # NoCandle
  <2>1. d.start # -1
    BY <1>3, <1>4
  <2> QED
    BY <1>1, <1>2, <2>1 DEF NoCandle
<1>8. candles' \in Seq(Range(candles')) /\ DOMAIN candles' = {}
  BY <1>1, EmptyListed
<1>9. \A j \in DOMAIN trades' : BucketStart(trades'[j].time) = d.start
  BY <1>4, <1>6
<1>10. d.start \in Nat \ {0} /\ d.start <= d.start
  BY <1>3, <1>4
<1> QED
  BY <1>4, <1>5, <1>6, <1>7, <1>8, <1>9, <1>10 DEF Bucketed, BucketStart

(* A trade of the candle that forms.                                       *)
LEMMA SameBucketed ==
  ASSUME Bucketed, NEW e \in Trades, SameCandle(e)
  PROVE  Bucketed' /\ forming'.start = forming.start
<1>1. /\ forming # NoCandle /\ candles' = candles /\ trades' = Append(trades, e)
      /\ forming' = WithTrade(forming, e) /\ BucketStart(e.time) = forming.start
  BY DEF SameCandle
<1>2. PICK c : c = forming
  OBVIOUS
<1>3. PICK d : d = WithTrade(c, e)
  OBVIOUS
<1>4. /\ DOMAIN c = FormingFields /\ c.start \in Nat \ {0} /\ Faithful(c)
      /\ \A j \in DOMAIN trades : BucketStart(trades[j].time) <= c.start
  BY <1>1, <1>2 DEF Bucketed
<1>5. Faithful(d)' /\ d.start = c.start /\ DOMAIN d = FormingFields
  <2>1. Faithful(d)' /\ d.start = c.start
    BY <1>1, <1>2, <1>3, <1>4, FaithfulWith DEF Bucketed, FormingFields
  <2>2. DOMAIN d = FormingFields
    BY <1>3, <1>4 DEF WithTrade
  <2> QED
    BY <2>1, <2>2
<1>6. /\ DOMAIN trades = 1..Len(trades) /\ DOMAIN trades' = 1..(Len(trades) + 1)
      /\ \A j \in 1..(Len(trades) + 1) : j \in DOMAIN trades \/ j = Len(trades) + 1
      /\ \A j \in DOMAIN trades : trades'[j] = trades[j]
      /\ trades'[Len(trades) + 1] = e /\ TradesType'
  BY <1>1 DEF Bucketed, TradesType
<1>7. forming' = d /\ forming' # NoCandle
  <2>1. d.start # -1
    BY <1>4, <1>5
  <2> QED
    BY <1>1, <1>2, <1>3, <2>1 DEF NoCandle
<1>8. \A j \in DOMAIN trades' :
        /\ BucketStart(trades'[j].time) <= d.start
        /\ \/ BucketStart(trades'[j].time) = d.start
           \/ \E i \in DOMAIN candles : candles[i].start = BucketStart(trades'[j].time)
  <2>1. ASSUME NEW j \in DOMAIN trades
        PROVE  /\ BucketStart(trades'[j].time) <= d.start
               /\ \/ BucketStart(trades'[j].time) = d.start
                  \/ \E i \in DOMAIN candles : candles[i].start = BucketStart(trades'[j].time)
    BY <1>2, <1>4, <1>5, <1>6 DEF Bucketed
  <2>2. BucketStart(trades'[Len(trades) + 1].time) = d.start /\ d.start <= d.start
    BY <1>1, <1>2, <1>4, <1>5, <1>6
  <2> QED
    BY <1>6, <2>1, <2>2
<1>9. ASSUME NEW i \in DOMAIN candles
      PROVE  /\ candles[i].start \in Nat \ {0} /\ candles[i].start < d.start
             /\ Candle(candles[i]) = candles[i] /\ Faithful(candles[i])'
  <2>1. PICK x : x = candles[i]
    OBVIOUS
  <2>2. x.start \in Nat \ {0} /\ x.start < c.start /\ Candle(x) = x /\ Faithful(x)
    BY <1>2, <2>1 DEF Bucketed
  <2>3. BucketStart(e.time) # x.start
    BY <1>1, <1>2, <1>4, <2>2
  <2>4. Faithful(x)'
    BY <1>1, <2>2, <2>3, FaithfulKept DEF Bucketed
  <2>5. candles'[i] = x
    BY <1>1, <2>1
  <2>6. Faithful(candles[i])'
    BY <2>4, <2>5
  <2> QED
    BY <1>5, <2>1, <2>2, <2>6
<1> HIDE DEF FormingFields
<1>10. candles \in Seq(Range(candles))
       /\ \A i, j \in DOMAIN candles : i < j => candles[i].start < candles[j].start
  BY DEF Bucketed
<1> QED
  BY <1>1, <1>2, <1>4, <1>5, <1>6, <1>7, <1>8, <1>9, <1>10 DEF Bucketed, BucketStart

(* A trade that completes it.                                              *)
LEMMA NextBucketed ==
  ASSUME Bucketed, NEW e \in Trades, NextCandle(e)
  PROVE  /\ Bucketed' /\ forming.start < forming'.start /\ forming # NoCandle
         /\ forming'.start = BucketStart(e.time) /\ trades' = Append(trades, e)
<1>1. /\ forming # NoCandle /\ candles' = Append(candles, Candle(forming))
      /\ trades' = Append(trades, e)
      /\ forming' = NewCandle(e) /\ BucketStart(e.time) > forming.start
  BY DEF NextCandle
<1>2. PICK c : c = Candle(forming)
  OBVIOUS
<1>3. PICK d : d = NewCandle(e)
  OBVIOUS
<1>4. /\ c.start \in Nat \ {0} /\ c.start = forming.start /\ Faithful(c) /\ Candle(c) = c
      /\ \A j \in DOMAIN trades : BucketStart(trades[j].time) <= c.start
  BY <1>1, <1>2, CandleTyped DEF Bucketed
<1>5. BucketStart(e.time) \in Nat \ {0}
  BY TradeTyped, BucketTyped DEF NextCandle
<1>6. /\ DOMAIN trades = 1..Len(trades) /\ DOMAIN trades' = 1..(Len(trades) + 1)
      /\ \A j \in 1..(Len(trades) + 1) : j \in DOMAIN trades \/ j = Len(trades) + 1
      /\ \A j \in DOMAIN trades : trades'[j] = trades[j]
      /\ trades'[Len(trades) + 1] = e /\ TradesType'
  BY <1>1 DEF Bucketed, TradesType
<1>7. \A j \in DOMAIN trades : BucketStart(trades[j].time) \in Int
  BY Typed, BucketTyped DEF Bucketed
<1>8. Faithful(d)' /\ d.start = BucketStart(e.time) /\ DOMAIN d = FormingFields
  <2>1. \A j \in DOMAIN trades : BucketStart(trades[j].time) # BucketStart(e.time)
    BY <1>1, <1>4, <1>5, <1>7
  <2>2. Faithful(d)' /\ d.start = BucketStart(e.time)
    BY <1>1, <1>3, <2>1, FaithfulNew DEF Bucketed
  <2>3. DOMAIN d = FormingFields
    BY <1>3 DEF NewCandle, FormingFields
  <2> QED
    BY <2>2, <2>3
<1>9. forming' = d /\ forming' # NoCandle /\ c.start < d.start /\ d.start \in Nat \ {0}
  <2>1. d.start # -1
    BY <1>5, <1>8
  <2> QED
    BY <1>1, <1>3, <1>4, <1>5, <1>8, <2>1 DEF NoCandle
<1>10. /\ DOMAIN candles = 1..Len(candles) /\ Len(candles) \in Nat
       /\ DOMAIN candles' = 1..(Len(candles) + 1)
       /\ \A i \in 1..(Len(candles) + 1) : i \in DOMAIN candles \/ i = Len(candles) + 1
       /\ Len(candles) + 1 \in DOMAIN candles'
       /\ \A i \in DOMAIN candles : candles'[i] = candles[i] /\ i \in DOMAIN candles'
       /\ candles'[Len(candles) + 1] = c /\ candles' \in Seq(Range(candles'))
  <2>1. candles' = Append(candles, c) /\ candles \in Seq(Range(candles))
    BY <1>1, <1>2 DEF Bucketed
  <2>2. /\ candles' \in Seq(Range(candles')) /\ DOMAIN candles = 1..Len(candles) /\ Len(candles) \in Nat
    BY <2>1, Appended
  <2>3. /\ DOMAIN candles' = 1..(Len(candles) + 1) /\ candles'[Len(candles) + 1] = c
        /\ \A i \in 1..Len(candles) : candles'[i] = candles[i]
    BY <2>1, <2>2
  <2> QED
    BY <2>2, <2>3
<1>11. \A j \in DOMAIN trades' :
        /\ BucketStart(trades'[j].time) <= d.start
        /\ \/ BucketStart(trades'[j].time) = d.start
           \/ \E i \in DOMAIN candles' : candles'[i].start = BucketStart(trades'[j].time)
  <2>1. ASSUME NEW j \in DOMAIN trades
        PROVE  /\ BucketStart(trades'[j].time) <= d.start
               /\ \E i \in DOMAIN candles' : candles'[i].start = BucketStart(trades'[j].time)
    <3>1. BucketStart(trades[j].time) <= d.start
      BY <1>4, <1>7, <1>9
    <3>2. CASE BucketStart(trades[j].time) = forming.start
      BY <1>4, <1>6, <1>10, <3>1, <3>2
    <3>3. CASE \E i \in DOMAIN candles : candles[i].start = BucketStart(trades[j].time)
      <4>1. PICK i \in DOMAIN candles : candles[i].start = BucketStart(trades[j].time)
        BY <3>3
      <4> QED
        BY <1>6, <1>10, <3>1, <4>1
    <3> QED
      BY <3>2, <3>3 DEF Bucketed
  <2>2. BucketStart(trades'[Len(trades) + 1].time) = d.start /\ d.start <= d.start
    BY <1>6, <1>8, <1>9
  <2> QED
    BY <1>6, <2>1, <2>2
<1>12. \A i \in DOMAIN candles : candles[i].start \in Nat \ {0} /\ candles[i].start < c.start
  BY <1>4 DEF Bucketed
<1>13. ASSUME NEW i \in DOMAIN candles'
       PROVE  /\ candles'[i].start \in Nat \ {0} /\ candles'[i].start < d.start
              /\ Candle(candles'[i]) = candles'[i] /\ Faithful(candles[i])'
  <2>1. PICK x : x = candles'[i]
    OBVIOUS
  <2>2. x.start \in Nat \ {0} /\ x.start < d.start /\ Candle(x) = x /\ Faithful(x)
    <3>1. CASE i \in DOMAIN candles
      <4>1. x = candles[i]
        BY <1>10, <2>1, <3>1
      <4>2. x.start < d.start
        BY <1>4, <1>9, <1>12, <3>1, <4>1
      <4> QED
        BY <1>12, <3>1, <4>1, <4>2 DEF Bucketed
    <3>2. CASE i = Len(candles) + 1
      BY <1>4, <1>9, <1>10, <2>1, <3>2
    <3> QED
      BY <1>10, <3>1, <3>2
  <2>3. BucketStart(e.time) # x.start
    BY <1>8, <1>9, <2>2
  <2>4. Faithful(x)'
    BY <1>1, <2>2, <2>3, FaithfulKept DEF Bucketed
  <2>5. Faithful(candles[i])'
    BY <2>1, <2>4
  <2> QED
    BY <2>1, <2>2, <2>5
<1>14. \A i, j \in DOMAIN candles' : i < j => candles'[i].start < candles'[j].start
  <2>1. ASSUME NEW i \in DOMAIN candles', NEW j \in DOMAIN candles', i < j
        PROVE  candles'[i].start < candles'[j].start
    <3>1. i \in DOMAIN candles
      BY <1>10, <2>1
    <3>2. CASE j \in DOMAIN candles
      BY <1>10, <2>1, <3>1, <3>2 DEF Bucketed
    <3>3. CASE j = Len(candles) + 1
      BY <1>10, <1>12, <3>1, <3>3
    <3> QED
      BY <1>10, <3>2, <3>3
  <2> QED
    BY <2>1
<1> HIDE DEF FormingFields
<1> QED
  BY <1>1, <1>4, <1>6, <1>8, <1>9, <1>10, <1>11, <1>13, <1>14 DEF Bucketed, BucketStart

(* What arrives is a trade.                                                *)
LEMMA Arrives == Arriving \subseteq Trades
BY DEF Arriving, Trades

(* The pipeline's own variables are of their types.                        *)
Fed ==
  /\ now \in 0..SessionEnd /\ seen \subseteq Times \X Volumes
  /\ feed \in {"open", "ended", "raised"}

(* The pipeline starts so.                                                 *)
LEMMA BucketedInitially == PipelineInit => Bucketed /\ Fed
<1> SUFFICES ASSUME PipelineInit PROVE Bucketed /\ Fed
  OBVIOUS
<1>1. /\ forming = NoCandle /\ candles = <<>> /\ trades = <<>> /\ now = 0 /\ seen = {} /\ feed = "open"
      /\ DOMAIN trades = {} /\ DOMAIN candles = {}
  BY DEF PipelineInit
<1>2. candles \in Seq(Range(candles)) /\ TradesType
  BY <1>1, EmptyListed DEF TradesType
<1>3. Fed
  BY <1>1, PipelineAssumption DEF Fed
<1> QED
  BY <1>1, <1>2, <1>3 DEF Bucketed

(* A step that touches no candle keeps what the candles are.               *)
LEMMA BucketedAlone ==
  ASSUME Bucketed, UNCHANGED <<forming, candles, trades>>
  PROVE  Bucketed'
<1>1. /\ forming' = forming /\ candles' = candles /\ trades' = trades
      /\ \A b : TradesOf(b)' = TradesOf(b)
  BY DEF TradesOf, BucketStart
<1>2. Faithful(forming) => Faithful(forming)'
  BY <1>1 DEF Faithful
<1>3. \A i \in DOMAIN candles : Faithful(candles[i]) => Faithful(candles[i])'
  BY <1>1 DEF Faithful
<1> QED
  BY <1>1, <1>2, <1>3 DEF Bucketed, TradesType, BucketStart

(* An accepted trade keeps the types of the pipeline.                      *)
LEMMA FedBy ==
  ASSUME Fed, NEW e \in Trades, Accept(e), feed' \in {"open", "ended", "raised"}
  PROVE  Fed'
<1>1. EventId(e) \in Times \X Volumes
  BY DEF EventId, Trades
<1> QED
  BY <1>1 DEF Fed, Accept

(* What a step of the session may do to the pipeline: nothing that touches *)
(* its candles; a trade of the candle that forms, read while nothing else  *)
(* happens; or a trade that completes a candle, with what that candle does.*)
Quiet == UNCHANGED <<forming, candles, trades>>
Joined(e) == (FirstTrade(e) \/ SameCandle(e)) /\ UNCHANGED session
Completed(e) ==
  /\ NextCandle(e) /\ Reading
  /\ \/ \E side \in {-1, 0, 1} : OnCandle(Candle(forming), side)
     \/ CandleRaises(Candle(forming))

(* Every step of the session is one of these.                              *)
LEMMA SessionSteps ==
  ASSUME Fed, [Next]_vars
  PROVE  /\ Fed'
         /\ \/ Quiet /\ (UNCHANGED session \/ SessionRaises \/ Finalize)
            \/ \E e \in Trades : Joined(e) \/ Completed(e)
<1>1. CASE UNCHANGED vars
  BY <1>1 DEF vars, pipelineVars, session, Quiet, Fed
<1>2. ASSUME NEW e \in Arriving, Trade(e)
      PROVE  Fed' /\ (Joined(e) \/ (Quiet /\ (UNCHANGED session \/ SessionRaises)))
  <2>1. e \in Trades
    BY Arrives
  <2>2. Accept(e) /\ feed' \in {"open", "ended", "raised"}
    BY <1>2 DEF Trade, OutsideSession, FirstTrade, SameCandle, OutOfOrder, Fed
  <2>3. Fed'
    BY <2>1, <2>2, FedBy
  <2> QED
    BY <1>2, <2>3 DEF Trade, OutsideSession, OutOfOrder, Joined, Quiet
<1>3. ASSUME NEW e \in Arriving, Reading, NextCandle(e)
      PROVE  Fed' /\ e \in Trades
  <2>1. e \in Trades
    BY Arrives
  <2>2. Accept(e) /\ feed' \in {"open", "ended", "raised"}
    BY <1>3 DEF NextCandle, Fed
  <2> QED
    BY <2>1, <2>2, FedBy
<1>4. ASSUME NEW e \in Arriving, Fail(e) PROVE Fed' /\ e \in Trades /\ Completed(e)
  BY <1>3, <1>4 DEF Fail, Completed
<1>5. ASSUME NEW e \in Arriving, NEW side \in {-1, 0, 1}, Decide(e, side)
      PROVE Fed' /\ e \in Trades /\ Completed(e)
  BY <1>3, <1>5 DEF Decide, Completed
<1>6. CASE Reading /\ Tick /\ UNCHANGED session
  <2>1. now' \in 0..SessionEnd
    BY <1>6, PipelineAssumption DEF Tick, Fed
  <2> QED
    BY <1>6, <2>1 DEF Tick, Fed, Quiet
<1>7. CASE FeedEnds /\ Finalize
  BY <1>7 DEF FeedEnds, Fed, Quiet
<1> QED
  BY <1>1, <1>2, <1>4, <1>5, <1>6, <1>7, Arrives DEF Next

(* The candles stay what they are through every step.                      *)
LEMMA BucketedStep == Bucketed /\ Fed /\ [Next]_vars => Bucketed' /\ Fed'
<1> SUFFICES ASSUME Bucketed, Fed, [Next]_vars PROVE Bucketed' /\ Fed'
  OBVIOUS
<1>1. CASE Quiet
  BY <1>1, SessionSteps, BucketedAlone DEF Quiet
<1>2. ASSUME NEW e \in Trades, Joined(e) PROVE Bucketed'
  BY <1>2, FirstBucketed, SameBucketed DEF Joined
<1>3. ASSUME NEW e \in Trades, Completed(e) PROVE Bucketed'
  BY <1>3, NextBucketed DEF Completed
<1> QED
  BY <1>1, <1>2, <1>3, SessionSteps

(* Every candle the pipeline yields, and the one that is forming, is made  *)
(* of exactly the accepted trades of its bucket (CandleAggregator.update). *)
THEOREM CandlesAlwaysExact == Spec => []CandlesExact
<1>1. Init => Bucketed /\ Fed
  BY BucketedInitially DEF Init
<1>2. (Bucketed /\ Fed) /\ [Next]_vars => (Bucketed /\ Fed)'
  BY BucketedStep
<1>3. Bucketed => CandlesExact
  BY BucketedExact
<1> QED
  BY <1>1, <1>2, <1>3, PTL DEF Spec

-----------------------------------------------------------------------------
(* The position, the outcomes and the money of the session                 *)

Positions == [side : {-1, 1}, entry : Nat, asked : Nat, fill : Nat, stop : Nat, target : Nat,
              fee : Int, slip : Int, bars : 0..(MaxHoldingBars - 1)]

(* An open position was filled on its side of what was asked for it.       *)
Carried(p) ==
  /\ p \in Positions
  /\ p.fill = Fill(p.asked, p.side) /\ p.slip = Magnitude(p.fill - p.asked) * Quantity

Settled(o) ==
  /\ o.net \in Int /\ o.reason \in Reasons /\ o.side \in {-1, 1}
  /\ o.entry \in Nat /\ o.exit \in Nat /\ o.stop \in Int

(* What the candle c tells a session.                                      *)
Told(c) ==
  /\ c.start \in Nat \ {0} /\ c.close \in Nat \ {0}
  /\ c.high \in Nat \ {0} /\ c.low \in Nat \ {0}

Net(os)  == SumFunction([i \in DOMAIN os |-> os[i].net])
Owed(p)  == IF Held(p) THEN p.fee + p.side * p.fill * Quantity ELSE 0
Count(p) == IF Held(p) THEN 1 ELSE 0
Listed(os) == os \in Seq(Range(os)) /\ \A i \in DOMAIN os : Settled(os[i])

(* The net result of outcomes is an integer, nothing for none.             *)
LEMMA NetTyped ==
  ASSUME NEW os, Listed(os)
  PROVE  /\ Net(os) \in Int /\ Len(os) \in Nat /\ DOMAIN os = 1..Len(os)
         /\ os = <<>> => Net(os) = 0
<1> DEFINE n == Len(os)
           f == [i \in DOMAIN os |-> os[i].net]
<1>1. n \in Nat /\ DOMAIN os = 1..n
  BY DEF Listed
<1>2. f \in [1..n -> Int] /\ DOMAIN f = 1..n
  BY <1>1 DEF Listed, Settled
<1>3. IsFiniteSet(1..n)
  BY <1>1, FS_Interval
<1>4. Net(os) = SumFunctionOnSet(f, 1..n)
  BY <1>2 DEF Net, SumFunction
<1>5. os = <<>> => 1..n = {}
  BY <1>1
<1> HIDE DEF f, n
<1>6. SumFunctionOnSet(f, 1..n) \in Int
  BY <1>2, <1>3, SumTaken
<1>7. 1..n = {} => SumFunctionOnSet(f, 1..n) = 0
  BY <1>2, <1>3, SumTaken
<1> QED
  BY <1>1, <1>4, <1>5, <1>6, <1>7 DEF n

(* One more outcome adds its own net result.                               *)
LEMMA NetAdded ==
  ASSUME NEW os, Listed(os), NEW o, Settled(o)
  PROVE  /\ Listed(Append(os, o)) /\ Len(Append(os, o)) = Len(os) + 1
         /\ Net(Append(os, o)) = Net(os) + o.net
<1> DEFINE n == Len(os)
           a == Append(os, o)
           f == [i \in DOMAIN os |-> os[i].net]
           g == [i \in DOMAIN a |-> a[i].net]
<1>1. /\ n \in Nat /\ DOMAIN os = 1..n /\ DOMAIN a = 1..(n + 1) /\ Len(a) = n + 1
      /\ a[n + 1] = o /\ \A i \in 1..n : a[i] = os[i]
      /\ a \in Seq(Range(a))
  BY Appended DEF Listed
<1>2. \A i \in 1..(n + 1) : i \in 1..n \/ i = n + 1
  BY <1>1
<1> HIDE DEF a, n
<1>3. Listed(a)
  BY <1>1, <1>2 DEF Listed
<1>4. f \in [1..n -> Int] /\ DOMAIN f = 1..n /\ g \in [1..(n + 1) -> Int] /\ DOMAIN g = 1..(n + 1)
  <2>1. \A i \in DOMAIN os : os[i].net \in Int
    BY DEF Listed, Settled
  <2>2. \A i \in DOMAIN a : a[i].net \in Int
    BY <1>3 DEF Listed, Settled
  <2> QED
    BY <1>1, <2>1, <2>2
<1>5. /\ g[n + 1] = o.net /\ \A i \in 1..n : g[i] = f[i]
      /\ 1..n \subseteq 1..(n + 1) /\ (1..(n + 1)) \ {n + 1} = 1..n /\ n + 1 \in 1..(n + 1)
  BY <1>1
<1> DEFINE S == 1..n
           S1 == 1..(n + 1)
<1>6. /\ IsFiniteSet(S) /\ IsFiniteSet(S1) /\ S \subseteq S1 /\ S1 \ {n + 1} = S /\ n + 1 \in S1
      /\ f \in [S -> Int] /\ g \in [S1 -> Int] /\ \A i \in S : g[i] = f[i]
  <2>1. IsFiniteSet(1..n) /\ IsFiniteSet(1..(n + 1))
    BY <1>1, FS_Interval
  <2> HIDE DEF f, g
  <2> QED
    BY <1>4, <1>5, <2>1
<1>7. Net(os) = SumFunctionOnSet(f, S) /\ Net(a) = SumFunctionOnSet(g, S1)
  BY <1>4 DEF Net, SumFunction
<1> HIDE DEF f, g, S, S1
<1>8. SumFunctionOnSet(g, S1) = g[n + 1] + SumFunctionOnSet(g, S1 \ {n + 1})
  BY <1>6, SumTaken
<1>9. SumFunctionOnSet(g, S) = SumFunctionOnSet(f, S) /\ SumFunctionOnSet(f, S) \in Int
  <2>1. SumFunctionOnSet(g, S) = SumFunctionOnSet(f, S)
    BY <1>6, SumSame
  <2>2. SumFunctionOnSet(f, S) \in Int
    BY <1>6, SumTaken
  <2> QED
    BY <2>1, <2>2
<1>10. o.net \in Int
  BY DEF Settled
<1>11. Net(a) = Net(os) + o.net
  BY <1>5, <1>6, <1>7, <1>8, <1>9, <1>10
<1> QED
  BY <1>1, <1>3, <1>11 DEF a, n

(* A fill is on its side of the price by the slippage it is charged.       *)
LEMMA FillSlips ==
  ASSUME NEW x \in Nat, NEW side \in {-1, 1}
  PROVE  side * (Fill(x, side) - x) = Magnitude(Fill(x, side) - x)
<1> DEFINE slip == (x * SlipPct) \div 100
<1>1. x * SlipPct \in Int /\ 0 <= x * SlipPct
  BY AccountAssumption
<1>2. slip \in Int /\ 0 <= slip
  BY <1>1
<1>3. Fill(x, side) = x + side * slip
  BY DEF Fill
<1> HIDE DEF slip
<1> QED
  BY <1>2, <1>3 DEF Magnitude

(* The size of a number is one.                                            *)
LEMMA SizeTyped ==
  ASSUME NEW x \in Int
  PROVE  Magnitude(x) \in Int
BY DEF Magnitude

(* What is charged for an outcome, on the prices asked for and for the     *)
(* slippage of both fills, is what the two fills really moved.             *)
LEMMA OutcomePays ==
  ASSUME NEW p, Carried(p), NEW c, Told(c), NEW level \in Nat, NEW reason \in Reasons,
         NEW o, o = Outcome(p, c, level, reason)
  PROVE  /\ Settled(o) /\ Proceeds(o) \in Int /\ Owed(p) \in Int
         /\ o.net = Proceeds(o) - Owed(p)
         /\ o.exit = c.start /\ o.entry = p.entry /\ o.side = p.side /\ o.stop = p.stop
         /\ o.reason = reason
<1>1. /\ p.side \in {-1, 1} /\ p.asked \in Nat /\ p.fill \in Nat /\ p.fee \in Int /\ p.slip \in Int
      /\ p.entry \in Nat /\ p.stop \in Int
      /\ p.fill = Fill(p.asked, p.side) /\ p.slip = Magnitude(p.fill - p.asked) * Quantity
  BY DEF Carried, Positions
<1> DEFINE Q == Quantity
           actual == Fill(level, -p.side)
           fee2 == Fee(actual * Q)
<1>2. -p.side \in {-1, 1} /\ Q \in Nat \ {0}
  BY <1>1, SessionAssumption
<1>3. actual \in Nat /\ \A y \in Int : Fee(y) \in Int
  BY <1>2, FillPrice
<1>4. fee2 \in Int
  <2> HIDE DEF actual, Q
  <2>1. actual * Q \in Int
    BY <1>2, <1>3
  <2> QED
    BY <1>3, <2>1
<1>5. p.side * (p.fill - p.asked) = Magnitude(p.fill - p.asked)
  BY <1>1, FillSlips
<1>6. p.side * (level - actual) = Magnitude(level - actual)
  <2>1. (-p.side) * (Fill(level, -p.side) - level) = Magnitude(Fill(level, -p.side) - level)
    BY <1>2, FillSlips
  <2> HIDE DEF actual
  <2>2. (-p.side) * (actual - level) = Magnitude(actual - level)
    BY <2>1 DEF actual
  <2> QED
    BY <1>1, <1>3, <2>2 DEF Magnitude
<1>7. /\ o.net = p.side * (level - p.asked) * Q - p.fee - fee2 - p.slip - Magnitude(level - actual) * Q
      /\ o.actual = actual /\ o.side = p.side /\ o.exit = c.start /\ o.entry = p.entry
      /\ o.stop = p.stop /\ o.reason = reason
  BY DEF Outcome
<1>8. Held(p) /\ Owed(p) = p.fee + p.side * p.fill * Q /\ Proceeds(o) = p.side * actual * Q - fee2
  BY <1>1, <1>7 DEF Held, Owed, Proceeds
<1> HIDE DEF actual, fee2, Q
<1>9. p.side * (level - p.asked) - Magnitude(p.fill - p.asked) - Magnitude(level - actual)
      = p.side * actual - p.side * p.fill
  BY <1>1, <1>3, <1>5, <1>6
<1>10. PICK m1 \in Int : m1 = Magnitude(p.fill - p.asked)
  <2>1. p.fill - p.asked \in Int
    BY <1>1
  <2> QED
    BY <2>1, SizeTyped
<1>11. PICK m2 \in Int : m2 = Magnitude(level - actual)
  <2>1. actual \in Int
    BY <1>3
  <2>2. level - actual \in Int
    BY <2>1
  <2> QED
    BY <2>2, SizeTyped
<1>12. o.net = p.side * actual * Q - p.side * p.fill * Q - p.fee - fee2
  <2>1. p.side * (level - p.asked) * Q - m1 * Q - m2 * Q
        = (p.side * (level - p.asked) - m1 - m2) * Q
    BY <1>1, <1>2, <1>10, <1>11
  <2>2. (p.side * actual - p.side * p.fill) * Q = p.side * actual * Q - p.side * p.fill * Q
    BY <1>1, <1>2, <1>3
  <2>3. p.side * (level - p.asked) * Q \in Int /\ m1 * Q \in Int /\ m2 * Q \in Int
    BY <1>1, <1>2, <1>10, <1>11
  <2>4. p.slip = m1 * Q
    BY <1>1, <1>10 DEF Q
  <2>5. p.side * (level - p.asked) * Q - m1 * Q - m2 * Q = p.side * actual * Q - p.side * p.fill * Q
    BY <1>9, <1>10, <1>11, <2>1, <2>2
  <2>6. o.net = p.side * (level - p.asked) * Q - p.fee - fee2 - m1 * Q - m2 * Q
    BY <1>7, <1>11, <2>4
  <2>7. p.side * actual * Q \in Int /\ p.side * p.fill * Q \in Int
    BY <1>1, <1>2, <1>3
  <2> QED
    BY <1>1, <1>4, <2>3, <2>5, <2>6, <2>7
<1>13. p.side * actual * Q \in Int /\ p.side * p.fill * Q \in Int
  BY <1>1, <1>2, <1>3
<1> QED
  BY <1>1, <1>4, <1>7, <1>8, <1>12, <1>13 DEF Settled, Told

(* A percentage of a price lies between nothing and the price.             *)
LEMMA PartOf ==
  ASSUME NEW x \in Nat, NEW pct \in 0..99
  PROVE  (x * pct) \div 100 \in 0..x
<1>1. x * pct \in Int /\ 0 <= x * pct /\ x * pct <= 100 * x
  OBVIOUS
<1> DEFINE k == x * pct
<1> HIDE DEF k
<1>2. k \in Int /\ 0 <= k /\ k <= 100 * x
  BY <1>1 DEF k
<1>3. k \div 100 \in 0..x
  BY <1>2
<1> QED
  BY <1>3 DEF k

(* An entry is an open position.                                           *)
LEMMA EntryTyped ==
  ASSUME NEW c, Told(c), NEW side \in {-1, 1}, NEW p, p = EntryAt(c, side)
  PROVE  Carried(p) /\ p.entry = c.start /\ Held(p)
<1>1. c.close \in Nat /\ c.start \in Nat
  BY DEF Told
<1>2. PICK k \in 0..c.close : k = (c.close * StopPct) \div 100
  <2>1. StopPct \in 0..99
    BY SessionAssumption
  <2>2. (c.close * StopPct) \div 100 \in 0..c.close
    BY <1>1, <2>1, PartOf
  <2> QED
    BY <2>2
<1>3. PICK m \in 0..c.close : m = (c.close * TakePct) \div 100
  <2>1. TakePct \in 0..99
    BY SessionAssumption
  <2>2. (c.close * TakePct) \div 100 \in 0..c.close
    BY <1>1, <2>1, PartOf
  <2> QED
    BY <2>2
<1>4. c.close - side * k \in Nat /\ c.close + side * m \in Nat
  BY <1>1
<1>5. PICK f \in Nat : f = Fill(c.close, side)
  BY <1>1, FillPrice
<1>6. f * Quantity \in Int /\ Magnitude(f - c.close) * Quantity \in Int
  BY <1>1, SessionAssumption DEF Magnitude
<1>7. PICK fee \in Int : fee = Fee(f * Quantity)
  BY <1>1, <1>6, FillPrice
<1>8. p = [side |-> side, entry |-> c.start, asked |-> c.close, fill |-> f,
           stop |-> c.close - side * k, target |-> c.close + side * m,
           fee |-> fee, slip |-> Magnitude(f - c.close) * Quantity, bars |-> 0]
  BY <1>2, <1>3, <1>5, <1>7 DEF EntryAt
<1>9. 0 \in 0..(MaxHoldingBars - 1)
  BY SessionAssumption
<1>10. p \in Positions
  BY <1>1, <1>4, <1>6, <1>8, <1>9 DEF Positions
<1>11. p.fill = Fill(p.asked, p.side) /\ p.slip = Magnitude(p.fill - p.asked) * Quantity
  BY <1>5, <1>8
<1> QED
  BY <1>8, <1>10, <1>11 DEF Carried, Held

(* The fields of an open position.                                         *)
LEMMA CarriedFields ==
  ASSUME NEW p, Carried(p)
  PROVE  /\ p.side \in {-1, 1} /\ p.asked \in Nat /\ p.fill \in Nat /\ p.stop \in Nat
         /\ p.target \in Nat /\ p.entry \in Nat /\ p.bars \in 0..(MaxHoldingBars - 1)
         /\ p.fee \in Int /\ Held(p) /\ p # NoPosition /\ Owed(p) \in Int /\ Count(p) = 1
<1>1. /\ p.side \in {-1, 1} /\ p.asked \in Nat /\ p.fill \in Nat /\ p.stop \in Nat
      /\ p.target \in Nat /\ p.entry \in Nat /\ p.bars \in 0..(MaxHoldingBars - 1)
      /\ p.fee \in Int
  BY DEF Carried, Positions
<1>2. Held(p) /\ p # NoPosition /\ Count(p) = 1
  BY <1>1 DEF Held, NoPosition, Count
<1>3. p.side * p.fill * Quantity \in Int
  BY <1>1, SessionAssumption
<1> QED
  BY <1>1, <1>2, <1>3 DEF Owed

(* Without a position nothing is held or owed.                             *)
LEMMA NoneHeld == ~Held(NoPosition) /\ Owed(NoPosition) = 0 /\ Count(NoPosition) = 0
BY DEF Held, NoPosition, Owed, Count

(* One bar more changes nothing else of a position.                        *)
LEMMA Older ==
  ASSUME NEW p, Carried(p), p.bars + 1 < MaxHoldingBars, NEW q, q = [p EXCEPT !.bars = @ + 1]
  PROVE  /\ Carried(q) /\ Owed(q) = Owed(p)
         /\ q.side = p.side /\ q.entry = p.entry /\ q.stop = p.stop
<1>1. p.bars + 1 \in 0..(MaxHoldingBars - 1)
  BY CarriedFields, SessionAssumption
<1>2. q \in Positions
  BY <1>1 DEF Carried, Positions
<1>3. /\ q.side = p.side /\ q.entry = p.entry /\ q.stop = p.stop /\ q.asked = p.asked
      /\ q.fill = p.fill /\ q.slip = p.slip /\ q.fee = p.fee
  BY DEF Carried, Positions
<1> QED
  BY <1>2, <1>3 DEF Carried, Owed, Held

(* Why a candle closes a position, and what its not doing so says.         *)
LEMMA Reasoned ==
  ASSUME NEW p, NEW c
  PROVE  /\ ExitReason(p, c) \in Reasons \cup {"NONE"}
         /\ ExitReason(p, c) \in {"NONE", "TARGET"} => ~StopHit(p, c)
         /\ ExitReason(p, c) = "NONE" => ~(c.start >= Cutoff) /\ ~(p.bars + 1 >= MaxHoldingBars)
         /\ "NONE" \notin Reasons
BY DEF ExitReason, Unless, Clock, Reasons

(* What the exits of a candle leave: the outcomes and what is owed for the *)
(* position tell the money that was paid.                                  *)
Ended(os, p, c, o) ==
  /\ os = Append(outcomes, o) /\ Held(p) /\ o.exit = c.start
  /\ o.entry = p.entry /\ o.side = p.side /\ o.stop = p.stop
  /\ o.reason = "TARGET" => ~StopHit(p, c)
Exited(a, c) ==
  /\ Listed(a.outs) /\ a.paid \in Int
  /\ Net(a.outs) - Owed(a.pos) = Net(outcomes) - Owed(position) + a.paid
  /\ Len(a.outs) + Count(a.pos) = Len(outcomes) + Count(position)
  /\ \/ a.pos = NoPosition
     \/ /\ Carried(a.pos) /\ Held(position) /\ c.start < Cutoff /\ ~StopHit(position, c)
        /\ a.pos.side = position.side /\ a.pos.entry = position.entry /\ a.pos.stop = position.stop
  /\ a.outs = outcomes \/ \E o : Ended(a.outs, position, c, o)

(* The exits of a candle do so.                                            *)
LEMMA ExitsDo ==
  ASSUME position = NoPosition \/ Carried(position), Listed(outcomes),
         NEW c, Told(c), NEW a, a = AfterExits(c)
  PROVE  Exited(a, c)
<1> DEFINE why == ExitReason(position, c)
           level == ExitPrice(position, c, why)
           o == Outcome(position, c, level, why)
<1>1. a = IF ~Held(position)
          THEN [outs |-> outcomes, pos |-> position, paid |-> 0]
          ELSE IF why = "NONE"
          THEN [outs |-> outcomes, pos |-> [position EXCEPT !.bars = @ + 1], paid |-> 0]
          ELSE [outs |-> Append(outcomes, o), pos |-> NoPosition, paid |-> Proceeds(o)]
  BY DEF AfterExits
<1>2. Net(outcomes) \in Int /\ Len(outcomes) \in Nat
  BY NetTyped
<1> HIDE DEF why, o
<1>3. CASE ~Held(position)
  <2>1. position = NoPosition
    BY <1>3, CarriedFields
  <2>2. a.outs = outcomes /\ a.pos = NoPosition /\ a.paid = 0
    BY <1>1, <1>3, <2>1
  <2> QED
    BY <1>2, <2>1, <2>2, NoneHeld DEF Exited
<1>4. CASE Held(position) /\ why = "NONE"
  <2>1. Carried(position)
    BY <1>4, NoneHeld
  <2>2. ~(c.start >= Cutoff) /\ ~(position.bars + 1 >= MaxHoldingBars) /\ ~StopHit(position, c)
    BY <1>4, Reasoned DEF why
  <2>3. c.start < Cutoff /\ position.bars + 1 < MaxHoldingBars
    BY <2>1, <2>2, CarriedFields, SessionAssumption DEF Told
  <2>4. PICK q : q = [position EXCEPT !.bars = @ + 1]
    OBVIOUS
  <2>5. a.outs = outcomes /\ a.pos = q /\ a.paid = 0
    BY <1>1, <1>4, <2>4
  <2>6. /\ Carried(q) /\ Owed(q) = Owed(position)
        /\ q.side = position.side /\ q.entry = position.entry /\ q.stop = position.stop
    BY <2>1, <2>3, <2>4, Older
  <2>7. Count(q) = 1 /\ Count(position) = 1 /\ Owed(position) \in Int
    BY <2>1, <2>6, CarriedFields
  <2> QED
    BY <1>2, <1>4, <2>2, <2>3, <2>5, <2>6, <2>7 DEF Exited
<1>5. CASE Held(position) /\ why # "NONE"
  <2>1. Carried(position)
    BY <1>5, NoneHeld
  <2>2. why \in Reasons /\ (why = "TARGET" => ~StopHit(position, c))
    BY <1>5, Reasoned DEF why
  <2>3. level \in Nat
    BY <2>1, CarriedFields DEF ExitPrice, Told
  <2> HIDE DEF level
  <2>4. o = Outcome(position, c, level, why)
    BY DEF o
  <2>5. /\ Settled(o) /\ Proceeds(o) \in Int /\ Owed(position) \in Int
        /\ o.net = Proceeds(o) - Owed(position)
        /\ o.exit = c.start /\ o.entry = position.entry /\ o.side = position.side
        /\ o.stop = position.stop /\ o.reason = why
    BY <2>1, <2>2, <2>3, <2>4, OutcomePays
  <2>6. a.outs = Append(outcomes, o) /\ a.pos = NoPosition /\ a.paid = Proceeds(o)
    BY <1>1, <1>5
  <2>7. Listed(a.outs) /\ Len(a.outs) = Len(outcomes) + 1 /\ Net(a.outs) = Net(outcomes) + o.net
    BY <2>5, <2>6, NetAdded
  <2>8. Count(position) = 1
    BY <2>1, CarriedFields
  <2>9. Net(a.outs) - Owed(a.pos) = Net(outcomes) - Owed(position) + a.paid
    BY <1>2, <2>5, <2>6, <2>7, NoneHeld
  <2>10. Len(a.outs) + Count(a.pos) = Len(outcomes) + Count(position)
    BY <1>2, <2>6, <2>7, <2>8, NoneHeld
  <2>11. Ended(a.outs, position, c, o)
    BY <1>5, <2>2, <2>5, <2>6 DEF Ended
  <2> QED
    BY <2>5, <2>6, <2>7, <2>9, <2>10, <2>11 DEF Exited
<1> QED
  BY <1>3, <1>4, <1>5

(* An order of the session keeps the types of the account.                 *)
LEMMA SubmitTypes ==
  ASSUME AccountTypeOK, NoIdleCost, NEW s \in Symbols, NEW side \in {-1, 1},
         NEW n \in Nat \ {0}, NEW x \in Nat, Submit(s, side, n, x)
  PROVE  AccountTypeOK' /\ NoIdleCost' /\ journal' = journal + 1
<1>1. PICK f \in Nat : f = Fill(x, side)
  BY FillPrice
<1>2. n * f \in Int /\ side * n \in Int /\ side * n * f \in Int
  OBVIOUS
<1>3. PICK fee \in Int : fee = Fee(n * f)
  BY <1>2, FillPrice
<1>4. /\ qty \in [Symbols -> Int] /\ cost \in [Symbols -> Nat] /\ {pnl, moved} \subseteq [Symbols -> Int]
      /\ bought \in [Symbols -> Int] /\ realized \in Int /\ cash \in Int /\ journal \in 0..MaxOrders
      /\ MaxOrders \in Nat
  BY AccountAssumption DEF AccountTypeOK
<1>5. PICK q \in Int : q = qty[s]
  BY <1>4
<1>6. PICK c \in Nat : c = cost[s]
  BY <1>4
<1>7. q = 0 => c = 0
  BY <1>5, <1>6 DEF NoIdleCost
<1>8. PICK r : r = Filled(q, c, side, n, f)
  OBVIOUS
<1>9. r.qty = q + side * n /\ r.cost \in Nat /\ r.gain \in Int /\ (r.qty = 0 => r.cost = 0)
  <2>1. Booked(Filled(q, c, side, n, f), q, c, side, n, f)
    BY <1>7, FillEffect
  <2> QED
    BY <1>8, <2>1 DEF Booked
<1>10. /\ journal < MaxOrders /\ journal' = journal + 1
       /\ qty' = [qty EXCEPT ![s] = r.qty] /\ cost' = [cost EXCEPT ![s] = r.cost]
       /\ pnl' = [pnl EXCEPT ![s] = Earlier(pnl, s) + r.gain - fee]
       /\ moved' = [moved EXCEPT ![s] = Earlier(moved, s) - side * n * f - fee]
       /\ realized' = realized - fee + r.gain
       /\ cash' = cash - side * n * f - fee
       /\ bought' = [bought EXCEPT ![s] = @ + side * n]
  BY <1>1, <1>3, <1>5, <1>6, <1>8 DEF Submit, Moved
<1>11. /\ r.qty \in Int /\ bought[s] + side * n \in Int
       /\ Earlier(pnl, s) + r.gain - fee \in Int /\ Earlier(moved, s) - side * n * f - fee \in Int
  BY <1>2, <1>4, <1>9 DEF Earlier
<1>12. /\ qty' \in [Symbols -> Int] /\ cost' \in [Symbols -> Nat] /\ {pnl', moved'} \subseteq [Symbols -> Int]
       /\ bought' \in [Symbols -> Int]
  BY <1>4, <1>9, <1>10, <1>11
<1>13. realized' \in Int /\ cash' \in Int /\ journal' \in 0..MaxOrders
  BY <1>2, <1>4, <1>9, <1>10
<1>14. NoIdleCost'
  BY <1>4, <1>9, <1>10 DEF NoIdleCost
<1> QED
  BY <1>10, <1>12, <1>13, <1>14 DEF AccountTypeOK

(* The session's counters, money and ledger tell the story of its outcomes *)
(* and its position.                                                       *)
SessionTyped ==
  /\ AccountTypeOK /\ NoIdleCost
  /\ {stopOnTarget, done} \subseteq BOOLEAN /\ phase \in {"running", "finalized", "raised"}
  /\ position = NoPosition \/ Carried(position)
  /\ Listed(outcomes)
  /\ bar # NoBar => Told(bar)
  /\ bar = NoBar => position = NoPosition
SessionTold ==
  /\ money = Net(outcomes) - Owed(position)
  /\ submitted = Len(outcomes) + Count(position) /\ submitted = journal
  /\ stopOnTarget => submitted <= TargetTrades
  /\ phase = "finalized" => position = NoPosition
  /\ phase # "raised" /\ bar # NoBar => ledger = Snapshot(outcomes, position, bar.close)
SessionBooks == SessionTyped /\ SessionTold /\ ClosedAtCutoff

(* A session starts with its books in order.                               *)
LEMMA BooksInitially == SessionInit => SessionBooks
<1> SUFFICES ASSUME SessionInit PROVE SessionBooks
  OBVIOUS
<1>1. /\ position = NoPosition /\ outcomes = <<>> /\ submitted = 0 /\ done = FALSE /\ bar = NoBar
      /\ phase = "running" /\ money = 0 /\ stopOnTarget \in BOOLEAN /\ DOMAIN outcomes = {}
  BY DEF SessionInit
<1>2. Listed(outcomes) /\ Len(outcomes) = 0 /\ Net(outcomes) = 0
  <2>1. Listed(outcomes) /\ Len(outcomes) = 0
    BY <1>1, EmptyListed DEF Listed
  <2> QED
    BY <1>1, <2>1, NetTyped
<1>3. AccountTypeOK /\ NoIdleCost /\ journal = 0
  <2>1. /\ qty = [s \in Symbols |-> 0] /\ cost = [s \in Symbols |-> 0] /\ pnl = [s \in Symbols |-> 0]
        /\ moved = [s \in Symbols |-> 0] /\ bought = [s \in Symbols |-> 0]
        /\ realized = 0 /\ cash = 0 /\ journal = 0 /\ MaxOrders \in Nat
    BY AccountAssumption DEF SessionInit, AccountInit
  <2> QED
    BY <2>1 DEF AccountTypeOK, NoIdleCost
<1>4. TargetTrades \in Nat
  BY SessionAssumption
<1>5. ~Held(position) /\ Owed(position) = 0 /\ Count(position) = 0
  BY <1>1, NoneHeld
<1>6. SessionTyped /\ ClosedAtCutoff
  BY <1>1, <1>2, <1>3, <1>5 DEF SessionTyped, ClosedAtCutoff
<1>7. SessionTold
  <2>1. money = Net(outcomes) - Owed(position) /\ submitted = Len(outcomes) + Count(position)
    BY <1>1, <1>2, <1>5
  <2> QED
    BY <1>1, <1>3, <1>4, <2>1 DEF SessionTold
<1> QED
  BY <1>6, <1>7 DEF SessionBooks

(* One candle the session handles.                                         *)
LEMMA HandledBooks ==
  ASSUME SessionBooks, NEW c, Told(c), NEW side \in {-1, 0, 1}, OnCandle(c, side)
  PROVE  SessionBooks'
<1>1. PICK a : a = AfterExits(c)
  OBVIOUS
<1>2. PICK new : new = IF side = 0 THEN a.pos ELSE EntryAt(c, side)
  OBVIOUS
<1>3. /\ phase = "running" /\ phase' = "running" /\ stopOnTarget' = stopOnTarget
      /\ side # 0 => ~Held(a.pos) /\ ~TargetMet(a.outs)
      /\ Enter(c, side) /\ position' = new /\ outcomes' = a.outs
      /\ money' = money + a.paid - (IF side = 0 THEN 0 ELSE side * new.fill * Quantity + new.fee)
      /\ done' = TargetMet(a.outs) /\ bar' = c
      /\ ledger' = Snapshot(a.outs, new, c.close)
  BY <1>1, <1>2 DEF OnCandle, Handle
<1>4. Exited(a, c)
  BY <1>1, ExitsDo DEF SessionBooks, SessionTyped
<1>5. a.pos = NoPosition \/ Carried(a.pos)
  BY <1>4 DEF Exited
<1>6. side # 0 => /\ a.pos = NoPosition /\ Carried(new) /\ new.entry = c.start /\ Held(new)
                  /\ Owed(new) = new.fee + side * new.fill * Quantity
  <2>1. ASSUME side # 0
        PROVE  /\ a.pos = NoPosition /\ Carried(new) /\ new.entry = c.start /\ Held(new)
               /\ Owed(new) = new.fee + side * new.fill * Quantity
    <3>1. a.pos = NoPosition
      BY <1>3, <1>5, <2>1, CarriedFields
    <3>2. new = EntryAt(c, side) /\ side \in {-1, 1}
      BY <1>2, <2>1
    <3>3. Carried(new) /\ new.entry = c.start /\ Held(new) /\ new.side = side
      BY <3>2, EntryTyped DEF EntryAt
    <3> QED
      BY <3>1, <3>3 DEF Owed
  <2> QED
    BY <2>1
<1>7. position' = NoPosition \/ Carried(position')
  BY <1>2, <1>3, <1>5, <1>6
<1>8. bar' # NoBar /\ Told(bar')
  BY <1>3 DEF Told, NoBar
<1>9. AccountTypeOK' /\ NoIdleCost' /\ journal' = journal + (IF side = 0 THEN 0 ELSE 1)
      /\ submitted' = submitted + (IF side = 0 THEN 0 ELSE 1)
  <2>1. CASE side = 0
    <3>1. UNCHANGED <<accountVars, submitted>>
      BY <1>3, <2>1 DEF Enter
    <3>2. AccountTypeOK' /\ NoIdleCost'
      BY <3>1 DEF accountVars, fillVars, books, SessionBooks, SessionTyped, AccountTypeOK, NoIdleCost
    <3>3. journal \in Int /\ submitted \in Int
      BY DEF SessionBooks, SessionTyped, SessionTold, AccountTypeOK
    <3> QED
      BY <2>1, <3>1, <3>2, <3>3 DEF accountVars, fillVars
  <2>2. CASE side # 0
    <3>1. Submit(Symbol, side, Quantity, c.close) /\ submitted' = submitted + 1
      BY <1>3, <2>2 DEF Enter
    <3>2. side \in {-1, 1} /\ Quantity \in Nat \ {0} /\ Symbol \in Symbols /\ c.close \in Nat
      BY <2>2, SessionAssumption DEF Told
    <3>3. AccountTypeOK' /\ NoIdleCost' /\ journal' = journal + 1
      BY <3>1, <3>2, SubmitTypes DEF SessionBooks, SessionTyped
    <3> QED
      BY <2>2, <3>1, <3>3
  <2> QED
    BY <2>1, <2>2
<1>10. SessionTyped'
  <2>1. Listed(outcomes') /\ done' \in BOOLEAN /\ stopOnTarget' \in BOOLEAN
    BY <1>3, <1>4 DEF Exited, TargetMet, SessionBooks, SessionTyped
  <2>2. Listed(outcomes)' /\ Carried(position)' = Carried(position') /\ Told(bar)' = Told(bar')
    BY <2>1 DEF Listed, Settled, Carried, Told
  <2> QED
    BY <1>3, <1>7, <1>8, <1>9, <2>1, <2>2 DEF SessionTyped
<1>11. /\ Net(outcomes) \in Int /\ Len(outcomes) \in Nat /\ Net(a.outs) \in Int /\ Len(a.outs) \in Nat
       /\ Owed(position) \in Int /\ Count(position) \in {0, 1}
       /\ Owed(a.pos) \in Int /\ Count(a.pos) \in {0, 1} /\ a.paid \in Int
  <2>1. Net(outcomes) \in Int /\ Len(outcomes) \in Nat
    BY NetTyped DEF SessionBooks, SessionTyped
  <2>2. Net(a.outs) \in Int /\ Len(a.outs) \in Nat /\ a.paid \in Int
    BY <1>4, NetTyped DEF Exited
  <2>3. Owed(position) \in Int /\ Count(position) \in {0, 1}
    BY CarriedFields, NoneHeld DEF SessionBooks, SessionTyped
  <2>4. Owed(a.pos) \in Int /\ Count(a.pos) \in {0, 1}
    BY <1>5, CarriedFields, NoneHeld
  <2> QED
    BY <2>1, <2>2, <2>3, <2>4
<1>12. /\ money = Net(outcomes) - Owed(position)
       /\ submitted = Len(outcomes) + Count(position) /\ submitted = journal
       /\ stopOnTarget => submitted <= TargetTrades
  BY DEF SessionBooks, SessionTold
<1>13. /\ Net(a.outs) - Owed(a.pos) = Net(outcomes) - Owed(position) + a.paid
       /\ Len(a.outs) + Count(a.pos) = Len(outcomes) + Count(position)
  BY <1>4 DEF Exited
<1>14. SessionTold'
  <2>1. money' = Net(a.outs) - Owed(new)
    <3>1. CASE side = 0
      BY <1>2, <1>3, <1>11, <1>12, <1>13, <3>1
    <3>2. CASE side # 0
      <4>1. Owed(new) = new.fee + side * new.fill * Quantity /\ Owed(a.pos) = 0
        BY <1>6, <3>2, NoneHeld
      <4>2. new.fee \in Int /\ side * new.fill * Quantity \in Int
        BY <1>6, <3>2, CarriedFields, SessionAssumption
      <4>3. money' = money + a.paid - (side * new.fill * Quantity + new.fee)
        BY <1>3, <3>2
      <4>4. PICK w \in Int : w = side * new.fill * Quantity
        BY <4>2
      <4>5. PICK charged \in Int : charged = new.fee
        BY <4>2
      <4>6. Owed(new) = charged + w /\ money' = money + a.paid - (w + charged)
        BY <4>1, <4>3, <4>4, <4>5
      <4>7. money = Net(outcomes) - Owed(position) /\ Net(a.outs) - 0 = Net(outcomes) - Owed(position) + a.paid
        BY <1>12, <1>13, <4>1
      <4> QED
        BY <1>11, <4>6, <4>7
    <3> QED
      BY <3>1, <3>2
  <2>2. submitted' = Len(a.outs) + Count(new)
    <3>1. CASE side = 0
      BY <1>2, <1>9, <1>11, <1>12, <1>13, <3>1
    <3>2. CASE side # 0
      <4>1. Count(new) = 1 /\ Count(a.pos) = 0
        BY <1>6, <3>2, CarriedFields, NoneHeld
      <4> QED
        BY <1>9, <1>11, <1>12, <1>13, <3>2, <4>1
    <3> QED
      BY <3>1, <3>2
  <2>3. submitted' = journal'
    BY <1>9, <1>12
  <2>4. stopOnTarget' => submitted' <= TargetTrades
    <3>1. CASE side = 0
      BY <1>3, <1>9, <1>11, <1>12, <3>1
    <3>2. CASE side # 0 /\ stopOnTarget
      <4>1. ~(Len(a.outs) >= TargetTrades) /\ TargetTrades \in Nat
        BY <1>3, <3>2, SessionAssumption DEF TargetMet
      <4>2. Count(new) = 1
        BY <1>6, <3>2, CarriedFields
      <4> QED
        BY <1>11, <2>2, <4>1, <4>2
    <3> QED
      BY <1>3, <3>1, <3>2
  <2>5. ledger' = Snapshot(outcomes', position', bar'.close)
    BY <1>3
  <2>6. /\ Net(outcomes)' = Net(outcomes') /\ Owed(position)' = Owed(position')
        /\ Count(position)' = Count(position')
        /\ Snapshot(outcomes, position, bar.close)' = Snapshot(outcomes', position', bar'.close)
    BY DEF Net, Owed, Count, Snapshot, Held
  <2> QED
    BY <1>3, <2>1, <2>2, <2>3, <2>4, <2>5, <2>6 DEF SessionTold
<1>15. ClosedAtCutoff'
  <2>1. CASE side = 0
    BY <1>2, <1>3, <1>4, <2>1, NoneHeld DEF ClosedAtCutoff, Exited, Held
  <2>2. CASE side # 0
    <3>1. position'.entry = bar'.start /\ bar'.start \in Nat
      BY <1>3, <1>6, <2>2 DEF Told
    <3> QED
      BY <3>1 DEF ClosedAtCutoff
  <2> QED
    BY <2>1, <2>2
<1> QED
  BY <1>10, <1>14, <1>15 DEF SessionBooks

(* One candle whose handling raises.                                       *)
LEMMA RaisedBooks ==
  ASSUME SessionBooks, NEW c, Told(c), CandleRaises(c)
  PROVE  SessionBooks'
<1>1. PICK a : a = AfterExits(c)
  OBVIOUS
<1>2. /\ position' = a.pos /\ outcomes' = a.outs /\ money' = money + a.paid
      /\ bar' = c /\ phase' = "raised" /\ UNCHANGED <<accountVars, stopOnTarget, submitted, done, ledger>>
  BY <1>1 DEF CandleRaises
<1>3. Exited(a, c)
  BY <1>1, ExitsDo DEF SessionBooks, SessionTyped
<1>4. a.pos = NoPosition \/ Carried(a.pos)
  BY <1>3 DEF Exited
<1>5. bar' # NoBar
  BY <1>2 DEF Told, NoBar
<1>6. SessionTyped'
  <2>1. Listed(outcomes') /\ Listed(outcomes)' = Listed(outcomes')
    BY <1>2, <1>3 DEF Exited, Listed, Settled
  <2>2. Carried(position)' = Carried(position') /\ Told(bar)' = Told(bar') /\ Told(bar')
    BY <1>2 DEF Carried, Told
  <2>3. AccountTypeOK' /\ NoIdleCost'
    BY <1>2 DEF accountVars, fillVars, books, SessionBooks, SessionTyped, AccountTypeOK, NoIdleCost
  <2> QED
    BY <1>2, <1>4, <1>5, <2>1, <2>2, <2>3 DEF SessionTyped, SessionBooks
<1>7. SessionTold'
  <2>1. /\ Net(outcomes) \in Int /\ Net(a.outs) \in Int /\ a.paid \in Int
        /\ Len(outcomes) \in Nat /\ Len(a.outs) \in Nat
    BY <1>3, NetTyped DEF Exited, SessionBooks, SessionTyped
  <2>2. Owed(position) \in Int /\ Count(position) \in {0, 1}
    BY CarriedFields, NoneHeld DEF SessionBooks, SessionTyped
  <2>3. Owed(a.pos) \in Int /\ Count(a.pos) \in {0, 1}
    BY <1>4, CarriedFields, NoneHeld
  <2>4. money' = Net(a.outs) - Owed(a.pos)
    <3>1. money = Net(outcomes) - Owed(position)
      BY DEF SessionBooks, SessionTold
    <3>2. Net(a.outs) - Owed(a.pos) = Net(outcomes) - Owed(position) + a.paid
      BY <1>3 DEF Exited
    <3> QED
      BY <1>2, <2>1, <2>2, <2>3, <3>1, <3>2
  <2>5. submitted' = Len(a.outs) + Count(a.pos)
    BY <1>2, <1>3 DEF Exited, SessionBooks, SessionTold
  <2>6. submitted' = journal' /\ (stopOnTarget' => submitted' <= TargetTrades)
    BY <1>2 DEF SessionBooks, SessionTold, accountVars, fillVars
  <2>7. Net(outcomes)' = Net(outcomes') /\ Owed(position)' = Owed(position') /\ Count(position)' = Count(position')
    BY DEF Net, Owed, Count, Held
  <2> QED
    BY <1>2, <2>4, <2>5, <2>6, <2>7 DEF SessionTold
<1>8. ClosedAtCutoff'
  BY <1>2, <1>3, NoneHeld DEF ClosedAtCutoff, Exited, Held
<1> QED
  BY <1>6, <1>7, <1>8 DEF SessionBooks

(* The end of the session closes what is open.                             *)
LEMMA FinalizedBooks ==
  ASSUME SessionBooks, Finalize
  PROVE  SessionBooks' /\ position' = NoPosition /\ bar' = bar
<1>1. PICK o : o = Outcome(position, bar, bar.close, "SESSION_CLOSE")
  OBVIOUS
<1>2. PICK outs : outs = IF Held(position) THEN Append(outcomes, o) ELSE outcomes
  OBVIOUS
<1>3. /\ phase = "running" /\ phase' = "finalized" /\ outcomes' = outs /\ position' = NoPosition
      /\ money' = money + (IF Held(position) THEN Proceeds(o) ELSE 0)
      /\ ledger' = IF bar = NoBar THEN ledger ELSE Snapshot(outs, NoPosition, bar.close)
      /\ UNCHANGED <<accountVars, stopOnTarget, submitted, done, bar>>
  BY <1>1, <1>2 DEF Finalize
<1>4. Net(outcomes) \in Int /\ Len(outcomes) \in Nat
  BY NetTyped DEF SessionBooks, SessionTyped
<1>5. /\ money = Net(outcomes) - Owed(position)
      /\ submitted = Len(outcomes) + Count(position) /\ submitted = journal
      /\ stopOnTarget => submitted <= TargetTrades
  BY DEF SessionBooks, SessionTold
<1>6. Listed(outs) /\ money' = Net(outs) /\ submitted = Len(outs)
  <2>1. CASE ~Held(position)
    <3>1. position = NoPosition
      BY <2>1, CarriedFields DEF SessionBooks, SessionTyped
    <3> QED
      BY <1>2, <1>3, <1>4, <1>5, <2>1, <3>1, NoneHeld DEF SessionBooks, SessionTyped
  <2>2. CASE Held(position)
    <3>1. Carried(position) /\ Told(bar)
      BY <2>2, NoneHeld DEF SessionBooks, SessionTyped
    <3>2. bar.close \in Nat /\ "SESSION_CLOSE" \in Reasons
      BY <3>1 DEF Told, Reasons
    <3>3. Settled(o) /\ Proceeds(o) \in Int /\ Owed(position) \in Int /\ o.net = Proceeds(o) - Owed(position)
      BY <1>1, <3>1, <3>2, OutcomePays
    <3>4. Listed(outs) /\ Len(outs) = Len(outcomes) + 1 /\ Net(outs) = Net(outcomes) + o.net
      BY <1>2, <2>2, <3>3, NetAdded DEF SessionBooks, SessionTyped
    <3>5. Count(position) = 1
      BY <3>1, CarriedFields
    <3> QED
      BY <1>3, <1>4, <1>5, <2>2, <3>3, <3>4, <3>5
  <2> QED
    BY <2>1, <2>2
<1>7. Net(outs) \in Int /\ Len(outs) \in Nat
  BY <1>6, NetTyped
<1>8. SessionTyped'
  <2>1. Listed(outcomes)'
    BY <1>3, <1>6 DEF Listed, Settled
  <2>2. AccountTypeOK' /\ NoIdleCost' /\ Told(bar)' = Told(bar)
    BY <1>3 DEF accountVars, fillVars, books, SessionBooks, SessionTyped, AccountTypeOK, NoIdleCost, Told
  <2> QED
    BY <1>3, <2>1, <2>2 DEF SessionTyped, SessionBooks
<1>9. SessionTold'
  <2>1. Net(outcomes)' = Net(outs) /\ Owed(position)' = 0 /\ Count(position)' = 0
    BY <1>3, NoneHeld DEF Net, Owed, Count, Held
  <2>2. bar' # NoBar => ledger' = Snapshot(outcomes, position, bar.close)'
    BY <1>3 DEF Snapshot, Held
  <2>3. money' = Net(outs) - 0 /\ submitted = Len(outs) + 0
    BY <1>6, <1>7
  <2> QED
    BY <1>3, <1>5, <2>1, <2>2, <2>3 DEF SessionTold, accountVars, fillVars
<1>10. ClosedAtCutoff'
  BY <1>3, NoneHeld DEF ClosedAtCutoff, Held
<1> QED
  BY <1>3, <1>8, <1>9, <1>10 DEF SessionBooks

(* Steps that touch nothing of the session keep its books.                 *)
LEMMA BooksKept ==
  ASSUME SessionBooks, UNCHANGED session \/ SessionRaises
  PROVE  SessionBooks'
<1>1. /\ UNCHANGED <<accountVars, stopOnTarget, position, outcomes, submitted, done, bar, ledger, money>>
      /\ phase' \in {phase, "raised"}
  BY DEF session, sessionVars, SessionRaises
<1>2. SessionTyped'
  BY <1>1 DEF accountVars, fillVars, books, SessionBooks, SessionTyped, AccountTypeOK, NoIdleCost, Told,
              Carried, Listed, Settled
<1>3. SessionTold'
  <2>1. /\ Net(outcomes)' = Net(outcomes) /\ Owed(position)' = Owed(position)
        /\ Count(position)' = Count(position)
        /\ Snapshot(outcomes, position, bar.close)' = Snapshot(outcomes, position, bar.close)
    BY <1>1 DEF Net, Owed, Count, Held, Snapshot
  <2> QED
    BY <1>1, <2>1 DEF SessionBooks, SessionTold, accountVars, fillVars
<1>4. ClosedAtCutoff'
  BY <1>1 DEF SessionBooks, ClosedAtCutoff, Held
<1> QED
  BY <1>2, <1>3, <1>4 DEF SessionBooks

(* The candle the pipeline yields tells the session what it needs.         *)
LEMMA FormingTold ==
  ASSUME Bucketed, forming # NoCandle
  PROVE  Told(Candle(forming)) /\ Candle(forming).start = forming.start
<1>1. forming.start \in Nat \ {0} /\ Faithful(forming)
  BY DEF Bucketed
<1>2. PICK f : f = forming
  OBVIOUS
<1>3. f.close \in Nat \ {0} /\ f.high \in Nat \ {0} /\ f.low \in Nat \ {0}
  BY <1>1, <1>2, CandleTyped DEF Bucketed
<1> QED
  BY <1>1, <1>2, <1>3 DEF Told, Candle

(* Every step of the session keeps its books.                              *)
LEMMA BooksStep == Bucketed /\ Fed /\ SessionBooks /\ [Next]_vars => SessionBooks'
<1> SUFFICES ASSUME Bucketed, Fed, SessionBooks, [Next]_vars PROVE SessionBooks'
  OBVIOUS
<1>1. CASE UNCHANGED session \/ SessionRaises \/ Finalize
  BY <1>1, BooksKept, FinalizedBooks
<1>2. ASSUME NEW e \in Trades, Completed(e) PROVE SessionBooks'
  <2>1. PICK c : c = Candle(forming)
    OBVIOUS
  <2>2. Told(c)
    BY <1>2, <2>1, FormingTold DEF Completed, NextCandle
  <2>3. ASSUME NEW side \in {-1, 0, 1}, OnCandle(c, side) PROVE SessionBooks'
    BY <2>2, <2>3, HandledBooks
  <2>4. CASE CandleRaises(c)
    BY <2>2, <2>4, RaisedBooks
  <2> QED
    BY <1>2, <2>1, <2>3, <2>4 DEF Completed
<1>3. ASSUME NEW e \in Trades, Joined(e) PROVE SessionBooks'
  BY <1>3, BooksKept DEF Joined
<1> QED
  BY <1>1, <1>2, <1>3, SessionSteps

(* The properties are what the books say.                                  *)
LEMMA BooksSound ==
  ASSUME Bucketed, Fed, SessionBooks
  PROVE  AccountSound /\ ClosedInTime
<1>1. /\ position = NoPosition \/ Carried(position)
      /\ Listed(outcomes) /\ Net(outcomes) \in Int /\ Len(outcomes) \in Nat
      /\ Owed(position) \in Int
      /\ Count(position) = (IF Held(position) THEN 1 ELSE 0)
  BY NetTyped, CarriedFields, NoneHeld DEF SessionBooks, SessionTyped, Count
<1>2. SessionCounts
  BY <1>1 DEF SessionBooks, SessionTold, SessionCounts
<1>3. LedgerReconciles
  <2>1. SUFFICES ASSUME phase # "raised", bar # NoBar
        PROVE  /\ ledger.equity = InitialEquity + money
                       + (IF Held(position) THEN position.side * Quantity * bar.close ELSE 0)
               /\ phase = "finalized" => ledger.open = 0 /\ submitted = Len(outcomes)
    BY DEF LedgerReconciles
  <2>2. ledger = Snapshot(outcomes, position, bar.close) /\ bar.close \in Nat
    BY <2>1 DEF SessionBooks, SessionTyped, SessionTold, Told
  <2>3. ledger.equity = InitialEquity
           + (Net(outcomes) - (IF Held(position) THEN position.fee ELSE 0))
           + (IF Held(position) THEN position.side * (bar.close - position.fill) * Quantity ELSE 0)
        /\ ledger.open = IF Held(position) THEN 1 ELSE 0
    BY <2>2 DEF Snapshot, Net
  <2>4. money = Net(outcomes) - Owed(position) /\ InitialEquity \in Int
    BY SessionAssumption DEF SessionBooks, SessionTold
  <2>5. CASE Held(position)
    <3>1. Carried(position)
      BY <1>1, <2>5, NoneHeld
    <3>2. position.side \in {-1, 1} /\ position.fill \in Nat /\ position.fee \in Int
      BY <3>1, CarriedFields
    <3>3. PICK p \in Int : p = position.fill
      BY <3>2
    <3>4. PICK s \in {-1, 1} : s = position.side
      BY <3>2
    <3>5. PICK x \in Int : x = bar.close
      BY <2>2
    <3>6. Quantity \in Int
      BY SessionAssumption
    <3>7. /\ s * (x - p) * Quantity = s * Quantity * x - s * p * Quantity
          /\ s * Quantity * x \in Int /\ s * p * Quantity \in Int
      BY <3>6
    <3>8. Owed(position) = position.fee + s * p * Quantity
      BY <2>5, <3>3, <3>4 DEF Owed
    <3>9. ledger.equity = InitialEquity + (Net(outcomes) - position.fee) + s * (x - p) * Quantity
      BY <2>3, <2>5, <3>3, <3>4, <3>5
    <3>10. ledger.equity = InitialEquity + money + s * Quantity * x
      <4> DEFINE u == s * (x - p) * Quantity
                 v == s * Quantity * x
                 w == s * p * Quantity
      <4>1. u = v - w /\ v \in Int /\ w \in Int
        BY <3>7
      <4>2. Owed(position) = position.fee + w /\ ledger.equity = InitialEquity + (Net(outcomes) - position.fee) + u
        BY <3>8, <3>9
      <4> HIDE DEF u, v, w
      <4>3. PICK n \in Int : n = Net(outcomes)
        BY <1>1
      <4>4. PICK fee \in Int : fee = position.fee
        BY <3>2
      <4>5. money = n - (fee + w) /\ ledger.equity = InitialEquity + (n - fee) + u
        BY <2>4, <4>2, <4>3, <4>4
      <4>6. ledger.equity = InitialEquity + money + v
        BY <2>4, <4>1, <4>5
      <4> QED
        BY <4>6 DEF v
    <3>11. phase # "finalized"
      BY <2>5, NoneHeld DEF SessionBooks, SessionTold
    <3> QED
      BY <2>5, <3>4, <3>5, <3>10, <3>11
  <2>6. CASE ~Held(position)
    <3>1. Owed(position) = 0 /\ Count(position) = 0
      BY <2>6 DEF Owed, Count
    <3>2. submitted = Len(outcomes)
      BY <1>1, <3>1 DEF SessionBooks, SessionTold
    <3> QED
      BY <1>1, <2>3, <2>4, <2>6, <3>1, <3>2
  <2> QED
    BY <2>5, <2>6
<1>4. PipelineTypeOK
  <2>1. \A i \in DOMAIN trades : trades[i] \in Trades
    BY DEF Bucketed, TradesType
  <2> QED
    BY <2>1 DEF Fed, PipelineTypeOK
<1>5. SessionTypeOK
  <2>1. /\ position.side \in {-1, 0, 1}
        /\ position.side # 0 => position.bars \in 0..(MaxHoldingBars - 1)
    BY <1>1, CarriedFields DEF NoPosition
  <2>2. \A i \in DOMAIN outcomes : outcomes[i].reason \in Reasons
    BY <1>1 DEF Listed, Settled
  <2>3. submitted \in 0..MaxOrders
    BY DEF SessionBooks, SessionTyped, SessionTold, AccountTypeOK
  <2> QED
    BY <2>1, <2>2, <2>3 DEF SessionBooks, SessionTyped, SessionTypeOK
<1> QED
  BY <1>2, <1>3, <1>4, <1>5 DEF AccountSound, ClosedInTime, TypeOK, SessionBooks, SessionTyped

-----------------------------------------------------------------------------
(* The trades a position lived through                                     *)

(* The last candle is the bar of the history, and nothing is held or       *)
(* closed before there is one.                                             *)
BarLast ==
  /\ candles = <<>> => bar = NoBar /\ outcomes = <<>> /\ ~Held(position)
  /\ candles # <<>> => bar = candles[Len(candles)]

(* No trade of ts in a bar after the one of entry, up to the bar upto, was *)
(* at the stop of p.                                                       *)
Above(ts, p, upto) ==
  \A j \in DOMAIN ts :
    p.entry < BucketStart(ts[j].time) /\ BucketStart(ts[j].time) <= upto
      => p.side * ts[j].price > p.side * p.stop

Lived ==
  /\ BarLast
  /\ Held(position) => position.entry <= bar.start /\ Above(trades, position, bar.start)
  /\ \A i \in DOMAIN outcomes :
       /\ outcomes[i].exit <= bar.start
       /\ outcomes[i].reason = "TARGET" => Above(trades, outcomes[i], outcomes[i].exit)

(* The property is what Lived says.                                        *)
LEMMA LivedLucky == Lived => NoLuckyTarget
BY DEF Lived, Above, NoLuckyTarget

(* The bar precedes the candle that forms, whose trades are the ones after *)
(* it.                                                                     *)
LEMMA BarBefore ==
  ASSUME Bucketed, BarLast, candles # <<>>
  PROVE  /\ bar.start \in Nat /\ forming # NoCandle /\ bar.start < forming.start
         /\ \A j \in DOMAIN trades :
              \/ BucketStart(trades[j].time) = forming.start
              \/ BucketStart(trades[j].time) <= bar.start
<1>1. /\ candles \in Seq(Range(candles)) /\ Len(candles) \in Nat /\ DOMAIN candles = 1..Len(candles)
      /\ Len(candles) # 0
  BY DEF Bucketed
<1>2. PICK n \in DOMAIN candles : n = Len(candles)
  BY <1>1
<1>3. bar = candles[n] /\ forming # NoCandle
  BY <1>2 DEF BarLast, Bucketed
<1>4. candles[n].start \in Nat \ {0} /\ candles[n].start < forming.start
  BY <1>2 DEF Bucketed
<1>5. ASSUME NEW j \in DOMAIN trades, BucketStart(trades[j].time) # forming.start
      PROVE  BucketStart(trades[j].time) <= bar.start
  <2>1. PICK i \in DOMAIN candles : candles[i].start = BucketStart(trades[j].time)
    BY <1>5 DEF Bucketed
  <2>2. i = n \/ i < n
    BY <1>1, <1>2, <2>1
  <2>3. candles[i].start \in Nat
    BY <2>1 DEF Bucketed
  <2>4. i < n => candles[i].start < candles[n].start
    BY <1>2, <2>1 DEF Bucketed
  <2> QED
    BY <1>3, <1>4, <2>1, <2>2, <2>3, <2>4
<1> QED
  BY <1>3, <1>4, <1>5

(* A trade of a later bucket than upto changes nothing.                    *)
LEMMA AboveKept ==
  ASSUME TradesType, NEW e \in Trades, NEW p, NEW upto, Above(trades, p, upto),
         ~(BucketStart(e.time) <= upto), NEW ts, ts = Append(trades, e)
  PROVE  Above(ts, p, upto)
<1>1. /\ DOMAIN trades = 1..Len(trades) /\ DOMAIN ts = 1..(Len(trades) + 1) /\ Len(trades) \in Nat
      /\ \A j \in 1..Len(trades) : ts[j] = trades[j]
      /\ ts[Len(trades) + 1] = e
  BY DEF TradesType
<1>2. \A j \in 1..(Len(trades) + 1) : j \in 1..Len(trades) \/ j = Len(trades) + 1
  BY <1>1
<1> QED
  BY <1>1, <1>2 DEF Above

(* A candle whose worst price was not at the stop held no trade that was.  *)
LEMMA CandleAbove ==
  ASSUME Bucketed, forming # NoCandle, NEW p, Carried(p), NEW c, c = Candle(forming),
         ~StopHit(p, c), NEW b \in Int, Above(trades, p, b),
         \A j \in DOMAIN trades : \/ BucketStart(trades[j].time) = forming.start
                                  \/ BucketStart(trades[j].time) <= b
  PROVE  Above(trades, p, c.start)
<1>1. PICK f : f = forming
  OBVIOUS
<1>2. Faithful(f) /\ c.start = f.start /\ c.low = f.low /\ c.high = f.high
  BY <1>1 DEF Bucketed, Candle
<1>3. c.low \in Nat \ {0} /\ c.high \in Nat \ {0}
  BY <1>2, CandleTyped DEF Bucketed
<1>4. p.side \in {-1, 1} /\ p.stop \in Nat
  BY CarriedFields
<1>5. ASSUME NEW j \in DOMAIN trades, BucketStart(trades[j].time) = f.start
      PROVE  p.side * trades[j].price > p.side * p.stop
  <2>1. j \in TradesOf(f.start)
    BY <1>5 DEF TradesOf
  <2>2. c.low <= trades[j].price /\ trades[j].price <= c.high
    BY <1>2, <2>1 DEF Faithful
  <2>3. PICK x \in Int : x = trades[j].price
    BY Typed DEF Bucketed
  <2>4. CASE p.side = 1
    <3>1. ~(1 * c.low <= 1 * p.stop)
      BY <2>4 DEF StopHit, Worst
    <3>2. x > p.stop
      BY <1>3, <1>4, <2>2, <2>3, <3>1
    <3> QED
      BY <1>4, <2>3, <2>4, <3>2
  <2>5. CASE p.side = -1
    <3>1. Worst(p, c) = c.high
      BY <2>5 DEF Worst
    <3>2. ~(p.side * c.high <= p.side * p.stop)
      BY <3>1 DEF StopHit
    <3>3. c.high < p.stop
      BY <1>3, <1>4, <2>5, <3>2
    <3>4. x < p.stop
      BY <1>3, <1>4, <2>2, <2>3, <3>3
    <3> QED
      BY <1>4, <2>3, <2>5, <3>4
  <2> QED
    BY <1>4, <2>4, <2>5
<1>6. ASSUME NEW j \in DOMAIN trades, p.entry < BucketStart(trades[j].time),
             BucketStart(trades[j].time) <= c.start
      PROVE  p.side * trades[j].price > p.side * p.stop
  BY <1>1, <1>5, <1>6 DEF Above
<1> QED
  BY <1>6 DEF Above

(* Steps that read no trade keep it.                                       *)
LEMMA LivedQuiet ==
  ASSUME Lived, Quiet, UNCHANGED session \/ SessionRaises
  PROVE  Lived'
<1>1. /\ candles' = candles /\ trades' = trades /\ position' = position /\ outcomes' = outcomes
      /\ bar' = bar
  BY DEF Quiet, session, sessionVars, SessionRaises
<1> QED
  BY <1>1 DEF Lived, BarLast, Above, BucketStart, Held

(* So does the end of the session: its outcome is no target.               *)
LEMMA LivedFinalized ==
  ASSUME Lived, SessionBooks, Quiet, Finalize
  PROVE  Lived'
<1>1. PICK o : o = Outcome(position, bar, bar.close, "SESSION_CLOSE")
  OBVIOUS
<1>2. /\ candles' = candles /\ trades' = trades /\ position' = NoPosition /\ bar' = bar
      /\ outcomes' = IF Held(position) THEN Append(outcomes, o) ELSE outcomes
  BY <1>1 DEF Finalize, Quiet
<1>3. ~Held(position')
  BY <1>2, NoneHeld
<1>4. BarLast'
  BY <1>2, <1>3 DEF Lived, BarLast, Held
<1>5. ASSUME NEW i \in DOMAIN outcomes'
      PROVE  /\ outcomes'[i].exit <= bar.start
             /\ outcomes'[i].reason = "TARGET" => Above(trades, outcomes'[i], outcomes'[i].exit)
  <2>1. CASE ~Held(position)
    BY <1>2, <1>5, <2>1 DEF Lived
  <2>2. CASE Held(position)
    <3>1. bar.start \in Nat
      BY <2>2, NoneHeld DEF SessionBooks, SessionTyped, Told
    <3>2. o.exit = bar.start /\ o.reason = "SESSION_CLOSE"
      BY <1>1 DEF Outcome
    <3>3. /\ DOMAIN outcomes = 1..Len(outcomes) /\ DOMAIN outcomes' = 1..(Len(outcomes) + 1)
          /\ outcomes'[Len(outcomes) + 1] = o /\ Len(outcomes) \in Nat
          /\ \A k \in 1..Len(outcomes) : outcomes'[k] = outcomes[k]
      BY <1>2, <2>2, Appended DEF SessionBooks, SessionTyped, Listed
    <3>4. i \in 1..Len(outcomes) \/ i = Len(outcomes) + 1
      BY <1>5, <3>3
    <3> QED
      BY <3>1, <3>2, <3>3, <3>4 DEF Lived
  <2> QED
    BY <2>1, <2>2
<1>6. \A i \in DOMAIN outcomes' :
        Above(trades, outcomes[i], outcomes[i].exit)' = Above(trades, outcomes'[i], outcomes'[i].exit)
  BY <1>2 DEF Above, BucketStart
<1>7. Held(position)' = Held(position')
  BY DEF Held
<1> QED
  BY <1>2, <1>3, <1>4, <1>5, <1>6, <1>7 DEF Lived

(* So does a trade of the candle that forms, which is later than the bar.  *)
LEMMA LivedJoined ==
  ASSUME Bucketed, Lived, SessionBooks, NEW e \in Trades, Joined(e)
  PROVE  Lived'
<1>1. candles' = candles /\ position' = position /\ outcomes' = outcomes /\ bar' = bar
  BY DEF Joined, FirstTrade, SameCandle, session, sessionVars
<1>2. BarLast' /\ Held(position)' = Held(position)
  BY <1>1 DEF Lived, BarLast, Held
<1>3. CASE candles = <<>>
  <2>1. ~Held(position) /\ DOMAIN outcomes' = {}
    BY <1>1, <1>3 DEF Lived, BarLast
  <2> QED
    BY <1>2, <2>1 DEF Lived
<1>4. CASE candles # <<>>
  <2>1. bar.start \in Nat /\ forming # NoCandle /\ bar.start < forming.start /\ forming.start \in Nat
    BY <1>4, BarBefore DEF Lived, Bucketed
  <2>2. trades' = Append(trades, e) /\ BucketStart(e.time) = forming.start
    BY <2>1 DEF Joined, FirstTrade, SameCandle
  <2>3. ~(BucketStart(e.time) <= bar.start)
    BY <2>1, <2>2
  <2>4. PICK ts : ts = trades'
    OBVIOUS
  <2>5. Held(position) => Above(ts, position, bar.start)
    <3>1. ASSUME Held(position) PROVE Above(ts, position, bar.start)
      <4>1. Above(trades, position, bar.start)
        BY <3>1 DEF Lived
      <4>2. PICK p : p = position
        OBVIOUS
      <4>3. PICK b : b = bar.start
        OBVIOUS
      <4>4. Above(ts, p, b)
        BY <2>2, <2>3, <2>4, <4>1, <4>2, <4>3, AboveKept DEF Bucketed
      <4> QED
        BY <4>2, <4>3, <4>4
    <3> QED
      BY <3>1
  <2>6. ASSUME NEW i \in DOMAIN outcomes
        PROVE  outcomes[i].reason = "TARGET" => Above(ts, outcomes[i], outcomes[i].exit)
    <3>1. SUFFICES ASSUME outcomes[i].reason = "TARGET" PROVE Above(ts, outcomes[i], outcomes[i].exit)
      OBVIOUS
    <3>2. Above(trades, outcomes[i], outcomes[i].exit) /\ outcomes[i].exit <= bar.start
      BY <3>1 DEF Lived
    <3>3. outcomes[i].exit \in Nat
      BY DEF SessionBooks, SessionTyped, Listed, Settled
    <3>4. ~(BucketStart(e.time) <= outcomes[i].exit)
      BY <2>1, <2>2, <3>2, <3>3
    <3>5. PICK o : o = outcomes[i]
      OBVIOUS
    <3>6. Above(ts, o, o.exit)
      BY <2>2, <2>4, <3>2, <3>4, <3>5, AboveKept DEF Bucketed
    <3> QED
      BY <3>5, <3>6
  <2>7. /\ Above(trades, position, bar.start)' = Above(ts, position, bar.start)
        /\ \A i \in DOMAIN outcomes :
             Above(trades, outcomes[i], outcomes[i].exit)' = Above(ts, outcomes[i], outcomes[i].exit)
    BY <1>1, <2>4 DEF Above, BucketStart
  <2> QED
    BY <1>1, <1>2, <2>5, <2>6, <2>7 DEF Lived
<1> QED
  BY <1>3, <1>4

(* What the exits of a candle make of outcomes and position, and an entry  *)
(* of the position it takes.                                               *)
LEMMA CandleLeaves ==
  ASSUME SessionBooks, NEW c, Told(c),
         CandleRaises(c) \/ \E side \in {-1, 0, 1} : OnCandle(c, side)
  PROVE  /\ bar' = c
         /\ \E a : /\ Exited(a, c) /\ outcomes' = a.outs
                   /\ \/ position' = a.pos
                      \/ Carried(position') /\ position'.entry = c.start
<1>1. PICK a : a = AfterExits(c)
  OBVIOUS
<1>2. Exited(a, c)
  BY <1>1, ExitsDo DEF SessionBooks, SessionTyped
<1>3. CASE CandleRaises(c)
  BY <1>1, <1>2, <1>3 DEF CandleRaises
<1>4. ASSUME NEW side \in {-1, 0, 1}, OnCandle(c, side)
      PROVE  /\ bar' = c /\ outcomes' = a.outs
             /\ position' = a.pos \/ (Carried(position') /\ position'.entry = c.start)
  <2>1. bar' = c /\ outcomes' = a.outs /\ position' = IF side = 0 THEN a.pos ELSE EntryAt(c, side)
    BY <1>1, <1>4 DEF OnCandle, Handle
  <2>2. side # 0 => Carried(EntryAt(c, side)) /\ EntryAt(c, side).entry = c.start
    BY EntryTyped
  <2> QED
    BY <2>1, <2>2
<1> QED
  BY <1>2, <1>3, <1>4

(* So does a candle that completes.                                        *)
LEMMA LivedCompleted ==
  ASSUME Bucketed, Lived, SessionBooks, NEW e \in Trades, Completed(e)
  PROVE  Lived'
<1>1. PICK c : c = Candle(forming)
  OBVIOUS
<1>2. /\ forming # NoCandle /\ candles' = Append(candles, c) /\ trades' = Append(trades, e)
      /\ BucketStart(e.time) > forming.start
  BY <1>1 DEF Completed, NextCandle
<1>3. Told(c) /\ c.start = forming.start /\ c.start \in Nat
  BY <1>1, <1>2, FormingTold DEF Told
<1>4. /\ bar' = c
      /\ \E a : /\ Exited(a, c) /\ outcomes' = a.outs
                /\ \/ position' = a.pos
                   \/ Carried(position') /\ position'.entry = c.start
  BY <1>1, <1>3, CandleLeaves DEF Completed
<1>5. PICK a : /\ Exited(a, c) /\ outcomes' = a.outs
               /\ \/ position' = a.pos
                  \/ Carried(position') /\ position'.entry = c.start
  BY <1>4
<1>6. PICK ts : ts = trades'
  OBVIOUS
<1>7. BucketStart(e.time) \in Int /\ ~(BucketStart(e.time) <= c.start)
  <2>1. BucketStart(e.time) \in Int
    BY TradeTyped, BucketTyped
  <2> QED
    BY <1>2, <1>3, <2>1
<1>8. BarLast'
  <2>1. candles' # <<>> /\ candles'[Len(candles')] = c
    <3>1. Len(candles') = Len(candles) + 1 /\ candles'[Len(candles) + 1] = c /\ Len(candles) \in Nat
      BY <1>2, Appended DEF Bucketed
    <3> QED
      BY <3>1
  <2> QED
    BY <1>4, <2>1 DEF BarLast
<1>9. candles = <<>> => outcomes = <<>> /\ ~Held(position)
  BY DEF Lived, BarLast
<1>10. candles # <<>> =>
         /\ bar.start \in Nat /\ bar.start < c.start
         /\ \A j \in DOMAIN trades : \/ BucketStart(trades[j].time) = forming.start
                                     \/ BucketStart(trades[j].time) <= bar.start
  BY <1>3, BarBefore DEF Lived
<1>11. ASSUME Held(position), ~StopHit(position, c)
       PROVE  Above(ts, position, c.start) /\ position.entry <= c.start
  <2>1. PICK p : p = position
    OBVIOUS
  <2>2. Carried(p)
    BY <1>11, <2>1, NoneHeld DEF SessionBooks, SessionTyped
  <2>3. Above(trades, p, bar.start) /\ p.entry <= bar.start /\ p.entry \in Nat /\ candles # <<>>
    BY <1>9, <1>11, <2>1, <2>2, CarriedFields DEF Lived
  <2>4. PICK b \in Int : b = bar.start
    BY <1>10, <2>3
  <2>5. \A j \in DOMAIN trades : \/ BucketStart(trades[j].time) = forming.start
                                 \/ BucketStart(trades[j].time) <= b
    BY <1>10, <2>3, <2>4
  <2>6. ~StopHit(p, c) /\ Above(trades, p, b)
    BY <1>11, <2>1, <2>3, <2>4
  <2>7. Above(trades, p, c.start)
    BY <1>1, <1>2, <2>2, <2>5, <2>6, CandleAbove
  <2>8. Above(ts, p, c.start)
    BY <1>2, <1>6, <1>7, <2>7, AboveKept DEF Bucketed
  <2>9. p.entry <= c.start
    BY <1>3, <1>10, <2>3
  <2> QED
    BY <2>1, <2>8, <2>9
<1>12. ASSUME Held(position')
       PROVE  position'.entry <= c.start /\ Above(ts, position', c.start)
  <2>1. CASE position' = a.pos
    <3>1. /\ Held(position) /\ ~StopHit(position, c)
          /\ position'.side = position.side /\ position'.entry = position.entry
          /\ position'.stop = position.stop
      BY <1>5, <1>12, <2>1, NoneHeld DEF Exited
    <3>2. Above(ts, position, c.start) /\ position.entry <= c.start
      BY <1>11, <3>1
    <3> QED
      BY <3>1, <3>2 DEF Above
  <2>2. CASE position'.entry = c.start
    <3>1. ASSUME NEW j \in DOMAIN ts
          PROVE  ~(c.start < BucketStart(ts[j].time) /\ BucketStart(ts[j].time) <= c.start)
      <4>1. /\ DOMAIN trades = 1..Len(trades) /\ DOMAIN ts = 1..(Len(trades) + 1) /\ Len(trades) \in Nat
            /\ \A k \in 1..Len(trades) : ts[k] = trades[k]
            /\ ts[Len(trades) + 1] = e
        BY <1>2, <1>6 DEF Bucketed, TradesType
      <4>2. j \in 1..Len(trades) \/ j = Len(trades) + 1
        BY <3>1, <4>1
      <4>3. ts[j].time \in Int
        BY <4>1, <4>2, Typed, TradeTyped DEF Bucketed
      <4>4. BucketStart(ts[j].time) \in Int
        BY <4>3, BucketTyped
      <4> QED
        BY <1>3, <4>4
    <3> QED
      BY <1>3, <2>2, <3>1 DEF Above
  <2> QED
    BY <1>5, <2>1, <2>2
<1>13. ASSUME NEW i \in DOMAIN outcomes
       PROVE  /\ outcomes[i].exit <= c.start
              /\ outcomes[i].reason = "TARGET" => Above(ts, outcomes[i], outcomes[i].exit)
  <2>1. PICK o : o = outcomes[i]
    OBVIOUS
  <2>2. candles # <<>>
    BY <1>9, <1>13
  <2>3. o.exit \in Nat /\ o.exit <= bar.start /\ (o.reason = "TARGET" => Above(trades, o, o.exit))
    BY <2>1 DEF SessionBooks, SessionTyped, Listed, Settled, Lived
  <2>4. o.exit <= c.start /\ ~(BucketStart(e.time) <= o.exit)
    BY <1>3, <1>7, <1>10, <2>2, <2>3
  <2>5. Above(trades, o, o.exit) => Above(ts, o, o.exit)
    BY <1>2, <1>6, <2>4, AboveKept DEF Bucketed
  <2> QED
    BY <2>1, <2>3, <2>4, <2>5
<1>14. ASSUME NEW i \in DOMAIN outcomes'
       PROVE  /\ outcomes'[i].exit <= c.start
              /\ outcomes'[i].reason = "TARGET" => Above(ts, outcomes'[i], outcomes'[i].exit)
  <2>1. CASE outcomes' = outcomes
    BY <1>13, <1>14, <2>1
  <2>2. ASSUME NEW o, Ended(outcomes', position, c, o)
        PROVE  /\ outcomes'[i].exit <= c.start
               /\ outcomes'[i].reason = "TARGET" => Above(ts, outcomes'[i], outcomes'[i].exit)
    <3>1. /\ outcomes' = Append(outcomes, o) /\ Held(position) /\ o.exit = c.start
          /\ o.entry = position.entry /\ o.side = position.side /\ o.stop = position.stop
          /\ o.reason = "TARGET" => ~StopHit(position, c)
      BY <2>2 DEF Ended
    <3>2. /\ DOMAIN outcomes = 1..Len(outcomes) /\ DOMAIN outcomes' = 1..(Len(outcomes) + 1)
          /\ outcomes'[Len(outcomes) + 1] = o /\ Len(outcomes) \in Nat
          /\ \A k \in 1..Len(outcomes) : outcomes'[k] = outcomes[k]
      BY <3>1, Appended DEF SessionBooks, SessionTyped, Listed
    <3>3. CASE i \in 1..Len(outcomes)
      BY <1>13, <3>2, <3>3
    <3>4. CASE i = Len(outcomes) + 1
      <4>1. o.reason = "TARGET" => Above(ts, position, c.start)
        BY <1>11, <3>1
      <4>2. Above(ts, position, c.start) => Above(ts, o, o.exit)
        BY <3>1 DEF Above
      <4>3. o.exit <= c.start
        BY <1>3, <3>1
      <4> QED
        BY <3>2, <3>4, <4>1, <4>2, <4>3
    <3> QED
      BY <1>14, <3>2, <3>3, <3>4
  <2>3. outcomes' = outcomes \/ \E o : Ended(outcomes', position, c, o)
    BY <1>5 DEF Exited
  <2> QED
    BY <2>1, <2>2, <2>3
<1>15. /\ Held(position)' = Held(position')
       /\ Above(trades, position, bar.start)' = Above(ts, position', bar'.start)
       /\ \A i \in DOMAIN outcomes' :
            Above(trades, outcomes[i], outcomes[i].exit)' = Above(ts, outcomes'[i], outcomes'[i].exit)
  BY <1>6 DEF Above, BucketStart, Held
<1> QED
  BY <1>4, <1>8, <1>12, <1>14, <1>15 DEF Lived

(* Every step keeps it.                                                    *)
LEMMA LivedStep == Bucketed /\ Fed /\ SessionBooks /\ Lived /\ [Next]_vars => Lived'
<1> SUFFICES ASSUME Bucketed, Fed, SessionBooks, Lived, [Next]_vars PROVE Lived'
  OBVIOUS
<1>1. CASE Quiet /\ (UNCHANGED session \/ SessionRaises \/ Finalize)
  BY <1>1, LivedQuiet, LivedFinalized
<1>2. ASSUME NEW e \in Trades, Joined(e) \/ Completed(e) PROVE Lived'
  BY <1>2, LivedJoined, LivedCompleted
<1> QED
  BY <1>1, <1>2, SessionSteps

(* A session is its pipeline, its books and the trades it lived through.   *)
SessionInv == Bucketed /\ Fed /\ SessionBooks /\ Lived

(* The inductive invariant of the session holds of every state it reaches. *)
LEMMA SessionSafe == Spec => []SessionInv
<1>1. Init => SessionInv
  <2> SUFFICES ASSUME Init PROVE SessionInv
    OBVIOUS
  <2>1. Bucketed /\ Fed /\ SessionBooks
    BY BucketedInitially, BooksInitially DEF Init
  <2>2. /\ candles = <<>> /\ bar = NoBar /\ outcomes = <<>> /\ DOMAIN outcomes = {} /\ ~Held(position)
    BY NoneHeld DEF Init, PipelineInit, SessionInit
  <2>3. Lived
    BY <2>2 DEF Lived, BarLast
  <2> QED
    BY <2>1, <2>3 DEF SessionInv
<1>2. SessionInv /\ [Next]_vars => SessionInv'
  BY BucketedStep, BooksStep, LivedStep DEF SessionInv
<1> QED
  BY <1>1, <1>2, PTL DEF Spec

(* No position closed at its target traded at its stop on the way:         *)
(* whatever the ticks of its candles, PaperExitEngine gives the profit of  *)
(* the target only to positions whose stop no trade after the entry bar    *)
(* met.                                                                    *)
THEOREM NeverLucky == Spec => []NoLuckyTarget
<1>1. SessionInv => NoLuckyTarget
  BY LivedLucky DEF SessionInv
<1> QED
  BY <1>1, SessionSafe, PTL

(* The session's ledger is the money its fills really moved with what is   *)
(* open at the last close, after the final close nothing is open, every    *)
(* entry is open or has one outcome, and a session that stops at its       *)
(* target takes no entry beyond it (VirtualIntradaySession._account_mark   *)
(* and finalize, LivePaperEngine.on_candle).                               *)
THEOREM SessionAccountSound == Spec => []AccountSound
<1>1. SessionInv => AccountSound
  BY BooksSound DEF SessionInv
<1> QED
  BY <1>1, SessionSafe, PTL

(* Exits come in time: the session keeps its types, an open position is    *)
(* younger than max_holding_bars, and none that was carried into a candle  *)
(* survives one at or after the cutoff (PaperExitEngine.process_candle).   *)
THEOREM AlwaysClosedInTime == Spec => []ClosedInTime
<1>1. SessionInv => ClosedInTime
  BY BooksSound DEF SessionInv
<1> QED
  BY <1>1, SessionSafe, PTL

-----------------------------------------------------------------------------
(* The decision loop                                                       *)

(* What DecideFlat approves: an entry of the day on a flat symbol, in a    *)
(* free slot, of a quantity that leaves the whole book within the exposure *)
(* limit, resized to it or not.                                            *)
LEMMA FlatDecision ==
  ASSUME NEW a, a.equity \in Nat, a.cash \in Int, a.gross \in Int,
         NEW long, NEW x \in Nat \ {0}, NEW stop \in Nat \ {0},
         NEW d, d = DecideFlat(a, long, x, stop, 100), d.approved
  PROVE  /\ ~a.held /\ a.trades < MaxTrades /\ a.open < MaxOpen
         /\ d.quantity \in Nat \ {0}
         /\ ~OverExposed(a.gross + x * d.quantity, a.equity)
<1> DEFINE sized   == PositionSize(a.equity, stop)
           cashQty == a.cash \div x
           wanted  == Least(sized, cashQty)
           n       == (wanted * 100) \div 100
           over    == OverExposed(a.gross + x * n, a.equity)
           room    == (a.equity * GrossPct - 100 * a.gross) \div (100 * x)
           final   == IF over THEN Least(n, room) ELSE n
<1>1. /\ WithinAccountLimits(a, TRUE, ~a.held) /\ ~a.held /\ final > 0
      /\ d.quantity = final
  BY DEF DecideFlat, Rejected
<1>2. sized \in Int
  BY Sized
<1>3. cashQty \in Int
  BY DivBelow
<1> HIDE DEF sized, cashQty
<1>4. wanted \in Int
  BY <1>2, <1>3 DEF Least
<1> HIDE DEF wanted
<1>5. n \in Int
  BY <1>4
<1>6. room \in Int /\ \A k \in Int : k <= room => ~OverExposed(a.gross + x * k, a.equity)
  BY RoomLeft
<1> HIDE DEF n, room
<1>7. final \in Int /\ ~OverExposed(a.gross + x * final, a.equity)
  <2>1. CASE over
    <3>1. final \in Int /\ final <= room
      BY <1>5, <1>6, <2>1 DEF Least
    <3> QED BY <1>6, <3>1
  <2>2. CASE ~over
    BY <1>5, <2>2
  <2> QED BY <2>1, <2>2
<1> HIDE DEF final
<1> QED BY <1>1, <1>7 DEF WithinAccountLimits

(* The figures the loop passes on are numbers.                             *)
LEMMA RowFigures ==
  ASSUME LoopTypeOK, NEW m \in [Symbols -> Nat]
  PROVE  /\ EquityAt(m) \in Int /\ Exposure(m) \in Int
         /\ Exposure(m) = ValueOf(qty, m, Symbols)
<1>1. /\ qty \in [Symbols -> Int] /\ cost \in [Symbols -> Nat] /\ realized \in Int
      /\ IsFiniteSet(Symbols) /\ StartEquity \in Nat
  BY AccountAssumption, LoopAssumption DEF LoopTypeOK, AccountTypeOK
<1> DEFINE f == [s \in Symbols |-> qty[s] * m[s] - Sgn(qty[s]) * cost[s]]
           g == [s \in Symbols |-> Magnitude(qty[s]) * m[s]]
<1>2. f \in [Symbols -> Int] /\ g \in [Symbols -> Int] /\ DOMAIN f = Symbols /\ DOMAIN g = Symbols
  BY <1>1 DEF Sgn, Magnitude
<1>3. Unrealized(m) = SumFunctionOnSet(f, Symbols) /\ Exposure(m) = SumFunctionOnSet(g, Symbols)
  BY <1>2 DEF Unrealized, Exposure, SumFunction
<1>4. ValueOf(qty, m, Symbols) = SumFunctionOnSet(g, Symbols)
  BY DEF ValueOf, Abs, Magnitude
<1> HIDE DEF f, g
<1>5. SumFunctionOnSet(f, Symbols) \in Int /\ SumFunctionOnSet(g, Symbols) \in Int
  BY <1>1, <1>2, SumTaken
<1> QED BY <1>1, <1>3, <1>4, <1>5 DEF EquityAt

(* An order moves the exposure by what it makes of its own symbol.         *)
LEMMA ExposureMoved ==
  ASSUME NEW b \in [Symbols -> Int], NEW m \in [Symbols -> Nat], NEW s \in Symbols, NEW q \in Int
  PROVE  ValueOf([b EXCEPT ![s] = q], m, Symbols)
           = ValueOf(b, m, Symbols) + m[s] * (Abs(q) - Abs(b[s]))
<1>1. Symbols \in SUBSET Symbols
  OBVIOUS
<1> QED BY <1>1, ValueChanged

(* The inductive invariant: every order of the journal opened one of the   *)
(* positions, and the positions are counted against the slots and against  *)
(* the entries of the days before and of this one.                         *)
Entered ==
  /\ journal = Cardinality(HeldSymbols) /\ Cardinality(HeldSymbols) <= MaxOpen
  /\ IF day = 0 THEN Cardinality(HeldSymbols) = 0
     ELSE Cardinality(HeldSymbols) + MaxTrades <= MaxTrades * day + tradesToday
LoopInv == LoopTypeOK /\ NoIdleCost /\ Entered

(* The loop starts on an empty account.                                    *)
LEMMA LoopInitially == LoopInit => LoopInv
<1> SUFFICES ASSUME LoopInit PROVE LoopInv
  OBVIOUS
<1>1. /\ qty = [s \in Symbols |-> 0] /\ cost = [s \in Symbols |-> 0] /\ pnl = [s \in Symbols |-> 0]
      /\ moved = [s \in Symbols |-> 0] /\ bought = [s \in Symbols |-> 0]
      /\ realized = 0 /\ cash = 0 /\ journal = 0 /\ MaxOrders \in Nat
  BY AccountAssumption DEF LoopInit, AccountInit
<1>2. AccountTypeOK /\ NoIdleCost
  BY <1>1 DEF AccountTypeOK, NoIdleCost
<1>3. LoopTypeOK
  BY <1>2, LoopAssumption, RiskAssumption DEF LoopTypeOK, LoopInit
<1>4. HeldSymbols = {} /\ Cardinality(HeldSymbols) = 0
  BY <1>1, FS_EmptySet DEF HeldSymbols
<1> QED
  BY <1>1, <1>2, <1>3, <1>4, RiskAssumption DEF LoopInv, Entered, LoopInit

(* What a row does: the day goes on or a new one begins, and the account   *)
(* stays or takes one entry, on a flat symbol, that the day's entries, the *)
(* slots and the exposure limit have room for.                             *)
DayGoesOn(k) ==
  \/ day > 0 /\ day' = day /\ tradesToday' = tradesToday + k
  \/ day' = day + 1 /\ tradesToday' = k
Enters(s, n) ==
  /\ qty[s] = 0 /\ Cardinality(HeldSymbols) < MaxOpen
  /\ journal' = journal + 1
  /\ qty' = [qty EXCEPT ![s] = n]
  /\ \A t \in Symbols \ {s} : cost'[t] = cost[t]
  /\ 100 * Exposure(marks)' <= GrossPct * EquityAt(marks')
RowDone ==
  \/ UNCHANGED accountVars /\ DayGoesOn(0)
  \/ DayGoesOn(1) /\ \E s \in Symbols, n \in Int \ {0} : Enters(s, n)

LEMMA RowEffect ==
  ASSUME LoopInv, LoopNext
  PROVE  LoopTypeOK' /\ NoIdleCost' /\ RowDone
<1>1. PICK s \in Symbols, prc \in Prices, side \in {-1, 0, 1}, stop \in StopDistances, fresh \in BOOLEAN :
        (fresh => day < MaxDays) /\ Row(s, prc, side, stop, fresh)
  BY DEF LoopNext
<1>2. /\ qty \in [Symbols -> Int] /\ cost \in [Symbols -> Nat] /\ realized \in Int
      /\ marks \in [Symbols -> Prices \cup {0}] /\ day \in 0..MaxDays /\ tradesToday \in 0..MaxTrades
      /\ dayEquity \in Int /\ dayRealized \in Int /\ AccountTypeOK /\ NoIdleCost
      /\ MaxDays \in Nat /\ MaxTrades \in Nat /\ MaxTrades > 0
  BY LoopAssumption, RiskAssumption DEF LoopInv, LoopTypeOK, AccountTypeOK
<1>3. prc \in Nat \ {0} /\ stop \in Nat \ {0} /\ Prices \subseteq Nat
  BY AccountAssumption, LoopAssumption
<1>4. PICK made \in 0..MaxTrades : made = IF fresh THEN 0 ELSE tradesToday
  BY <1>2
<1>5. PICK m : m = [marks EXCEPT ![s] = prc]
  OBVIOUS
<1>6. m \in [Symbols -> Prices \cup {0}] /\ m \in [Symbols -> Nat] /\ m[s] = prc
  <2>1. m \in [Symbols -> Prices \cup {0}] /\ m[s] = prc
    BY <1>2, <1>5
  <2>2. Prices \cup {0} \subseteq Nat
    BY <1>3
  <2> QED BY <2>1, <2>2
<1>7. EquityAt(m) \in Int /\ Exposure(m) \in Int /\ Exposure(m) = ValueOf(qty, m, Symbols)
  BY <1>6, RowFigures DEF LoopInv
<1>8. PICK start : start = IF fresh THEN EquityAt(m) ELSE dayEquity
  OBVIOUS
<1>9. PICK base : base = IF fresh THEN realized ELSE dayRealized
  OBVIOUS
<1>10. PICK a : a = AccountAtRow(s, m, start, base, made)
  OBVIOUS
<1>11. /\ a.trades = made /\ a.open = Cardinality(HeldSymbols) /\ a.held = (qty[s] # 0)
       /\ a.equity = EquityAt(m) /\ a.cash = EquityAt(m) * prc /\ a.gross = Exposure(m)
  BY <1>6, <1>10 DEF AccountAtRow
<1>12. /\ fresh \/ day > 0
       /\ EquityAt(m) > 0
       /\ day' = IF fresh THEN day + 1 ELSE day
       /\ marks' = m /\ dayEquity' = start /\ dayRealized' = base
       /\ IF side = 0 THEN tradesToday' = a.trades /\ UNCHANGED accountVars
                      ELSE DecideRow(s, side, stop, a)
  BY <1>1, <1>4, <1>5, <1>8, <1>9, <1>10 DEF Row
<1>13. /\ day' \in 0..MaxDays /\ marks' \in [Symbols -> Prices \cup {0}]
       /\ dayEquity' \in Int /\ dayRealized' \in Int
  BY <1>1, <1>2, <1>6, <1>7, <1>8, <1>9, <1>12
<1>14. ASSUME NEW k \in {0, 1}, tradesToday' = made + k
       PROVE  DayGoesOn(k)
  BY <1>2, <1>4, <1>12, <1>14 DEF DayGoesOn
<1>15. CASE UNCHANGED accountVars /\ tradesToday' = made
  <2>1. AccountTypeOK' /\ NoIdleCost'
    BY <1>2, <1>15 DEF accountVars, fillVars, books, AccountTypeOK, NoIdleCost
  <2>2. tradesToday' = made + 0
    BY <1>4, <1>15
  <2>3. DayGoesOn(0)
    BY <1>14, <2>2
  <2> QED
    BY <1>4, <1>13, <1>15, <2>1, <2>3 DEF LoopTypeOK, RowDone
<1>16. ASSUME side # 0, NEW d, d = DecideFlat(a, side = 1, prc, stop, 100), d.approved,
              tradesToday' = made + 1, Submit(s, side, d.quantity, prc)
       PROVE  LoopTypeOK' /\ NoIdleCost' /\ RowDone
  <2>1. /\ ~a.held /\ a.trades < MaxTrades /\ a.open < MaxOpen /\ d.quantity \in Nat \ {0}
        /\ ~OverExposed(a.gross + prc * d.quantity, a.equity)
    <3>1. a.equity \in Nat /\ a.cash \in Int /\ a.gross \in Int
      BY <1>3, <1>7, <1>11, <1>12
    <3> QED BY <1>3, <1>16, <3>1, FlatDecision
  <2>2. PICK n \in Nat \ {0} : n = d.quantity
    BY <2>1
  <2>3. side \in {-1, 1}
    BY <1>16
  <2>4. AccountTypeOK' /\ NoIdleCost' /\ journal' = journal + 1
    BY <1>2, <1>3, <1>16, <2>2, <2>3, SubmitTypes
  <2>5. qty[s] = 0
    BY <1>11, <2>1
  <2>6. PICK r : r = Filled(qty[s], cost[s], side, n, Fill(prc, side))
    OBVIOUS
  <2>7. /\ qty' = [qty EXCEPT ![s] = r.qty] /\ cost' = [cost EXCEPT ![s] = r.cost]
    BY <1>16, <2>2, <2>6 DEF Submit
  <2>8. r.qty = side * n
    BY <2>3, <2>5, <2>6 DEF Filled
  <2>9. PICK net \in Int \ {0} : net = side * n /\ Abs(net) = n
    BY <2>3 DEF Abs
  <2>10. /\ qty' = [qty EXCEPT ![s] = net]
         /\ \A t \in Symbols \ {s} : cost'[t] = cost[t]
    BY <1>2, <2>7, <2>8, <2>9
  <2>11. made + 1 \in 0..MaxTrades /\ LoopTypeOK'
    BY <1>2, <1>4, <1>11, <1>13, <1>16, <2>1, <2>4 DEF LoopTypeOK
  <2>12. Exposure(marks)' = Exposure(m) + prc * n
    <3>1. ValueOf([qty EXCEPT ![s] = net], m, Symbols) = ValueOf(qty, m, Symbols) + m[s] * (Abs(net) - Abs(qty[s]))
      <4>1. qty \in [Symbols -> Int] /\ m \in [Symbols -> Nat] /\ net \in Int
        BY <1>2, <1>6
      <4> QED BY <4>1, ExposureMoved, Zenon
    <3>2. Abs(qty[s]) = 0
      BY <2>5 DEF Abs
    <3>3. Exposure(marks)' = ValueOf(qty', m, Symbols)
      BY <1>12 DEF Exposure, ValueOf, Magnitude, Abs, SumFunction
    <3> QED BY <1>3, <1>6, <1>7, <2>9, <2>10, <3>1, <3>2, <3>3
  <2>13. 100 * Exposure(marks)' <= GrossPct * EquityAt(marks')
    <3>1. 100 * (Exposure(m) + prc * n) <= EquityAt(m) * GrossPct
      <4>1. prc * n \in Int /\ GrossPct \in Int /\ EquityAt(m) * GrossPct \in Int
        BY <1>3, <1>7, RiskAssumption
      <4> QED BY <1>7, <1>11, <2>1, <2>2, <4>1 DEF OverExposed
    <3>2. EquityAt(m) * GrossPct = GrossPct * EquityAt(m)
      BY <1>7, RiskAssumption
    <3> QED BY <1>12, <2>12, <3>1, <3>2
  <2>14. Enters(s, net)
    BY <1>11, <2>1, <2>4, <2>5, <2>10, <2>13 DEF Enters
  <2>15. DayGoesOn(1)
    BY <1>14, <1>16
  <2> QED
    BY <2>4, <2>11, <2>14, <2>15 DEF RowDone
<1> QED
  <2>1. CASE side = 0
    BY <1>11, <1>12, <1>15, <2>1
  <2>2. CASE side # 0
    <3>1. PICK d : d = DecideFlat(a, side = 1, prc, stop, 100)
      OBVIOUS
    <3>2. /\ tradesToday' = made + (IF d.approved THEN 1 ELSE 0)
          /\ IF d.approved THEN Submit(s, side, d.quantity, prc) ELSE UNCHANGED accountVars
      BY <1>6, <1>11, <1>12, <2>2, <3>1 DEF DecideRow
    <3>3. CASE d.approved
      BY <1>16, <2>2, <3>1, <3>2, <3>3
    <3>4. CASE ~d.approved
      BY <1>4, <1>15, <3>2, <3>4
    <3> QED BY <3>3, <3>4
  <2> QED BY <2>1, <2>2

(* Every row counts its entry once.                                        *)
LEMMA EnteredStep ==
  ASSUME LoopInv, LoopTypeOK', RowDone
  PROVE  Entered'
<1>1. /\ qty \in [Symbols -> Int] /\ day \in Nat /\ tradesToday \in 0..MaxTrades
      /\ MaxTrades \in Nat /\ MaxOpen \in Nat /\ MaxOpen > 0 /\ MaxTrades > 0
      /\ HeldSymbols \subseteq Symbols /\ IsFiniteSet(Symbols)
  BY LoopAssumption, RiskAssumption, AccountAssumption DEF LoopInv, LoopTypeOK, AccountTypeOK, HeldSymbols
<1>2. IsFiniteSet(HeldSymbols) /\ Cardinality(HeldSymbols) \in Nat
  BY <1>1, FS_Subset, FS_CardinalityType
<1>3. PICK h \in Nat : h = Cardinality(HeldSymbols)
  BY <1>2
<1>4. /\ journal = h /\ h <= MaxOpen
      /\ IF day = 0 THEN h = 0 ELSE h + MaxTrades <= MaxTrades * day + tradesToday
  BY <1>3 DEF LoopInv, Entered
<1>5. ASSUME NEW k \in {0, 1}, DayGoesOn(k)
      PROVE  day' # 0 /\ h + k + MaxTrades <= MaxTrades * day' + tradesToday'
  <2>1. CASE day > 0 /\ day' = day /\ tradesToday' = tradesToday + k
    <3>1. MaxTrades * day \in Int
      BY <1>1
    <3> QED BY <1>1, <1>4, <2>1, <3>1
  <2>2. CASE day' = day + 1 /\ tradesToday' = k
    <3>1. MaxTrades * day \in Int /\ MaxTrades * (day + 1) = MaxTrades * day + MaxTrades
      BY <1>1
    <3>2. day = 0 => MaxTrades * day = 0
      BY <1>1
    <3> DEFINE w == MaxTrades * day
    <3>3. h <= w
      <4> HIDE DEF w
      <4>1. w \in Int /\ (day = 0 => w = 0) /\ (day # 0 => h + MaxTrades <= w + tradesToday)
        BY <1>4, <3>1, <3>2 DEF w
      <4> QED BY <1>1, <1>4, <4>1
    <3>4. MaxTrades * day' = w + MaxTrades /\ w \in Int /\ day' # 0
      BY <1>1, <2>2, <3>1
    <3> HIDE DEF w
    <3> QED BY <1>1, <2>2, <3>3, <3>4
  <2> QED BY <1>5, <2>1, <2>2 DEF DayGoesOn
<1>6. CASE UNCHANGED accountVars /\ DayGoesOn(0)
  <2>1. journal' = journal /\ HeldSymbols' = HeldSymbols
    BY <1>6 DEF accountVars, fillVars, books, HeldSymbols
  <2>2. day' # 0 /\ h + 0 + MaxTrades <= MaxTrades * day' + tradesToday'
    BY <1>5, <1>6
  <2> QED BY <1>3, <1>4, <2>1, <2>2 DEF Entered
<1>7. CASE DayGoesOn(1) /\ \E s \in Symbols, n \in Int \ {0} : Enters(s, n)
  <2>1. PICK s \in Symbols, n \in Int \ {0} : Enters(s, n)
    BY <1>7
  <2>2. s \notin HeldSymbols /\ HeldSymbols' = HeldSymbols \cup {s}
    BY <1>1, <2>1 DEF Enters, HeldSymbols
  <2>3. Cardinality(HeldSymbols') = h + 1
    BY <1>2, <1>3, <2>2, FS_AddElement
  <2>4. journal' = h + 1 /\ h + 1 <= MaxOpen
    BY <1>1, <1>3, <1>4, <2>1 DEF Enters
  <2>5. day' # 0 /\ h + 1 + MaxTrades <= MaxTrades * day' + tradesToday'
    BY <1>5, <1>7
  <2> QED BY <2>3, <2>4, <2>5 DEF Entered
<1> QED BY <1>6, <1>7 DEF RowDone

(* Every step of the loop keeps the invariant, the entries made before it, *)
(* and the exposure limit on the one it makes.                             *)
EntryKept == \A s \in HeldSymbols : qty'[s] = qty[s] /\ cost'[s] = cost[s]
EntryRoom == qty' # qty => 100 * Exposure(marks)' <= GrossPct * EquityAt(marks')

LEMMA LoopStep == LoopInv /\ [LoopNext]_loopVars => LoopInv' /\ [EntryKept]_loopVars /\ [EntryRoom]_loopVars
<1> SUFFICES ASSUME LoopInv, [LoopNext]_loopVars
             PROVE  LoopInv' /\ [EntryKept]_loopVars /\ [EntryRoom]_loopVars
  OBVIOUS
<1>1. CASE LoopNext
  <2>1. LoopTypeOK' /\ NoIdleCost' /\ RowDone
    BY <1>1, RowEffect
  <2>2. LoopInv'
    BY <2>1, EnteredStep DEF LoopInv
  <2>3. EntryKept /\ EntryRoom
    <3>1. CASE UNCHANGED accountVars
      BY <3>1 DEF accountVars, fillVars, books, EntryKept, EntryRoom
    <3>2. CASE \E s \in Symbols, n \in Int \ {0} : Enters(s, n)
      <4>1. PICK s \in Symbols, n \in Int \ {0} : Enters(s, n)
        BY <3>2
      <4>2. qty \in [Symbols -> Int]
        BY DEF LoopInv, LoopTypeOK, AccountTypeOK
      <4> QED BY <4>1, <4>2 DEF Enters, EntryKept, EntryRoom, HeldSymbols
    <3> QED BY <2>1, <3>1, <3>2 DEF RowDone
  <2> QED BY <2>2, <2>3
<1>2. CASE UNCHANGED loopVars
  <2>1. UNCHANGED <<qty, cost, pnl, realized, journal, cash, moved, bought,
                    marks, day, dayEquity, dayRealized, tradesToday>>
    BY <1>2 DEF loopVars, accountVars, fillVars, books, dayVars
  <2>2. LoopTypeOK' /\ NoIdleCost' /\ Entered'
    BY <2>1 DEF LoopInv, LoopTypeOK, AccountTypeOK, NoIdleCost, Entered, HeldSymbols
  <2> QED BY <1>2, <2>2 DEF LoopInv
<1> QED BY <1>1, <1>2

(* The invariant gives both limits.                                        *)
LEMMA LoopWithin == LoopInv => WithinLimits /\ journal = Cardinality(HeldSymbols)
<1> SUFFICES ASSUME LoopInv PROVE WithinLimits /\ journal = Cardinality(HeldSymbols)
  OBVIOUS
<1>1. /\ day \in Nat /\ tradesToday \in 0..MaxTrades /\ MaxTrades \in Nat
      /\ HeldSymbols \subseteq Symbols /\ IsFiniteSet(Symbols) /\ MaxTrades * day \in Int
  BY LoopAssumption, RiskAssumption, AccountAssumption DEF LoopInv, LoopTypeOK, HeldSymbols
<1>2. Cardinality(HeldSymbols) \in Nat
  BY <1>1, FS_Subset, FS_CardinalityType
<1>3. Cardinality(HeldSymbols) <= MaxTrades * day
  <2>1. CASE day = 0
    BY <1>1, <1>2, <2>1 DEF LoopInv, Entered
  <2>2. CASE day # 0
    <3>1. Cardinality(HeldSymbols) + MaxTrades <= MaxTrades * day + tradesToday
      BY <2>2 DEF LoopInv, Entered
    <3> QED BY <1>1, <1>2, <3>1
  <2> QED BY <2>1, <2>2
<1> QED BY <1>3 DEF WithinLimits, LoopInv, Entered

(* Of every run of the decision loop, whatever the rows: the slots and the *)
(* days' entries bound the positions, the journal is the list of them, no  *)
(* row touches a position taken before, and an entry leaves the book       *)
(* within the exposure limit of the equity it was decided on               *)
(* (PaperDecisionLoop.run, RiskEngine.evaluate).                           *)
THEOREM EntriesAlwaysSound == LoopSpec => EntriesSound
<1>1. LoopInit => LoopInv
  BY LoopInitially
<1>2. LoopInv /\ [LoopNext]_loopVars => LoopInv' /\ [EntryKept]_loopVars /\ [EntryRoom]_loopVars
  BY LoopStep
<1>3. LoopInv => WithinLimits /\ journal = Cardinality(HeldSymbols)
  BY LoopWithin
<1>4. LoopSpec => /\ []WithinLimits /\ [](journal = Cardinality(HeldSymbols))
                  /\ [][EntryKept]_loopVars /\ [][EntryRoom]_loopVars
  BY <1>1, <1>2, <1>3, PTL DEF LoopSpec
<1> QED BY <1>4 DEF EntriesSound, EntryKept, EntryRoom
=============================================================================
