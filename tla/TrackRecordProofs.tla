-------------------------- MODULE TrackRecordProofs --------------------------
(***************************************************************************)
(* The trade log read page by page and the verdict of the verifier, for    *)
(* any number of trades, markets, queries, pages, collectors, trust lists  *)
(* and changes to a bundle.                                                *)
(***************************************************************************)
EXTENDS TrackRecord, FiniteSetTheorems, WellFoundedInduction, TLAPS

(***************************************************************************)
(* The order of the trade log.                                             *)
(***************************************************************************)
Keyed(t) == t.time \in Nat /\ t.symbol \in DOMAIN SymbolOrder /\ t.id \in Nat

\* A finite set of trades no two of which share their key.
Orderable(M) ==
    /\ IsFiniteSet(M) /\ \A t \in M : Keyed(t)
    /\ \A t, u \in M : (t.time = u.time /\ t.symbol = u.symbol /\ t.id = u.id) => t = u

Rank(M, t) == Cardinality({u \in M : Before(u, t)})

(* No trade comes before itself. *)
LEMMA BeforeIrreflexive ==
  ASSUME NEW t, Keyed(t)
  PROVE  ~Before(t, t)
BY TradeLogAssumption DEF Keyed, Before

(* The order of the keys is transitive. *)
LEMMA BeforeTransitive ==
  ASSUME NEW x, NEW y, NEW z, Keyed(x), Keyed(y), Keyed(z), Before(x, y), Before(y, z)
  PROVE  Before(x, z)
BY TradeLogAssumption DEF Keyed, Before

(* Of two trades with different keys one comes first. *)
LEMMA BeforeTotal ==
  ASSUME NEW M, Orderable(M), NEW t \in M, NEW u \in M, t # u
  PROVE  Before(t, u) \/ Before(u, t)
BY TradeLogAssumption DEF Orderable, Keyed, Before

(* A later trade has more trades before it. *)
LEMMA RankStrict ==
  ASSUME NEW M, Orderable(M), NEW t \in M, NEW u \in M, Before(t, u)
  PROVE  Rank(M, t) < Rank(M, u)
<1> DEFINE S == {v \in M : Before(v, t)}
           T == {v \in M : Before(v, u)}
<1>1. IsFiniteSet(M) /\ \A v \in M : Keyed(v)
  BY DEF Orderable
<1>2. S \in SUBSET T
  BY <1>1, BeforeTransitive
<1>3. IsFiniteSet(T) /\ Cardinality(T) \in Nat
  <2>1. T \in SUBSET M
    OBVIOUS
  <2> HIDE DEF T
  <2> QED BY <1>1, <2>1, FS_Subset, FS_CardinalityType
<1>4. t \in T /\ t \notin S
  BY <1>1, BeforeIrreflexive
<1> HIDE DEF S, T
<1>5. Cardinality(S) <= Cardinality(T) /\ Cardinality(S) # Cardinality(T) /\ Cardinality(S) \in Nat
  BY <1>2, <1>3, <1>4, FS_Subset, FS_CardinalityType
<1> QED BY <1>3, <1>5 DEF Rank, S, T

(* Every place from the first to the last is some trade's. *)
LEMMA RankOnto ==
  ASSUME NEW M, Orderable(M)
  PROVE  /\ Cardinality(M) \in Nat
         /\ \A t \in M : Rank(M, t) + 1 \in 1..Cardinality(M)
         /\ \A n \in 1..Cardinality(M) : \E t \in M : Rank(M, t) = n - 1
<1> DEFINE N == Cardinality(M)
           place == [t \in M |-> Rank(M, t) + 1]
<1>1. IsFiniteSet(M) /\ N \in Nat /\ \A v \in M : Keyed(v)
  BY FS_CardinalityType DEF Orderable
<1>2. ASSUME NEW t \in M PROVE Rank(M, t) \in 0..(N - 1)
  <2> DEFINE S == {v \in M : Before(v, t)}
  <2>1. S \in SUBSET M /\ t \notin S
    BY <1>1, BeforeIrreflexive
  <2> HIDE DEF S
  <2>2. Cardinality(S) \in Nat /\ Cardinality(S) <= N /\ Cardinality(S) # N
    BY <1>1, <2>1, FS_Subset, FS_CardinalityType
  <2> QED BY <1>1, <2>2 DEF Rank, S
<1>3. place \in [M -> 1..N]
  <2> HIDE DEF N
  <2>1. \A t \in M : Rank(M, t) + 1 \in 1..N
    BY <1>1, <1>2
  <2> QED BY <2>1
<1>4. \A t, u \in M : place[t] = place[u] => t = u
  <2> SUFFICES ASSUME NEW t \in M, NEW u \in M, t # u PROVE place[t] # place[u]
    OBVIOUS
  <2>1. Rank(M, t) < Rank(M, u) \/ Rank(M, u) < Rank(M, t)
    BY BeforeTotal, RankStrict
  <2> QED BY <1>2, <2>1
<1>5. place \in Injection(M, 1..N)
  BY <1>3, <1>4 DEF Injection, IsInjective
<1>6. IsFiniteSet(1..N) /\ Cardinality(1..N) = N
  BY <1>1, FS_Interval
<1> HIDE DEF place
<1>7. place \in Surjection(M, 1..N)
  BY <1>5, <1>6, FS_Injection
<1>8. \A n \in 1..N : \E t \in M : place[t] = n
  BY <1>7 DEF Surjection
<1>9. \A n \in 1..N : \E t \in M : Rank(M, t) = n - 1
  BY <1>1, <1>2, <1>8 DEF place
<1> QED BY <1>1, <1>2, <1>9

(* InOrder lists every trade, each after the ones before it. *)
LEMMA InOrderSorted ==
  ASSUME NEW M, Orderable(M)
  PROVE  /\ InOrder(M) \in Seq(M) /\ Len(InOrder(M)) = Cardinality(M) /\ Cardinality(M) \in Nat
         /\ \A i, j \in 1..Cardinality(M) : i < j => Before(InOrder(M)[i], InOrder(M)[j])
         /\ \A t \in M : \E i \in 1..Cardinality(M) : InOrder(M)[i] = t
<1> DEFINE N == Cardinality(M)
           s == InOrder(M)
<1>1. /\ N \in Nat
      /\ \A t \in M : Rank(M, t) \in Int /\ Rank(M, t) + 1 \in 1..N
      /\ \A n \in 1..N : \E t \in M : Rank(M, t) = n - 1
  <2>1. \A t \in M : Rank(M, t) \in Int
    <3> SUFFICES ASSUME NEW t \in M PROVE Rank(M, t) \in Int
      OBVIOUS
    <3> DEFINE S == {v \in M : Before(v, t)}
    <3>1. S \in SUBSET M /\ IsFiniteSet(M)
      BY DEF Orderable
    <3> HIDE DEF S
    <3>2. Cardinality(S) \in Nat
      BY <3>1, FS_Subset, FS_CardinalityType
    <3> QED BY <3>2 DEF S, Rank
  <2> QED BY <2>1, RankOnto
<1>2. s = [n \in 1..N |-> CHOOSE t \in M : Rank(M, t) = n - 1]
  BY DEF InOrder, Rank
<1> HIDE DEF N, s
<1>3. ASSUME NEW n \in 1..N PROVE s[n] \in M /\ Rank(M, s[n]) = n - 1
  <2>1. s[n] = CHOOSE t \in M : Rank(M, t) = n - 1
    BY <1>2
  <2> QED BY <1>1, <2>1
<1>4. s \in [1..N -> M]
  BY <1>2, <1>3
<1>5. s \in Seq(M) /\ Len(s) = N
  BY <1>1, <1>4
<1>6. ASSUME NEW i \in 1..N, NEW j \in 1..N, i < j PROVE Before(s[i], s[j])
  <2>1. s[i] # s[j] /\ ~(Rank(M, s[j]) < Rank(M, s[i]))
    BY <1>3, <1>6
  <2> QED BY <1>3, <2>1, BeforeTotal, RankStrict
<1>7. ASSUME NEW t \in M PROVE \E i \in 1..N : s[i] = t
  <2> DEFINE i == Rank(M, t) + 1
  <2>1. i \in 1..N /\ Rank(M, t) \in Int
    BY <1>1
  <2>2. s[i] \in M /\ Rank(M, s[i]) = Rank(M, t)
    BY <1>3, <2>1
  <2>3. s[i] = t
    <3> SUFFICES ASSUME s[i] # t PROVE FALSE
      OBVIOUS
    <3>1. Rank(M, s[i]) < Rank(M, t) \/ Rank(M, t) < Rank(M, s[i])
      BY <2>2, BeforeTotal, RankStrict
    <3> QED BY <2>1, <2>2, <3>1
  <2> QED BY <2>1, <2>3
<1> QED BY <1>1, <1>5, <1>6, <1>7 DEF N, s

(* A cursor is placed like the trade it was taken of. *)
LEMMA CursorPlaced ==
  ASSUME NEW t, Keyed(t)
  PROVE  /\ CursorOf(t) # NoCursor
         /\ \A u : Before(CursorOf(t), u) <=> Before(t, u)
<1>1. CursorOf(t).time = t.time /\ CursorOf(t).symbol = t.symbol /\ CursorOf(t).id = t.id
  BY DEF CursorOf
<1>2. NoCursor.time = -1
  BY DEF NoCursor
<1>3. CursorOf(t) # NoCursor
  BY <1>1, <1>2 DEF Keyed
<1>4. \A u : Before(CursorOf(t), u) <=> Before(t, u)
  BY <1>1 DEF Before
<1> QED BY <1>3, <1>4

(* A page is in order and holds what matches; what it leaves for later is behind its cursor. *)
LEMMA PageOf ==
  ASSUME NEW R, NEW q, Orderable(R), q.limit \in Nat, q.limit >= 1
  PROVE  LET p == Page(R, q) IN
         /\ p.trades \in Seq({t \in R : Matches(t, q)})
         /\ \A i, j \in DOMAIN p.trades : i < j => Before(p.trades[i], p.trades[j])
         /\ p.next # NoCursor => p.trades # << >> /\ p.next = CursorOf(Last(p.trades))
         /\ \A t \in R : Matches(t, q) =>
               t \in Range(p.trades) \/ (p.next # NoCursor /\ Before(p.next, t))
<1> DEFINE M == {t \in R : Matches(t, q)}
           s == InOrder(M)
           N == Cardinality(M)
           n == Min({q.limit, Len(s)})
           p == Page(R, q)
<1>1. Orderable(M)
  <2>1. M \in SUBSET R
    OBVIOUS
  <2> HIDE DEF M
  <2> QED BY <2>1, FS_Subset DEF Orderable
<1>2. p.trades = SubSeq(s, 1, n) /\ p.next = IF Len(s) > q.limit THEN CursorOf(s[n]) ELSE NoCursor
  BY DEF Page
<1> HIDE DEF M, p
<1>3. /\ s \in Seq(M) /\ Len(s) = N /\ N \in Nat
      /\ \A i, j \in 1..N : i < j => Before(s[i], s[j])
      /\ \A t \in M : \E i \in 1..N : s[i] = t
  BY <1>1, InOrderSorted
<1> HIDE DEF s, N
<1>4. n \in 0..N /\ n = IF N > q.limit THEN q.limit ELSE N
  <2> DEFINE S == {q.limit, Len(s)}
  <2>1. \E x \in S : \A y \in S : x <= y
    BY <1>3
  <2>2. Min(S) \in S /\ \A y \in S : Min(S) <= y
    <3> HIDE DEF S
    <3> QED BY <2>1 DEF Min
  <2> QED BY <1>3, <2>2
<1> HIDE DEF n
<1>5. p.trades \in Seq(M) /\ Len(p.trades) = n /\ \A i \in 1..n : p.trades[i] = s[i]
  BY <1>2, <1>3, <1>4
<1>6. \A i, j \in DOMAIN p.trades : i < j => Before(p.trades[i], p.trades[j])
  <2>1. DOMAIN p.trades = 1..n /\ \A i \in 1..n : i \in 1..N
    BY <1>3, <1>4, <1>5
  <2> QED BY <1>3, <1>5, <2>1
<1>7. N > q.limit => n >= 1 /\ p.trades # << >> /\ Last(p.trades) = s[n] /\ p.next = CursorOf(s[n])
  <2> SUFFICES ASSUME N > q.limit
               PROVE  n >= 1 /\ p.trades # << >> /\ Last(p.trades) = s[n] /\ p.next = CursorOf(s[n])
    OBVIOUS
  <2>1. n >= 1 /\ p.next = CursorOf(s[n])
    BY <1>2, <1>3, <1>4
  <2>2. p.trades # << >>
    BY <1>4, <1>5, <2>1
  <2>3. Last(p.trades) = s[n]
    BY <1>4, <1>5, <2>1 DEF Last
  <2> QED BY <2>1, <2>2, <2>3
<1>8. ~(N > q.limit) => p.next = NoCursor /\ n = N
  BY <1>2, <1>3, <1>4
<1>9. ASSUME NEW t \in R, Matches(t, q)
      PROVE  t \in Range(p.trades) \/ (p.next # NoCursor /\ Before(p.next, t))
  <2>1. t \in M
    BY <1>9 DEF M
  <2>2. PICK i \in 1..N : s[i] = t
    BY <1>3, <2>1
  <2>3. CASE i <= n
    <3>1. i \in DOMAIN p.trades /\ p.trades[i] = t
      BY <1>3, <1>4, <1>5, <2>2, <2>3
    <3> QED BY <3>1 DEF Range
  <2>4. CASE ~(i <= n)
    <3>1. N > q.limit /\ n \in 1..N /\ n < i
      BY <1>3, <1>4, <1>7, <1>8, <2>4
    <3>2. Before(s[n], t) /\ p.next = CursorOf(s[n])
      BY <1>3, <1>7, <2>2, <3>1
    <3>3. Keyed(s[n])
      BY <1>1, <1>3, <3>1 DEF Orderable
    <3> QED BY <3>2, <3>3, CursorPlaced
  <2> QED BY <2>3, <2>4
<1> QED BY <1>5, <1>6, <1>7, <1>8, <1>9 DEF M, p

(***************************************************************************)
(* The log at the exchange and what is stored of it.                       *)
(***************************************************************************)
(* The trades of a symbol are finitely many places of the log. *)
LEMMA TradesOfFinite ==
  ASSUME LogNumbered, NEW symbol
  PROVE  IsFiniteSet(TradesOf(symbol)) /\ Cardinality(TradesOf(symbol)) \in Nat
<1>1. DOMAIN log = 1..Len(log) /\ Len(log) \in Nat
  BY DEF LogNumbered
<1>2. IsFiniteSet(1..Len(log))
  BY <1>1, FS_Interval
<1>3. TradesOf(symbol) \in SUBSET (1..Len(log))
  BY <1>1 DEF TradesOf
<1> QED BY <1>2, <1>3, FS_Subset, FS_CardinalityType

(* The stored trades can be ordered: the exchange's numbers tell them apart. *)
LEMMA RowsOrderable ==
  ASSUME LogNumbered
  PROVE  Orderable(TradeRows)
<1> DEFINE S == {j \in stored : log[j].kind \in {"trade"}}
           f == [i \in S |-> log[i]]
<1>1. TradeRows = {log[i] : i \in S}
  BY DEF TradeRows, Rows
<1>2. S \in SUBSET (1..Len(log)) /\ DOMAIN log = 1..Len(log) /\ Len(log) \in Nat
  BY DEF LogNumbered
<1>3. \A i \in S : i \in DOMAIN log /\ IsTrade(log[i])
  BY <1>2 DEF IsTrade
<1> HIDE DEF S
<1>4. IsFiniteSet(S)
  <2>1. IsFiniteSet(1..Len(log))
    BY <1>2, FS_Interval
  <2> QED BY <1>2, <2>1, FS_Subset
<1>5. f \in Surjection(S, TradeRows)
  BY <1>1 DEF Surjection
<1>6. IsFiniteSet(TradeRows)
  <2> HIDE DEF f
  <2> QED BY <1>4, <1>5, FS_Surjection
<1>7. ASSUME NEW t \in TradeRows PROVE Keyed(t)
  <2>1. PICK i \in S : t = log[i]
    BY <1>1
  <2>2. /\ t.time \in Nat /\ t.symbol \in DOMAIN SymbolOrder
        /\ t.id \in 1..Cardinality(TradesOf(t.symbol))
    BY <1>3, <2>1 DEF LogNumbered
  <2> QED BY <2>2, TradesOfFinite DEF Keyed
<1>8. ASSUME NEW t \in TradeRows, NEW u \in TradeRows, t.time = u.time, t.symbol = u.symbol, t.id = u.id
      PROVE  t = u
  <2>1. PICK i \in S : t = log[i]
    BY <1>1
  <2>2. PICK j \in S : u = log[j]
    BY <1>1
  <2>3. i \in Int /\ j \in Int /\ t.id \in Nat
    BY <1>2, <1>7 DEF Keyed
  <2>4. ~(i < j) /\ ~(j < i)
    BY <1>3, <1>8, <2>1, <2>2, <2>3 DEF LogNumbered
  <2> QED BY <2>1, <2>2, <2>3, <2>4
<1> QED BY <1>6, <1>7, <1>8 DEF Orderable

(* One more event keeps the numbering, and every row that is stored. *)
LEMMA HappenLog ==
  ASSUME reader \in Readers, now \in Nat, LogNumbered, Happen
  PROVE  LogNumbered' /\ TradeRows \subseteq TradeRows'
<1> DEFINE L == Len(log)
           Later(x) == {i \in DOMAIN log' : IsTrade(log'[i]) /\ log'[i].symbol = x}
           Id(m) == 1 + Cardinality({i \in DOMAIN log : log[i].kind = "trade" /\ log[i].symbol = m.symbol})
<1>0. PICK m \in Moves[reader] : \E price :
        log' = Append(log, [m EXCEPT !.price = price, !.time = now, !.seq = Len(log) + 1, !.id = Id(m)])
  BY DEF Happen
<1>1. PICK price :
        log' = Append(log, [m EXCEPT !.price = price, !.time = now, !.seq = Len(log) + 1, !.id = Id(m)])
  BY <1>0
<1> DEFINE e == [m EXCEPT !.price = price, !.time = now, !.seq = Len(log) + 1, !.id = Id(m)]
<1>2. Id(m) = 1 + Cardinality(TradesOf(m.symbol))
  BY DEF TradesOf, IsTrade
<1> HIDE DEF Id
<1>3. /\ {"kind", "symbol", "price", "time", "seq", "id"} \subseteq DOMAIN m
      /\ m.kind = "trade" => m.symbol \in DOMAIN SymbolOrder
  BY TrackRecordAssumption
<1>4. e.kind = m.kind /\ e.symbol = m.symbol /\ e.time = now /\ e.id = 1 + Cardinality(TradesOf(e.symbol))
  BY <1>2, <1>3
<1>5. log' = Append(log, e) /\ stored' = stored
  BY <1>1 DEF Happen
<1> HIDE DEF e
<1>6. log \in Seq(Range(log)) /\ L \in Nat /\ DOMAIN log = 1..L /\ stored \subseteq 1..L
  BY DEF LogNumbered
<1>7. /\ DOMAIN log' = 1..(L + 1) /\ log'[L + 1] = e
      /\ \A i \in 1..L : log'[i] = log[i] /\ i \in DOMAIN log'
      /\ \A i \in DOMAIN log' : i \in 1..L \/ i = L + 1
  BY <1>5, <1>6
<1>8. log' \in Seq(Range(log'))
  <2>1. log \in Seq(Range(log) \cup {e})
    BY <1>6
  <2>2. log' \in Seq(Range(log) \cup {e}) /\ Len(log') = L + 1
    BY <1>5, <1>6, <2>1
  <2>3. \A i \in 1..(L + 1) : log'[i] \in Range(log')
    BY <1>7 DEF Range
  <2> QED BY <1>6, <2>2, <2>3
<1> HIDE DEF L
<1>9. \A x : Later(x) = IF IsTrade(e) /\ e.symbol = x THEN TradesOf(x) \cup {L + 1} ELSE TradesOf(x)
  BY <1>6, <1>7 DEF TradesOf
<1> HIDE DEF Later
<1>10. \A x : L + 1 \notin TradesOf(x) /\ IsFiniteSet(TradesOf(x)) /\ Cardinality(TradesOf(x)) \in Nat
  <2>1. \A x : L + 1 \notin TradesOf(x)
    BY <1>6 DEF TradesOf
  <2>2. \A x : IsFiniteSet(TradesOf(x)) /\ Cardinality(TradesOf(x)) \in Nat
    BY TradesOfFinite
  <2> QED BY <2>1, <2>2
<1>11. ASSUME NEW x
       PROVE  Cardinality(Later(x)) = Cardinality(TradesOf(x)) + (IF IsTrade(e) /\ e.symbol = x THEN 1 ELSE 0)
  <2>1. CASE IsTrade(e) /\ e.symbol = x
    <3>1. Later(x) = TradesOf(x) \cup {L + 1}
      BY <1>9, <2>1
    <3> QED BY <1>10, <2>1, <3>1, FS_AddElement
  <2>2. CASE ~(IsTrade(e) /\ e.symbol = x)
    <3>1. Later(x) = TradesOf(x)
      BY <1>9, <2>2
    <3> QED BY <1>10, <2>2, <3>1
  <2> QED BY <2>1, <2>2
<1>12. ASSUME NEW i \in DOMAIN log', IsTrade(log'[i])
       PROVE  /\ log'[i].time \in Nat /\ log'[i].symbol \in DOMAIN SymbolOrder
              /\ log'[i].id \in 1..Cardinality(Later(log'[i].symbol))
              /\ i = L + 1 => log'[i].id = 1 + Cardinality(TradesOf(log'[i].symbol))
  <2>1. CASE i \in 1..L
    <3>1. /\ log[i].time \in Nat /\ log[i].symbol \in DOMAIN SymbolOrder
          /\ log[i].id \in 1..Cardinality(TradesOf(log[i].symbol))
      BY <1>6, <1>7, <1>12, <2>1 DEF LogNumbered
    <3>2. Cardinality(Later(log[i].symbol)) \in Nat
          /\ Cardinality(Later(log[i].symbol)) >= Cardinality(TradesOf(log[i].symbol))
      BY <1>10, <1>11
    <3>3. log[i].id \in 1..Cardinality(Later(log[i].symbol))
      BY <1>10, <3>1, <3>2
    <3> QED BY <1>6, <1>7, <2>1, <3>1, <3>3
  <2>2. CASE i = L + 1
    <3>1. Cardinality(Later(e.symbol)) = Cardinality(TradesOf(e.symbol)) + 1
      BY <1>7, <1>11, <1>12, <2>2
    <3>2. Cardinality(TradesOf(e.symbol)) \in Nat
      BY <1>10
    <3>3. IsTrade(e)
      BY <1>7, <1>12, <2>2
    <3> QED BY <1>3, <1>4, <1>7, <2>2, <3>1, <3>2, <3>3 DEF IsTrade
  <2> QED BY <1>7, <2>1, <2>2
<1>13. ASSUME NEW i \in DOMAIN log', NEW j \in DOMAIN log', i < j,
              IsTrade(log'[i]), IsTrade(log'[j]), log'[i].symbol = log'[j].symbol
       PROVE  log'[i].id < log'[j].id
  <2>1. i \in 1..L
    BY <1>6, <1>7, <1>13
  <2>2. CASE j \in 1..L
    BY <1>6, <1>7, <1>13, <2>1, <2>2 DEF LogNumbered
  <2>3. CASE j = L + 1
    <3>1. log[i].id \in 1..Cardinality(TradesOf(log[i].symbol)) /\ log'[i] = log[i]
      BY <1>6, <1>7, <1>13, <2>1 DEF LogNumbered
    <3>2. log'[j].id = 1 + Cardinality(TradesOf(log[i].symbol)) /\ Cardinality(TradesOf(log[i].symbol)) \in Nat
      BY <1>10, <1>12, <1>13, <2>3, <3>1
    <3> QED BY <3>1, <3>2
  <2> QED BY <1>7, <2>2, <2>3
<1>14. stored' \subseteq DOMAIN log'
  BY <1>5, <1>6, <1>7
<1>15. TradeRows \subseteq TradeRows'
  BY <1>5, <1>6, <1>7 DEF TradeRows, Rows
<1> QED BY <1>8, <1>12, <1>13, <1>14, <1>15 DEF LogNumbered, TradesOf, Later

(* Collecting adds rows and takes none away. *)
LEMMA CollectLog ==
  ASSUME LogNumbered, Collect
  PROVE  LogNumbered' /\ TradeRows \subseteq TradeRows'
<1>1. log' = log /\ stored \subseteq stored' /\ stored' \subseteq DOMAIN log
  BY DEF Collect, LogNumbered
<1>2. \A x : TradesOf(x)' = TradesOf(x)
  BY <1>1 DEF TradesOf
<1>3. LogNumbered'
  BY <1>1, <1>2 DEF LogNumbered
<1>4. TradeRows \subseteq TradeRows'
  BY <1>1 DEF TradeRows, Rows
<1> QED BY <1>3, <1>4

(* Where the log and the store stand still, so do the rows. *)
LEMMA LogUntouched ==
  ASSUME LogNumbered, UNCHANGED <<log, stored>>
  PROVE  LogNumbered' /\ TradeRows' = TradeRows
<1>1. \A x : TradesOf(x)' = TradesOf(x)
  BY DEF TradesOf
<1>2. LogNumbered'
  BY <1>1 DEF LogNumbered
<1>3. TradeRows' = TradeRows
  BY DEF TradeRows, Rows
<1> QED BY <1>2, <1>3

(* Every step keeps the numbering, and no step loses a stored trade. *)
LEMMA LogStep ==
  ASSUME TypeOK, LogNumbered, [Next]_vars
  PROVE  LogNumbered' /\ TradeRows \subseteq TradeRows'
<1>1. CASE Happen
  BY <1>1, HappenLog DEF TypeOK
<1>2. CASE Collect
  BY <1>2, CollectLog
<1>3. CASE UNCHANGED <<log, stored>>
  BY <1>3, LogUntouched
<1> QED
  BY <1>1, <1>2, <1>3 DEF Next, vars, account, Tick, ReadClock, LoadRaw, LoadTrades, LoadFlows, Performance,
     AskTrades, ReadPage, Prove, Export, ChangeBundle, VerifyBundle

(***************************************************************************)
(* The command.                                                            *)
(***************************************************************************)
(* Rows that arrive while a log is read take nothing from what was handed out. *)
LEMMA PagesKept ==
  ASSUME Pages, cmd' = cmd, TradeRows \subseteq TradeRows'
  PROVE  Pages'
<1>1. Asked' = Asked
  BY DEF Asked
<1>2. cmd.had \subseteq TradeRows' /\ cmd.seen \in Seq(TradeRows')
  BY DEF Pages
<1> QED BY <1>1, <1>2 DEF Pages

(* A first page is asked for with nothing handed out. *)
LEMMA AskTradesPages ==
  ASSUME AskTrades
  PROVE  Pages' /\ reader = "trades"
<1>1. PICK q \in Queries : cmd' = [pc |-> "page", query |-> q, seen |-> << >>, had |-> TradeRows]
  BY DEF AskTrades
<1>2. q.after = NoCursor /\ q = Resumed(q, NoCursor)
  BY TrackRecordAssumption DEF Resumed
<1>3. TradeRows' = TradeRows
  BY DEF AskTrades, account, TradeRows, Rows
<1>4. /\ DOMAIN cmd' = {"pc", "query", "seen", "had"}
      /\ cmd'.pc = "page" /\ cmd'.query = q /\ cmd'.seen = << >> /\ cmd'.had = TradeRows
  BY <1>1
<1>5. Asked' = q
  BY <1>2, <1>4 DEF Asked
<1>6. /\ cmd'.had \subseteq TradeRows' /\ cmd'.seen \in Seq(TradeRows')
      /\ \A i, j \in DOMAIN cmd'.seen : i < j => Before(cmd'.seen[i], cmd'.seen[j])
  BY <1>3, <1>4
<1> QED BY <1>2, <1>4, <1>5, <1>6 DEF Pages, AskTrades

(* What a page adds to a reading under way. *)
LEMMA ReadPageWrites ==
  ASSUME TypeOK, ReadPage
  PROVE  LET p == Page(TradeRows, cmd.query) IN
         /\ Pages /\ reader = "trades"
         /\ DOMAIN cmd' = {"pc", "query", "seen", "had"} /\ cmd'.had = cmd.had
         /\ cmd'.pc = (IF p.next = NoCursor THEN "done" ELSE "page")
         /\ cmd'.seen = cmd.seen \o p.trades
         /\ cmd'.query = Resumed(cmd.query, p.next)
<1>1. cmd.pc = "page"
  BY DEF ReadPage
<1>2. Pages /\ reader = "trades"
  BY <1>1 DEF TypeOK, Waiting, Computes
<1>3. DOMAIN cmd = {"pc", "query", "seen", "had"}
  BY <1>2 DEF Pages
<1> QED BY <1>2, <1>3 DEF ReadPage, Resumed

(* The query of a reading is the one that was asked, apart from its cursor. *)
LEMMA AskedQuery ==
  ASSUME NEW q \in Queries, NEW c, NEW r, r = Resumed(q, c)
  PROVE  /\ Resumed(r, NoCursor) = q /\ r.after = c
         /\ \A d : Resumed(r, d) = Resumed(q, d)
         /\ r.limit \in Nat /\ r.limit >= 1
         /\ \A t : Matches(t, r) <=> Matches(t, q) /\ (c # NoCursor => Before(c, t))
<1>1. /\ q \in [symbol : {"any"} \cup DOMAIN SymbolOrder, from : Int, until : Int,
               after : {NoCursor}, limit : Nat]
      /\ q.limit >= 1
  BY TrackRecordAssumption DEF Acceptable
<1>2. /\ r.symbol = q.symbol /\ r.from = q.from /\ r.until = q.until /\ r.limit = q.limit
      /\ r.after = c /\ q.after = NoCursor
  BY <1>1 DEF Resumed
<1>3. Resumed(r, NoCursor) = q /\ \A d : Resumed(r, d) = Resumed(q, d)
  BY <1>1 DEF Resumed
<1>4. \A t : Matches(t, r) <=> Matches(t, q) /\ (c # NoCursor => Before(c, t))
  BY <1>2 DEF Matches
<1> QED BY <1>1, <1>2, <1>3, <1>4

(* Two sorted lists of trades, the second after the first, make one sorted list. *)
LEMMA JoinedOrder ==
  ASSUME NEW R, NEW s \in Seq(R), NEW t \in Seq(R),
         \A i, j \in DOMAIN s : i < j => Before(s[i], s[j]),
         \A i, j \in DOMAIN t : i < j => Before(t[i], t[j]),
         \A i \in DOMAIN s, j \in DOMAIN t : Before(s[i], t[j])
  PROVE  /\ s \o t \in Seq(R) /\ Range(s \o t) = Range(s) \cup Range(t)
         /\ t # << >> => s \o t # << >> /\ Last(s \o t) = Last(t)
         /\ \A i, j \in DOMAIN (s \o t) : i < j => Before((s \o t)[i], (s \o t)[j])
<1> DEFINE a == Len(s)
           b == Len(t)
           u == s \o t
<1>1. a \in Nat /\ b \in Nat /\ DOMAIN s = 1..a /\ DOMAIN t = 1..b
  OBVIOUS
<1>2. u \in Seq(R) /\ Len(u) = a + b /\ DOMAIN u = 1..(a + b)
  OBVIOUS
<1>3. \A i \in 1..a : u[i] = s[i]
  BY <1>1
<1>4. \A i \in (a + 1)..(a + b) : u[i] = t[i - a]
  BY <1>1
<1> HIDE DEF a, b, u
<1>5. \A i \in 1..(a + b) : i \in 1..a \/ (i \in (a + 1)..(a + b) /\ i - a \in 1..b)
  BY <1>1
<1>6. \A i \in 1..b : a + i \in (a + 1)..(a + b) /\ (a + i) - a = i /\ a + i \in 1..(a + b)
  BY <1>1
<1>7. \A i \in 1..a : i \in 1..(a + b)
  BY <1>1
<1>8. Range(u) = Range(s) \cup Range(t)
  <2>1. ASSUME NEW x \in Range(u) PROVE x \in Range(s) \cup Range(t)
    BY <1>1, <1>2, <1>3, <1>4, <1>5, <2>1 DEF Range
  <2>2. ASSUME NEW x \in Range(s) PROVE x \in Range(u)
    <3>1. PICK i \in 1..a : x = s[i]
      BY <1>1 DEF Range
    <3> QED BY <1>2, <1>3, <1>7, <3>1 DEF Range
  <2>3. ASSUME NEW x \in Range(t) PROVE x \in Range(u)
    <3>1. PICK i \in 1..b : x = t[i]
      BY <1>1 DEF Range
    <3>2. a + i \in DOMAIN u /\ u[a + i] = x
      BY <1>2, <1>4, <1>6, <3>1
    <3> QED BY <3>2 DEF Range
  <2> QED BY <2>1, <2>2, <2>3
<1>9. t # << >> => u # << >> /\ Last(u) = Last(t)
  <2> SUFFICES ASSUME t # << >> PROVE u # << >> /\ Last(u) = Last(t)
    OBVIOUS
  <2>1. b \in 1..b
    BY <1>1 DEF b
  <2>2. u[a + b] = t[b]
    BY <1>4, <1>6, <2>1
  <2>3. Last(u) = u[a + b] /\ Last(t) = t[b]
    BY <1>2 DEF Last, b
  <2>4. u # << >>
    BY <1>1, <1>2, <2>1
  <2> QED BY <2>2, <2>3, <2>4
<1>10. ASSUME NEW i \in 1..(a + b), NEW j \in 1..(a + b), i < j PROVE Before(u[i], u[j])
  <2>1. CASE i \in 1..a /\ j \in 1..a
    BY <1>1, <1>3, <1>10, <2>1
  <2>2. CASE i \in 1..a /\ j \in (a + 1)..(a + b) /\ j - a \in 1..b
    BY <1>1, <1>3, <1>4, <2>2
  <2>3. CASE /\ i \in (a + 1)..(a + b) /\ i - a \in 1..b
             /\ j \in (a + 1)..(a + b) /\ j - a \in 1..b
    <3>1. i - a < j - a
      BY <1>1, <1>10, <2>3
    <3>2. u[i] = t[i - a] /\ u[j] = t[j - a]
      BY <1>4, <2>3
    <3> QED BY <1>1, <2>3, <3>1, <3>2
  <2>4. ~(i \notin 1..a /\ j \in 1..a)
    BY <1>1, <1>10
  <2> QED BY <1>5, <2>1, <2>2, <2>3, <2>4
<1> QED BY <1>2, <1>8, <1>9, <1>10 DEF u

(* A page continues where the last one ended: order is kept and nothing skipped. *)
LEMMA ReadPagePages ==
  ASSUME TypeOK, LogNumbered, ReadPage
  PROVE  Pages'
<1> DEFINE R == TradeRows
           c == cmd.query.after
           p == Page(R, cmd.query)
<1>1. /\ Pages
      /\ DOMAIN cmd' = {"pc", "query", "seen", "had"} /\ cmd'.had = cmd.had
      /\ cmd'.pc = (IF p.next = NoCursor THEN "done" ELSE "page")
      /\ cmd'.seen = cmd.seen \o p.trades
      /\ cmd'.query = Resumed(cmd.query, p.next)
  BY ReadPageWrites
<1>2. TradeRows' = R /\ cmd.pc = "page"
  BY DEF ReadPage, account, TradeRows, Rows
<1>3. Orderable(R)
  BY RowsOrderable
<1>4. PICK q \in Queries : cmd.query = Resumed(q, c)
  BY <1>1 DEF Pages
<1>5. /\ Resumed(cmd.query, NoCursor) = q
      /\ \A d : Resumed(cmd.query, d) = Resumed(q, d)
      /\ cmd.query.limit \in Nat /\ cmd.query.limit >= 1
      /\ \A t : Matches(t, cmd.query) <=> Matches(t, q) /\ (c # NoCursor => Before(c, t))
  <2> HIDE DEF c
  <2> QED BY <1>4, AskedQuery
<1>6. /\ p.trades \in Seq({t \in R : Matches(t, cmd.query)})
      /\ \A i, j \in DOMAIN p.trades : i < j => Before(p.trades[i], p.trades[j])
      /\ p.next # NoCursor => p.trades # << >> /\ p.next = CursorOf(Last(p.trades))
      /\ \A t \in R : Matches(t, cmd.query) =>
            t \in Range(p.trades) \/ (p.next # NoCursor /\ Before(p.next, t))
  BY <1>3, <1>5, PageOf
<1>7. /\ cmd.seen \in Seq(R) /\ cmd.had \subseteq R
      /\ \A i, j \in DOMAIN cmd.seen : i < j => Before(cmd.seen[i], cmd.seen[j])
      /\ (c = NoCursor /\ cmd.seen = << >>) \/ (cmd.seen # << >> /\ c = CursorOf(Last(cmd.seen)))
      /\ \A t \in cmd.had : Matches(t, q) => t \in Range(cmd.seen) \/ Matches(t, cmd.query)
  BY <1>1, <1>2, <1>5 DEF Pages, Asked
<1> HIDE DEF R, p, c
<1>8. cmd'.query = Resumed(q, p.next)
  BY <1>1, <1>5
<1>9. /\ Resumed(cmd'.query, NoCursor) = q /\ cmd'.query.after = p.next
      /\ \A t : Matches(t, cmd'.query) <=> Matches(t, q) /\ (p.next # NoCursor => Before(p.next, t))
  BY <1>8, AskedQuery
<1>10. /\ p.trades \in Seq(R)
       /\ \A j \in DOMAIN p.trades : p.trades[j] \in R /\ Matches(p.trades[j], cmd.query)
  BY <1>6
<1>11. ASSUME NEW i \in DOMAIN cmd.seen, NEW j \in DOMAIN p.trades
       PROVE  Before(cmd.seen[i], p.trades[j])
  <2> DEFINE a == Len(cmd.seen)
  <2>1. a \in DOMAIN cmd.seen /\ i \in Int /\ a \in Int /\ i <= a /\ cmd.seen # << >>
    BY <1>7
  <2>2. c = CursorOf(cmd.seen[a])
    BY <1>7, <2>1 DEF Last
  <2> HIDE DEF a
  <2>3. Keyed(cmd.seen[a]) /\ Keyed(cmd.seen[i]) /\ Keyed(p.trades[j])
    <3>1. cmd.seen[a] \in R /\ cmd.seen[i] \in R /\ p.trades[j] \in R
      BY <1>7, <1>10, <2>1
    <3> QED BY <1>3, <3>1 DEF Orderable
  <2>4. c # NoCursor /\ Before(cmd.seen[a], p.trades[j])
    BY <1>5, <1>10, <2>2, <2>3, CursorPlaced
  <2>5. CASE i = a
    BY <2>4, <2>5
  <2>6. CASE i < a
    <3>1. Before(cmd.seen[i], cmd.seen[a])
      BY <1>7, <2>1, <2>6
    <3> QED BY <2>3, <2>4, <3>1, BeforeTransitive
  <2> QED BY <2>1, <2>5, <2>6
<1>12. /\ cmd'.seen \in Seq(R) /\ Range(cmd'.seen) = Range(cmd.seen) \cup Range(p.trades)
       /\ p.trades # << >> => cmd'.seen # << >> /\ Last(cmd'.seen) = Last(p.trades)
       /\ \A i, j \in DOMAIN cmd'.seen : i < j => Before(cmd'.seen[i], cmd'.seen[j])
  <2> DEFINE s == cmd.seen
             t == p.trades
  <2>1. /\ s \in Seq(R) /\ t \in Seq(R)
        /\ \A i, j \in DOMAIN s : i < j => Before(s[i], s[j])
        /\ \A i, j \in DOMAIN t : i < j => Before(t[i], t[j])
        /\ \A i \in DOMAIN s, j \in DOMAIN t : Before(s[i], t[j])
    BY <1>6, <1>7, <1>10, <1>11
  <2>2. cmd'.seen = s \o t
    BY <1>1
  <2> HIDE DEF s, t
  <2>3. /\ s \o t \in Seq(R) /\ Range(s \o t) = Range(s) \cup Range(t)
        /\ t # << >> => s \o t # << >> /\ Last(s \o t) = Last(t)
        /\ \A i, j \in DOMAIN (s \o t) : i < j => Before((s \o t)[i], (s \o t)[j])
    BY <2>1, JoinedOrder
  <2> QED BY <2>2, <2>3 DEF s, t
<1>13. ASSUME NEW t \in cmd.had, Matches(t, q)
       PROVE  t \in Range(cmd'.seen) \/ (cmd'.pc = "page" /\ Matches(t, cmd'.query))
  BY <1>1, <1>6, <1>7, <1>9, <1>12, <1>13
<1>14. cmd'.pc = "page" => cmd'.seen # << >> /\ cmd'.query.after = CursorOf(Last(cmd'.seen))
  BY <1>1, <1>6, <1>9, <1>12
<1>15. cmd'.pc \in {"page", "done"} /\ \E r \in Queries : cmd'.query = Resumed(r, cmd'.query.after)
  BY <1>1, <1>8, <1>9
<1>16. cmd'.had \subseteq TradeRows' /\ cmd'.seen \in Seq(TradeRows')
  BY <1>1, <1>2, <1>7, <1>12
<1> QED
  BY <1>1, <1>9, <1>12, <1>13, <1>14, <1>15, <1>16 DEF Pages, Asked

(* The command stays of its kind, and a reading of the log keeps its order. *)
LEMMA TypeStep ==
  ASSUME TypeOK, LogNumbered, [Next]_vars
  PROVE  TypeOK'
<1>1. TradeRows \subseteq TradeRows'
  BY LogStep
<1>2. reader' = reader /\ reader \in Readers
  BY DEF TypeOK, Next, vars, account, Tick, Happen, Collect, ReadClock, LoadRaw, LoadTrades, LoadFlows,
     Performance, AskTrades, ReadPage, Prove, Export, ChangeBundle, VerifyBundle
<1>3. now' \in Nat
  <2>1. CASE Tick
    BY <2>1 DEF Tick, TypeOK
  <2>2. CASE now' = now
    BY <2>2 DEF TypeOK
  <2> QED BY <2>1, <2>2 DEF Next, vars, account, Happen, Collect, ReadClock, LoadRaw, LoadTrades, LoadFlows,
     Performance, AskTrades, ReadPage, Prove, Export, ChangeBundle, VerifyBundle
<1>4. CASE cmd' = cmd
  <2>1. Computes => Computes'
    BY <1>4 DEF Computes
  <2>2. Pages => Pages'
    BY <1>1, <1>4, PagesKept
  <2> QED BY <1>2, <1>3, <1>4, <2>1, <2>2 DEF TypeOK, Waiting
<1>5. CASE ReadClock
  <2>1. Computes' /\ reader # "trades"
    BY <1>5 DEF ReadClock, Computes, TypeOK
  <2> QED BY <1>2, <1>3, <2>1 DEF TypeOK
<1>6. CASE LoadRaw \/ LoadTrades \/ LoadFlows \/ Performance \/ Prove
  <2>1. cmd.pc \in {"rawTrades", "rawFlows", "trades", "flows", "balances"}
    BY <1>6 DEF LoadRaw, LoadTrades, LoadFlows, Performance, Prove
  <2>2. Computes /\ reader # "trades"
    BY <2>1 DEF TypeOK, Waiting, Pages
  <2>3. Computes'
    <3>1. /\ DOMAIN cmd' = DOMAIN cmd /\ cmd'.now = cmd.now
          /\ cmd'.pc \in {"rawFlows", "trades", "flows", "balances", "done"}
      BY <1>6, <2>2 DEF LoadRaw, LoadTrades, LoadFlows, Performance, Prove, Computes
    <3> QED BY <2>2, <3>1 DEF Computes
  <2> QED BY <1>2, <1>3, <2>2, <2>3 DEF TypeOK
<1>7. CASE AskTrades
  BY <1>2, <1>3, <1>7, AskTradesPages DEF TypeOK
<1>8. CASE ReadPage
  BY <1>2, <1>3, <1>8, ReadPagePages, ReadPageWrites DEF TypeOK
<1> QED
  BY <1>4, <1>5, <1>6, <1>7, <1>8 DEF Next, vars, Tick, Happen, Collect, Export, ChangeBundle, VerifyBundle

(***************************************************************************)
(* The proof.                                                              *)
(***************************************************************************)
(* A grid is a list of instants that is not empty. *)
LEMMA GridInstants ==
  ASSUME NEW start \in Int, NEW at \in Int
  PROVE  Last(Grid(start, Day, at)) \in Int
<1> DEFINE gone == start \div Day
           n == (at - 1) \div Day - gone
           inner == [i \in 1..n |-> (gone + i) * Day]
           g == Grid(start, Day, at)
<1>1. Day \in Nat \ {0}
  BY FiguresAssumption
<1>2. gone \in Int /\ n \in Int
  BY <1>1
<1> HIDE DEF gone, n
<1>3. inner \in Seq(Int)
  <2>1. PICK m \in Nat : 1..n = 1..m
    <3>1. CASE n \in Nat
      BY <3>1
    <3>2. CASE n \notin Nat
      <4>1. 1..n = 1..0
        BY <1>2, <3>2
      <4> QED BY <4>1
    <3> QED BY <3>1, <3>2
  <2>2. inner \in [1..m -> Int]
    BY <1>1, <1>2, <2>1
  <2> HIDE DEF inner
  <2> QED BY <2>2
<1>4. g = <<start>> \o (IF at > start THEN inner \o <<at>> ELSE << >>)
  BY DEF Grid, gone, n
<1> HIDE DEF inner, g
<1>5. g \in Seq(Int) /\ Len(g) >= 1
  <2>1. CASE at > start
    <3>1. inner \o <<at>> \in Seq(Int)
      BY <1>3
    <3>2. g = <<start>> \o (inner \o <<at>>)
      BY <1>4, <2>1
    <3> QED BY <3>1, <3>2
  <2>2. CASE ~(at > start)
    <3>1. g = <<start>> \o << >>
      BY <1>4, <2>2
    <3> QED BY <3>1
  <2> QED BY <2>1, <2>2
<1>6. Last(g) \in Int
  BY <1>5 DEF Last
<1> QED BY <1>6 DEF g

(* The journal is about the envelope the collector signed. *)
LEMMA JournalOfEnvelope ==
  ASSUME NEW input, GuestRun(input) # Rejected
  PROVE  GuestRun(input).digest = input.envelope /\ GuestRun(input).end = input.envelope.end
BY DEF GuestRun

(* A history that is not refused is taken at the points of the grid. *)
LEMMA HistoryGrid ==
  ASSUME NEW read, ComputeHistory(read) # Refused
  PROVE  ComputeHistory(read).grid = Grid(Prepared(read).since, Day, Prepared(read).now)
<1> DEFINE p == Prepared(read)
           grid == Grid(p.since, Day, p.now)
           twr == ComputeTwr(p, grid, External(p))
           nav == [i \in DOMAIN grid |-> NavAt(p, grid[i])]
<1>1. ComputeHistory(read) = IF Unpriced(p) \/ Ambiguous(p) \/ twr.failed THEN Refused
                             ELSE [ok |-> TRUE, grid |-> grid, nav |-> nav,
                                   index |-> Chained(twr.returns, Len(grid)), pnl |-> ComputePnl(p)]
  BY DEF ComputeHistory
<1> HIDE DEF p, grid, twr, nav
<1>2. ComputeHistory(read).grid = grid
  BY <1>1
<1> QED BY <1>2 DEF p, grid

(* A history that is not refused ends at an instant. *)
LEMMA HistoryEnds ==
  ASSUME cmd.now \in Nat, RunHistory.ok
  PROVE  Last(RunHistory.grid) \in Int
<1> DEFINE p == Prepared(ReadSoFar)
           g == Grid(p.since, Day, p.now)
<1>1. p.since = 1 /\ p.now = cmd.now
  BY DEF Prepared, ReadSoFar, Since
<1> HIDE DEF p
<1>2. RunHistory # Refused
  BY DEF Refused
<1>3. RunHistory.grid = g
  BY <1>2, HistoryGrid DEF RunHistory, p
<1>4. Last(g) \in Int
  <2>1. p.since \in Int /\ p.now \in Int
    BY <1>1
  <2> QED BY <2>1, GridInstants
<1> QED BY <1>3, <1>4

(* What is proven is about the figures that were shown. *)
LEMMA ProvenJournal ==
  ASSUME cmd.now \in Nat, NEW key, ProvePerformance(key, RunHistory) # None
  PROVE  LET made == ProvePerformance(key, RunHistory) IN
         made.journal.digest.normalized = made.index /\ made.journal.end \in Int
<1> DEFINE h == RunHistory
           env == Envelope(Account, cmd.raw, h, cmd.now)
           input == GuestInput(key, env, h)
           made == ProvePerformance(key, h)
<1>1. /\ h.ok /\ GuestRun(input) # Rejected
      /\ made = [journal |-> GuestRun(input), index |-> h.index]
  BY DEF ProvePerformance
<1>2. input.envelope = env
  BY DEF GuestInput
<1>3. env.normalized = h.index /\ env.end = Last(h.grid)
  BY DEF Envelope
<1>4. Last(h.grid) \in Int
  BY <1>1, HistoryEnds
<1> HIDE DEF input, env, h, made
<1>5. GuestRun(input).digest = env /\ GuestRun(input).end = env.end
  BY <1>1, <1>2, JournalOfEnvelope
<1>6. made.journal = GuestRun(input) /\ made.index = h.index
  BY <1>1
<1> QED BY <1>3, <1>4, <1>5, <1>6 DEF made, h

(***************************************************************************)
(* The verifier.                                                           *)
(***************************************************************************)
(* Max of a set of naturals that has a bound. *)
LEMMA MaxOfBounded ==
  ASSUME NEW n \in Nat, NEW S, S \subseteq 0..n, S # {}
  PROVE  Max(S) \in S /\ \A y \in S : Max(S) >= y
<1> DEFINE Below == OpToRel(<, Nat)
           T == {n - x : x \in S}
<1>1. IsWellFoundedOn(Below, Nat)
  BY NatLessThanWellFounded
<1>2. \A x, y \in Nat : <<x, y>> \in Below <=> x < y
  BY DEF OpToRel
<1> HIDE DEF Below
<1>3. T \subseteq Nat /\ T # {}
  <2>1. PICK x \in S : TRUE
    OBVIOUS
  <2>2. n - x \in T
    BY <2>1
  <2>3. \A y \in 0..n : n - y \in Nat
    OBVIOUS
  <2> QED BY <2>2, <2>3
<1>4. PICK t \in T : \A u \in T : ~(<<u, t>> \in Below)
  <2> HIDE DEF T
  <2> QED BY <1>1, <1>3, WFMin
<1>5. PICK x \in S : t = n - x
  OBVIOUS
<1>6. \A y \in S : x >= y
  <2> SUFFICES ASSUME NEW y \in S PROVE x >= y
    OBVIOUS
  <2>1. n - y \in T /\ n - y \in Nat /\ t \in Nat /\ x \in 0..n /\ y \in 0..n
    BY <1>3
  <2> HIDE DEF T
  <2>2. ~(n - y < t)
    BY <1>2, <1>4, <2>1
  <2> QED BY <1>5, <2>1, <2>2
<1> QED BY <1>6 DEF Max

(* Every interval whose deadline has passed is among the derived gaps. *)
LEMMA GapsDerived ==
  ASSUME NEW last \in Int, NEW at \in Int, NEW k \in Nat \ {0}, last + k * Interval + Grace <= at
  PROVE  Len(DeriveGaps(last, at)) >= k
<1> DEFINE S == {0} \cup {j \in 1..(at - last) : last + j * Interval + Grace <= at}
<1>1. Interval \in Nat \ {0} /\ Grace \in Nat
  BY VerificationAssumption
<1>2. k * Interval >= k /\ k * Interval \in Nat
  BY <1>1
<1>3. k \in 1..(at - last) /\ at - last \in Nat
  BY <1>1, <1>2
<1>4. k \in S /\ S \subseteq 0..(at - last)
  BY <1>3
<1> HIDE DEF S
<1>5. Max(S) \in S /\ Max(S) \in Nat /\ Max(S) >= k
  <2> DEFINE n == at - last
  <2>1. n \in Nat /\ S \subseteq 0..n /\ S # {}
    BY <1>3, <1>4
  <2> HIDE DEF n
  <2>2. Max(S) \in S /\ \A y \in S : Max(S) >= y
    BY <2>1, MaxOfBounded
  <2>3. \A x \in 0..n : x \in Nat
    BY <2>1
  <2> QED BY <1>4, <2>1, <2>2, <2>3
<1>6. DeriveGaps(last, at) = [j \in 1..Max(S) |-> <<last + (j - 1) * Interval, last + j * Interval>>]
  BY DEF DeriveGaps, S
<1>7. Len(DeriveGaps(last, at)) = Max(S)
  BY <1>5, <1>6
<1> QED BY <1>5, <1>7

(* A bundle without checkpoints misses at least the first interval. *)
LEMMA CoverageNeedsCheckpoints ==
  ASSUME NEW b, NEW at \in Nat, CoveragePasses(b, at)
  PROVE  /\ Carried(b, "checkpoints")
         /\ b.files["checkpoints"].gaps = DeriveGaps(b.files["checkpoints"].last, at)
<1>1. ASSUME ~Carried(b, "checkpoints") PROVE FALSE
  <2>1. << >> = DeriveGaps(Epoch, at)
    BY <1>1 DEF CoveragePasses
  <2>2. Epoch \in Int /\ Epoch + 1 * Interval + Grace <= at
    BY VerificationAssumption DEF Epoch
  <2>3. Len(DeriveGaps(Epoch, at)) >= 1
    BY <2>2, GapsDerived
  <2> QED BY <2>1, <2>3
<1> QED BY <1>1 DEF CoveragePasses

(* A trusted origin is a listed signer, not revoked, valid at the end of the period. *)
LEMMA TrustedOrigin ==
  ASSUME NEW journal, NEW list \in TrustLists, journal.end \in Int, AssessOrigin(journal, list) = "trusted"
  PROVE  /\ journal.signer \in DOMAIN list /\ ~list[journal.signer].revoked
         /\ list[journal.signer].from <= journal.end /\ journal.end <= list[journal.signer].until
<1> DEFINE c == list[journal.signer]
<1>1. /\ journal.signer \in DOMAIN list /\ ~c.revoked
      /\ ~(journal.end < c.from) /\ ~(journal.end > c.until)
  BY DEF AssessOrigin
<1>2. c.from \in Int /\ c.until \in Int
  BY <1>1, TrackRecordAssumption
<1> QED BY <1>1, <1>2

(* What a clean exit says of the bundle it was given for. *)
LEMMA CleanExit ==
  ASSUME NEW list, NEW at, Verify(bundle, list, Anchors, at).exit = 0
  PROVE  /\ CalculationPasses(bundle) /\ RegistryPasses(bundle, Anchors) /\ CoveragePasses(bundle, at)
         /\ AssessOrigin(bundle.files["proofs"].receipt.journal, list) = "trusted"
BY DEF Verify

(* A verdict is sound when it is given. *)
LEMMA VerifySound ==
  ASSUME TypeOK, ProvenHolds, BundleHolds, VerifyBundle
  PROVE  VerdictSound'
<1>1. PICK list \in TrustLists : verdict' = [result |-> Verify(bundle, list, Anchors, now), trust |-> list, at |-> now]
  BY DEF VerifyBundle
<1>2. bundle # None /\ bundle' = bundle /\ proven' = proven
  BY DEF VerifyBundle
<1>3. verdict'.result = Verify(bundle, list, Anchors, now) /\ verdict'.trust = list /\ verdict'.at = now
  BY <1>1
<1> SUFFICES ASSUME Verify(bundle, list, Anchors, now).exit = 0
             PROVE  LET shown == bundle.files["proofs"].journal
                        c == list[shown.signer]
                    IN /\ shown = proven.journal /\ shown.digest.normalized = proven.index
                       /\ shown.signer \in DOMAIN list
                       /\ ~c.revoked /\ c.from <= shown.end /\ shown.end <= c.until
                       /\ bundle.files["anchors"] \in Anchors
                       /\ \A k \in 1..now :
                             bundle.files["checkpoints"].last + k * Interval + Grace <= now =>
                                 Len(bundle.files["checkpoints"].gaps) >= k
  BY <1>2, <1>3 DEF VerdictSound
<1> DEFINE shown == bundle.files["proofs"].journal
           cp == bundle.files["checkpoints"]
<1>4. /\ CalculationPasses(bundle) /\ RegistryPasses(bundle, Anchors) /\ CoveragePasses(bundle, now)
      /\ AssessOrigin(bundle.files["proofs"].receipt.journal, list) = "trusted"
  BY CleanExit
<1>5. /\ "proofs" \in DOMAIN bundle.files
      /\ bundle.files["proofs"].receipt.sealed = shown /\ bundle.files["proofs"].receipt.journal = shown
  BY <1>4 DEF CalculationPasses, Carried
<1>6. shown = proven.journal /\ proven # None
  BY <1>2, <1>5 DEF BundleHolds
<1>7. shown.digest.normalized = proven.index /\ shown.end \in Int
  BY <1>6 DEF ProvenHolds
<1>8. /\ shown.signer \in DOMAIN list /\ ~list[shown.signer].revoked
      /\ list[shown.signer].from <= shown.end /\ shown.end <= list[shown.signer].until
  BY <1>4, <1>5, <1>7, TrustedOrigin
<1>9. bundle.files["anchors"] \in Anchors
  BY <1>4 DEF RegistryPasses
<1>10. now \in Nat
  BY DEF TypeOK
<1>11. Carried(bundle, "checkpoints") /\ cp.gaps = DeriveGaps(cp.last, now)
  BY <1>4, <1>10, CoverageNeedsCheckpoints
<1>12. cp.last \in Int
  BY <1>2, <1>11 DEF BundleHolds, Carried
<1>13. ASSUME NEW k \in 1..now, cp.last + k * Interval + Grace <= now
       PROVE  Len(cp.gaps) >= k
  <2>1. k \in Nat \ {0} /\ now \in Int
    BY <1>10
  <2>2. Len(DeriveGaps(cp.last, now)) >= k
    <3> HIDE DEF cp
    <3> QED BY <1>12, <1>13, <2>1, GapsDerived
  <2> QED BY <1>11, <2>2
<1> QED BY <1>6, <1>7, <1>8, <1>9, <1>13

(* A verdict stands: neither the bundle nor the proof it is about changes afterwards. *)
LEMMA VerdictStands ==
  ASSUME ProvenHolds, BundleHolds, verdict # None => bundle # None, VerdictSound,
         verdict' = verdict, [Next]_vars
  PROVE  VerdictSound' /\ (verdict # None => UNCHANGED <<bundle, proven>>)
<1>1. ASSUME verdict # None PROVE UNCHANGED <<bundle, proven>>
  <2>1. bundle # None /\ proven # None /\ cmd.pc = "done"
    BY <1>1 DEF BundleHolds, ProvenHolds
  <2>2. ~Prove /\ ~Export /\ ~ChangeBundle /\ ~VerifyBundle
    BY <1>1, <2>1 DEF Prove, Export, ChangeBundle, VerifyBundle
  <2> QED BY <2>2 DEF Next, vars, Tick, Happen, Collect, ReadClock, LoadRaw, LoadTrades, LoadFlows,
          Performance, AskTrades, ReadPage
<1>2. VerdictSound'
  BY <1>1 DEF VerdictSound
<1> QED BY <1>1, <1>2

(* The proof is made once, about the figures of its command. *)
LEMMA ProvenStep ==
  ASSUME TypeOK, ProvenHolds, [Next]_vars
  PROVE  ProvenHolds' /\ (proven # None => proven' = proven)
<1>1. CASE Prove
  <2>1. cmd.pc = "balances" /\ cmd'.pc = "done"
    <3>1. cmd.pc = "balances" /\ cmd' = [cmd EXCEPT !.pc = "done"]
      BY <1>1 DEF Prove
    <3>2. Computes
      BY <3>1 DEF TypeOK, Waiting, Pages
    <3> QED BY <3>1, <3>2 DEF Computes
  <2>2. proven = None
    BY <2>1 DEF ProvenHolds
  <2>3. cmd.now \in Nat
    BY <2>1 DEF TypeOK, Waiting, Pages, Computes
  <2>4. PICK key \in Keys : proven' = ProvePerformance(key, RunHistory)
    BY <1>1 DEF Prove
  <2>5. proven' # None => /\ proven'.journal.digest.normalized = proven'.index
                          /\ proven'.journal.end \in Int
    BY <2>3, <2>4, ProvenJournal
  <2> QED BY <2>1, <2>2, <2>5 DEF ProvenHolds
<1>2. CASE ~Prove
  <2>1. proven' = proven
    BY <1>2 DEF Next, vars, Tick, Happen, Collect, ReadClock, LoadRaw, LoadTrades, LoadFlows, Performance,
       AskTrades, ReadPage, Export, ChangeBundle, VerifyBundle
  <2>2. ASSUME cmd.pc = "done" PROVE cmd' = cmd
    <3>1. cmd # Waiting
      BY <2>2 DEF Waiting
    <3>2. ~ReadClock /\ ~AskTrades
      BY <3>1 DEF ReadClock, AskTrades
    <3>3. ~LoadRaw /\ ~LoadTrades /\ ~LoadFlows /\ ~Performance /\ ~ReadPage
      BY <2>2 DEF LoadRaw, LoadTrades, LoadFlows, Performance, ReadPage
    <3> QED
      BY <1>2, <3>2, <3>3 DEF Next, vars, Tick, Happen, Collect, Export, ChangeBundle, VerifyBundle
  <2> QED BY <2>1, <2>2 DEF ProvenHolds
<1> QED BY <1>1, <1>2

(* No change to a file of the bundle touches what the receipt seals. *)
LEMMA ChangedKeeps ==
  ASSUME NEW f, NEW content, NEW c \in Changed(f, content)
  PROVE  /\ (/\ f = "proofs" /\ DOMAIN content = {"receipt", "journal"}
             /\ DOMAIN content.receipt = {"image", "sealed", "journal"}) =>
                /\ DOMAIN c = {"receipt", "journal"}
                /\ DOMAIN c.receipt = {"image", "sealed", "journal"}
                /\ c.receipt.sealed = content.receipt.sealed
         /\ (f = "checkpoints" /\ DOMAIN content = {"last", "gaps"} /\ content.last \in Int) =>
                DOMAIN c = {"last", "gaps"} /\ c.last \in Int
<1>1. ASSUME f = "proofs", DOMAIN content = {"receipt", "journal"},
             DOMAIN content.receipt = {"image", "sealed", "journal"}
      PROVE  /\ DOMAIN c = {"receipt", "journal"}
             /\ DOMAIN c.receipt = {"image", "sealed", "journal"}
             /\ c.receipt.sealed = content.receipt.sealed
  <2>1. \/ c = [content EXCEPT !.journal.twr = @ + 1]
        \/ c = [content EXCEPT !.receipt.journal.twr = @ + 1, !.journal.twr = @ + 1]
        \/ c = [content EXCEPT !.receipt.image = "another"]
    BY <1>1 DEF Changed
  <2>2. CASE c = [content EXCEPT !.journal.twr = @ + 1]
    BY <1>1, <2>2
  <2>3. CASE c = [content EXCEPT !.receipt.journal.twr = @ + 1, !.journal.twr = @ + 1]
    BY <1>1, <2>3
  <2>4. CASE c = [content EXCEPT !.receipt.image = "another"]
    BY <1>1, <2>4
  <2> QED BY <2>1, <2>2, <2>3, <2>4
<1>2. ASSUME f = "checkpoints", DOMAIN content = {"last", "gaps"}, content.last \in Int
      PROVE  DOMAIN c = {"last", "gaps"} /\ c.last \in Int
  <2>1. c = [content EXCEPT !.gaps = << >>] \/ c = [content EXCEPT !.last = @ + 1]
    BY <1>2 DEF Changed
  <2> QED BY <1>2, <2>1
<1> QED BY <1>1, <1>2

(* However often a bundle is changed, its receipt seals what was proven. *)
LEMMA BundleStep ==
  ASSUME BundleHolds, ProvenHolds, TypeOK, [Next]_vars
  PROVE  BundleHolds'
<1>1. proven # None => proven' = proven
  BY ProvenStep
<1>2. CASE Export
  <2> DEFINE files == [accounts |-> [root |-> <<Account>>, members |-> <<Account>>],
                       proofs |-> [receipt |-> Receipt(proven.journal), journal |-> proven.journal],
                       anchors |-> "anchored",
                       checkpoints |-> [last |-> 0, gaps |-> DeriveGaps(0, now)]]
  <2>1. bundle = None /\ proven # None /\ bundle'.files = files
    BY <1>2 DEF Export
  <2>2. DOMAIN files = {"accounts", "proofs", "anchors", "checkpoints"}
    OBVIOUS
  <2>3. /\ DOMAIN files["proofs"] = {"receipt", "journal"}
        /\ DOMAIN files["proofs"].receipt = {"image", "sealed", "journal"}
        /\ files["proofs"].receipt.sealed = proven.journal
    BY DEF Receipt
  <2>4. DOMAIN files["checkpoints"] = {"last", "gaps"} /\ files["checkpoints"].last \in Int
    OBVIOUS
  <2> HIDE DEF files
  <2> QED BY <1>1, <2>1, <2>2, <2>3, <2>4 DEF BundleHolds
<1>3. CASE ChangeBundle
  <2> DEFINE old == bundle.files
  <2>1. bundle # None /\ proven # None /\ proven' = proven
    BY <1>1, <1>3 DEF ChangeBundle, BundleHolds
  <2>2. PICK f \in DOMAIN old : \E files :
           /\ files \in {[g \in DOMAIN old \ {f} |-> old[g]]} \cup {[old EXCEPT ![f] = c] : c \in Changed(f, old[f])}
           /\ \E m : bundle' = [files |-> files, manifest |-> m]
    BY <1>3 DEF ChangeBundle
  <2>3. PICK files :
           /\ files \in {[g \in DOMAIN old \ {f} |-> old[g]]} \cup {[old EXCEPT ![f] = c] : c \in Changed(f, old[f])}
           /\ \E m : bundle' = [files |-> files, manifest |-> m]
    BY <2>2
  <2>4. bundle'.files = files
    BY <2>3
  <2>5. DOMAIN old \subseteq {"accounts", "proofs", "anchors", "checkpoints"}
    BY <2>1 DEF BundleHolds
  <2> DEFINE Sealed(x) == /\ DOMAIN x = {"receipt", "journal"}
                          /\ DOMAIN x.receipt = {"image", "sealed", "journal"}
                          /\ x.receipt.sealed = proven.journal
             Counted(x) == DOMAIN x = {"last", "gaps"} /\ x.last \in Int
  <2>6. /\ "proofs" \in DOMAIN old => Sealed(old["proofs"])
        /\ "checkpoints" \in DOMAIN old => Counted(old["checkpoints"])
    BY <2>1 DEF BundleHolds
  <2>7. ASSUME NEW c \in Changed(f, old[f])
        PROVE  /\ f = "proofs" => Sealed(c)
               /\ f = "checkpoints" => Counted(c)
    BY <2>6, <2>7, ChangedKeeps
  <2>8. /\ "proofs" \in DOMAIN files => Sealed(files["proofs"])
        /\ "checkpoints" \in DOMAIN files => Counted(files["checkpoints"])
        /\ DOMAIN files \subseteq DOMAIN old
    <3> HIDE DEF old, Sealed, Counted
    <3>1. CASE files = [g \in DOMAIN old \ {f} |-> old[g]]
      BY <2>6, <3>1
    <3>2. ASSUME NEW c \in Changed(f, old[f]), files = [old EXCEPT ![f] = c]
          PROVE  /\ "proofs" \in DOMAIN files => Sealed(files["proofs"])
                 /\ "checkpoints" \in DOMAIN files => Counted(files["checkpoints"])
                 /\ DOMAIN files \subseteq DOMAIN old
      <4>1. DOMAIN files = DOMAIN old /\ \A g \in DOMAIN old : files[g] = IF g = f THEN c ELSE old[g]
        BY <3>2
      <4> QED BY <2>6, <2>7, <4>1
    <3> QED BY <2>3, <3>1, <3>2
  <2> QED BY <2>1, <2>4, <2>5, <2>8 DEF BundleHolds
<1>4. CASE bundle' = bundle
  BY <1>1, <1>4 DEF BundleHolds
<1> QED
  BY <1>2, <1>3, <1>4 DEF Next, vars, Tick, Happen, Collect, ReadClock, LoadRaw, LoadTrades, LoadFlows,
     Performance, AskTrades, ReadPage, Prove, VerifyBundle

-----------------------------------------------------------------------------
(* The record starts empty, with nothing asked, proven or judged. *)
LEMMA InitIInv == Init => IInv
<1> SUFFICES ASSUME Init PROVE IInv
  OBVIOUS
<1>1. /\ reader \in Readers /\ now = 1 /\ log = << >> /\ stored = {} /\ cmd = Waiting
      /\ proven = None /\ bundle = None /\ verdict = None
  BY DEF Init, Since
<1>2. LogNumbered
  BY <1>1 DEF LogNumbered, Range
<1> QED BY <1>1, <1>2 DEF IInv, TypeOK, ProvenHolds, BundleHolds, VerdictSound

(* Every step keeps the inductive invariant. *)
LEMMA IInvStep == IInv /\ [Next]_vars => IInv'
<1> SUFFICES ASSUME IInv, [Next]_vars PROVE IInv'
  OBVIOUS
<1>1. TypeOK /\ LogNumbered /\ ProvenHolds /\ BundleHolds /\ VerdictSound /\ (verdict # None => bundle # None)
  BY DEF IInv
<1>2. TypeOK' /\ LogNumbered' /\ ProvenHolds' /\ BundleHolds'
  BY <1>1, TypeStep, LogStep, ProvenStep, BundleStep
<1>3. VerdictSound' /\ (verdict' # None => bundle' # None)
  <2>1. CASE VerifyBundle
    BY <1>1, <2>1, VerifySound DEF VerifyBundle
  <2>2. CASE verdict' = verdict
    BY <1>1, <2>2, VerdictStands
  <2> QED BY <2>1, <2>2 DEF Next, vars, Tick, Happen, Collect, ReadClock, LoadRaw, LoadTrades, LoadFlows,
          Performance, AskTrades, ReadPage, Prove, Export, ChangeBundle
<1> QED BY <1>2, <1>3 DEF IInv

(* The record, the command that reads it and the bundle stay within the inductive invariant. *)
THEOREM Invariance == Spec => []IInv
BY InitIInv, IInvStep, PTL DEF Spec

(***************************************************************************)
(* A client that reads `trades` page by page while trades are still being  *)
(* stored gets every trade that was there when it began, none twice, in    *)
(* the order of the log.                                                   *)
(***************************************************************************)
THEOREM PagesSafe == Spec => []PagesCoverLog
<1>1. ASSUME IInv PROVE PagesCoverLog
  <2> SUFFICES ASSUME reader = "trades", cmd.pc \in {"page", "done"}, Pages
               PROVE  /\ \A i, j \in DOMAIN cmd.seen : i < j => Before(cmd.seen[i], cmd.seen[j])
                      /\ cmd.pc = "done" =>
                            \A t \in cmd.had : Matches(t, [cmd.query EXCEPT !.after = NoCursor]) => t \in Range(cmd.seen)
    BY <1>1 DEF PagesCoverLog, IInv, TypeOK, Waiting
  <2> QED BY DEF Pages, Asked, Resumed
<1> QED BY <1>1, Invariance, PTL

(***************************************************************************)
(* linvesther-verify exits 0 only over figures the guest committed to, an  *)
(* origin its operator trusts for the period, an anchor it obtained itself *)
(* and a list of gaps that leaves none out, however the bundle was changed *)
(* on its way and however late it is judged.                               *)
(***************************************************************************)
THEOREM VerdictSafe == Spec => []VerdictSound
<1>1. IInv => VerdictSound
  BY DEF IInv
<1> QED BY <1>1, Invariance, PTL
=============================================================================
