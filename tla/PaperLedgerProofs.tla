--------------------------- MODULE PaperLedgerProofs ---------------------------
(***************************************************************************)
(* Proofs about PaperLedger, for any number of runs, symbols, signals and  *)
(* days, and for either database.                                          *)
(***************************************************************************)
EXTENDS PaperLedger, FiniteSetTheorems, TLAPS

USE BackendAssumption, MoneyAssumption, LimitAssumption, NullAssumption

Loops == {"idle", "exits", "opens"}
Busy == {"check", "read", "insert", "fill", "cash", "position", "update", "commit"}

\* TypeOK with what it rests on: a run inside create_filled_order has an order, and
\* a position that holds something has a row.
Typed ==
    /\ TypeOK
    /\ \A r \in Runs : pc[r] \in Busy => order[r] \in Orders
    /\ \A s \in Symbols : qty[s] > 0 => opened[s] # 0

-----------------------------------------------------------------------------
(* The operators *)

LEMMA OrderFacts ==
    ASSUME NEW o \in Orders
    PROVE  /\ Worth(o) \in Nat /\ Signed(o) \in Int /\ Paid(o) \in Int
           /\ SignedQty(o) \in Int /\ NewQty(o) \in Nat
           /\ o.side = "SELL" => Signed(o) >= 0
           /\ o.key \in Keys /\ o.key.symbol \in Symbols /\ o.at \in Days
<1>1. o.qty \in Nat /\ o.qty >= 1 /\ o.price \in Nat /\ Fee <= o.price
    <2>1. o.qty \in Nat \ {0} /\ o.price \in Prices
        BY DEF Orders
    <2>2. o.qty \in Nat /\ o.qty >= 1
        BY <2>1
    <2>3. \A p \in Prices : p \in Nat /\ Fee <= p
        OBVIOUS
    <2>4. QED
        BY <2>1, <2>2, <2>3
<1>2. Worth(o) \in Nat /\ o.price <= Worth(o)
    <2>1. \A n, p \in Nat : n >= 1 => n * p \in Nat /\ p <= n * p
        OBVIOUS
    <2>2. QED
        BY <1>1, <2>1 DEF Worth
<1>3. NewQty(o) \in Nat /\ SignedQty(o) \in Int
    BY <1>1 DEF NewQty, SignedQty, Lesser, Orders
<1>4. o.key \in Keys /\ o.key.symbol \in Symbols /\ o.at \in Days
    BY DEF Orders, Keys
<1>5. Signed(o) \in Int /\ Paid(o) \in Int /\ (o.side = "SELL" => Signed(o) >= 0)
    BY <1>1, <1>2 DEF Signed, Paid, Orders
<1>6. QED
    BY <1>2, <1>3, <1>4, <1>5

LEMMA NewOrderFacts ==
    ASSUME NEW key \in Keys, NEW side \in {"BUY", "SELL"}, NEW n \in Nat \ {0},
           NEW price \in Prices, day \in Days
    PROVE  NewOrder(key, side, n, price) \in Orders
BY DEF NewOrder, Orders

LEMMA QuantityFacts ==
    ASSUME NEW price \in Prices, cash \in Int, Quantity(price) > 0
    PROVE  Quantity(price) \in Nat \ {0}
<1>1. Lesser(CashPerTrade, cash) \in Int /\ price \in Nat \ {0}
    BY DEF Lesser
<1>2. Quantity(price) \in Int
    BY <1>1 DEF Quantity
<1>3. QED
    BY <1>2

-----------------------------------------------------------------------------
(* Types *)

LEMMA TypedInit == Init => Typed
BY DEF Init, Typed, TypeOK, Busy, Days

\* Leaving create_filled_order, whatever happened to the tables meanwhile.
LEMMA LeaveTyped ==
    ASSUME Typed, NEW r \in Runs, pc[r] \in Busy, Leave(r)
    PROVE  /\ pc' \in [Runs -> Loops \cup Busy]
           /\ order' \in [Runs -> Orders \cup {NoOrder}]
           /\ \A q \in Runs : pc'[q] \in Busy => order'[q] \in Orders
BY DEF Typed, TypeOK, Leave, Goto, Busy, Loops

LEMMA SkipTyped ==
    ASSUME Typed, NEW r \in Runs, pc[r] \in Busy, Skip(r), UNCHANGED rest
    PROVE  Typed'
BY LeaveTyped DEF Typed, TypeOK, Skip, tables, scans, rest, Loops, Busy

LEMMA CreatedTyped ==
    ASSUME Typed, NEW r \in Runs, pc[r] \in Busy, Created(r)
    PROVE  /\ pc' \in [Runs -> Loops \cup Busy]
           /\ order' \in [Runs -> Orders \cup {NoOrder}]
           /\ \A q \in Runs : pc'[q] \in Busy => order'[q] \in Orders
           /\ held' \in [Runs -> SUBSET Symbols] /\ opens' \in [Runs -> Nat]
           /\ lastBuy' \in [Symbols -> 0..MaxDay]
<1>1. order[r] \in Orders /\ order[r].key.symbol \in Symbols /\ order[r].at \in 0..MaxDay
    BY OrderFacts DEF Typed, Days
<1>2. Leave(r)
    BY DEF Created
<1>3. held' \in [Runs -> SUBSET Symbols] /\ opens' \in [Runs -> Nat]
    BY <1>1 DEF Created, Typed, TypeOK
<1>4. lastBuy' \in [Symbols -> 0..MaxDay]
    BY <1>1 DEF Created, Typed, TypeOK
<1>5. QED
    BY <1>2, <1>3, <1>4, LeaveTyped

\* Moving on inside create_filled_order.
LEMMA GotoTyped ==
    ASSUME Typed, NEW r \in Runs, NEW where \in Loops \cup Busy, Goto(r, where),
           order' \in [Runs -> Orders \cup {NoOrder}],
           \A q \in Runs \ {r} : order'[q] = order[q],
           where \in Busy => order'[r] \in Orders
    PROVE  /\ pc' \in [Runs -> Loops \cup Busy]
           /\ \A q \in Runs : pc'[q] \in Busy => order'[q] \in Orders
BY DEF Typed, TypeOK, Goto, Busy, Loops

LEMMA AddFillTyped ==
    ASSUME TypeOK, NEW o \in Orders, AddFill(o)
    PROVE  fills' \in [cash : Int, shares : [Symbols -> Int]]
<1>1. Signed(o) \in Int /\ SignedQty(o) \in Int /\ o.key.symbol \in Symbols
    BY OrderFacts
<1>2. fills.cash + Signed(o) \in Int
      /\ [fills.shares EXCEPT ![o.key.symbol] = @ + SignedQty(o)] \in [Symbols -> Int]
    BY <1>1 DEF TypeOK
<1>3. QED
    BY <1>2 DEF TypeOK, AddFill

LEMMA TypedNext == Typed /\ [Next]_vars => Typed'
<1> SUFFICES ASSUME Typed, [Next]_vars PROVE Typed'
    OBVIOUS
<1> USE DEF Typed
<1>1. ASSUME NEW r \in Runs, Start(r) PROVE Typed'
    <2>1. {[symbol |-> s, qty |-> qty[s], opened |-> opened[s]] : s \in Holding} \subseteq Positions
        BY DEF Holding, Positions, TypeOK, Days
    <2>2. todo' \in [Runs -> SUBSET Positions]
        BY <1>1, <2>1 DEF Start, TypeOK
    <2>3. pc' \in [Runs -> Loops \cup Busy] /\ \A q \in Runs : pc'[q] \in Busy => order'[q] \in Orders
        BY <1>1, GotoTyped DEF Start, TypeOK, Loops, Busy
    <2>4. QED
        BY <1>1, <2>2, <2>3 DEF Start, TypeOK, tables, rest, Loops, Busy
<1>2. ASSUME NEW r \in Runs, NEW p \in todo[r], NEW tag \in Tags \ Signals, NEW price \in Prices,
             Exit(r, p, tag, price)
      PROVE  Typed'
    <2> DEFINE key == [symbol |-> p.symbol, tag |-> tag, date |-> day]
               o == NewOrder(key, "SELL", p.qty, price)
    <2>1. p \in Positions /\ p.symbol \in Symbols /\ p.qty \in Nat \ {0} /\ day \in Days
        BY DEF TypeOK, Positions
    <2>2. key \in Keys
        BY <2>1 DEF Keys
    <2>3. o \in Orders
        BY <2>1, <2>2, NewOrderFacts
    <2>4. order' = [order EXCEPT ![r] = o]
        BY <1>2 DEF Exit
    <2>5. todo' \in [Runs -> SUBSET Positions]
        BY <1>2 DEF Exit, TypeOK
    <2> HIDE DEF o, key
    <2>6. order' \in [Runs -> Orders \cup {NoOrder}] /\ order'[r] \in Orders
          /\ \A q \in Runs \ {r} : order'[q] = order[q]
        BY <2>3, <2>4 DEF TypeOK
    <2>7. pc' \in [Runs -> Loops \cup Busy] /\ \A q \in Runs : pc'[q] \in Busy => order'[q] \in Orders
        BY <1>2, <2>6, GotoTyped DEF Exit, TypeOK, Loops, Busy
    <2>8. QED
        BY <1>2, <2>5, <2>6, <2>7 DEF Exit, TypeOK, tables, rest, Loops, Busy
<1>3. ASSUME NEW r \in Runs, ExitsDone(r) PROVE Typed'
    <2>1. Goto(r, "idle") \/ Goto(r, "opens")
        BY <1>3 DEF ExitsDone
    <2>2. pc' \in [Runs -> Loops \cup Busy] /\ \A q \in Runs : pc'[q] \in Busy => order'[q] \in Orders
        BY <1>3, <2>1, GotoTyped DEF ExitsDone, TypeOK, Loops, Busy
    <2>3. held' \in [Runs -> SUBSET Symbols] /\ opens' \in [Runs -> Nat]
          /\ todo' \in [Runs -> SUBSET Positions]
        BY <1>3 DEF ExitsDone, TypeOK, Holding
    <2>4. QED
        BY <1>3, <2>2, <2>3 DEF ExitsDone, TypeOK, tables, rest, Loops, Busy
<1>4. ASSUME NEW r \in Runs, NEW s \in Symbols, NEW signal \in Signals, NEW date \in Days,
             NEW price \in Prices, Open(r, s, signal, date, price)
      PROVE  Typed'
    <2> DEFINE key == [symbol |-> s, tag |-> signal, date |-> date]
               o == NewOrder(key, "BUY", Quantity(price), price)
    <2>1. Quantity(price) \in Nat \ {0}
        BY <1>4, QuantityFacts DEF Open, TypeOK
    <2>2. key \in Keys /\ day \in Days
        BY DEF Keys, Tags, TypeOK
    <2>3. o \in Orders
        BY <2>1, <2>2, NewOrderFacts
    <2>4. order' = [order EXCEPT ![r] = o]
        BY <1>4 DEF Open
    <2> HIDE DEF o, key
    <2>5. order' \in [Runs -> Orders \cup {NoOrder}] /\ order'[r] \in Orders
          /\ \A q \in Runs \ {r} : order'[q] = order[q]
        BY <2>3, <2>4 DEF TypeOK
    <2>6. pc' \in [Runs -> Loops \cup Busy] /\ \A q \in Runs : pc'[q] \in Busy => order'[q] \in Orders
        BY <1>4, <2>5, GotoTyped DEF Open, TypeOK, Loops, Busy
    <2>7. QED
        BY <1>4, <2>5, <2>6 DEF Open, TypeOK, tables, scans, rest, Loops, Busy
<1>5. ASSUME NEW r \in Runs, OpensDone(r) PROVE Typed'
    <2>1. pc' \in [Runs -> Loops \cup Busy] /\ \A q \in Runs : pc'[q] \in Busy => order'[q] \in Orders
        BY <1>5, GotoTyped DEF OpensDone, TypeOK, Loops, Busy
    <2>2. QED
        BY <1>5, <2>1 DEF OpensDone, TypeOK, tables, rest, Loops, Busy
<1>6. ASSUME NEW r \in Runs, Check(r) PROVE Typed'
    <2>1. CASE Skip(r)
        BY <1>6, <2>1, SkipTyped DEF Check, Busy
    <2>2. CASE ~Skip(r)
        <3>1. pc' \in [Runs -> Loops \cup Busy]
              /\ \A q \in Runs : pc'[q] \in Busy => order'[q] \in Orders
            BY <1>6, <2>2, GotoTyped DEF Check, TypeOK, Loops, Busy
        <3>2. QED
            BY <1>6, <2>2, <3>1 DEF Check, TypeOK, tables, scans, rest, Loops, Busy
    <2>3. QED
        BY <2>1, <2>2
<1>7. ASSUME NEW r \in Runs, Read(r) PROVE Typed'
    <2>1. CASE Skip(r)
        BY <1>7, <2>1, SkipTyped DEF Read, Busy
    <2>2. CASE ~Skip(r)
        <3> DEFINE o == order[r]
        <3>1. o \in Orders /\ o.key.symbol \in Symbols
            BY <1>7, OrderFacts DEF Read, Busy
        <3>2. [o EXCEPT !.cash = cash, !.have = qty[o.key.symbol], !.row = opened[o.key.symbol] # 0]
              \in Orders
            BY <3>1 DEF Orders, TypeOK
        <3>3. order' = [order EXCEPT ![r] = [o EXCEPT !.cash = cash, !.have = qty[o.key.symbol],
                                                      !.row = opened[o.key.symbol] # 0]]
            BY <1>7, <2>2, <3>1 DEF Read, TypeOK
        <3> HIDE DEF o
        <3>4. order' \in [Runs -> Orders \cup {NoOrder}] /\ order'[r] \in Orders
              /\ \A q \in Runs \ {r} : order'[q] = order[q]
            BY <3>2, <3>3 DEF TypeOK
        <3>5. Goto(r, "insert") \/ Goto(r, "commit")
            BY <1>7, <2>2 DEF Read
        <3>6. pc' \in [Runs -> Loops \cup Busy]
              /\ \A q \in Runs : pc'[q] \in Busy => order'[q] \in Orders
            BY <3>4, <3>5, GotoTyped DEF TypeOK, Loops, Busy
        <3>7. QED
            BY <1>7, <2>2, <3>4, <3>6 DEF Read, TypeOK, tables, scans, rest, Loops, Busy
    <2>3. QED
        BY <2>1, <2>2
<1>8. ASSUME NEW r \in Runs, Insert(r) PROVE Typed'
    <2>1. CASE Skip(r)
        BY <1>8, <2>1, SkipTyped DEF Insert, Busy
    <2>2. CASE ~Skip(r)
        <3>1. pc' \in [Runs -> Loops \cup Busy]
              /\ \A q \in Runs : pc'[q] \in Busy => order'[q] \in Orders
            BY <1>8, <2>2, GotoTyped DEF Insert, TypeOK, Loops, Busy
        <3>2. orders' \subseteq Keys
            BY <1>8, <2>2, OrderFacts DEF Insert, TypeOK, Busy
        <3>3. QED
            BY <1>8, <2>2, <3>1, <3>2 DEF Insert, TypeOK, scans, rest, Loops, Busy
    <2>3. QED
        BY <2>1, <2>2
<1>9. ASSUME NEW r \in Runs, Fill(r) PROVE Typed'
    <2>1. CASE Skip(r)
        BY <1>9, <2>1, SkipTyped DEF Fill, Busy
    <2>2. CASE ~Skip(r)
        <3>1. pc' \in [Runs -> Loops \cup Busy]
              /\ \A q \in Runs : pc'[q] \in Busy => order'[q] \in Orders
            BY <1>9, <2>2, GotoTyped DEF Fill, TypeOK, Loops, Busy
        <3>2. fills' \in [cash : Int, shares : [Symbols -> Int]]
            BY <1>9, <2>2, AddFillTyped DEF Fill, Busy
        <3>3. QED
            BY <1>9, <2>2, <3>1, <3>2 DEF Fill, TypeOK, scans, rest, Loops, Busy
    <2>3. QED
        BY <2>1, <2>2
<1>10. ASSUME NEW r \in Runs, WriteCash(r) PROVE Typed'
    <2>1. order[r] \in Orders /\ Paid(order[r]) \in Int /\ order[r].key \in Keys
        BY <1>10, OrderFacts DEF WriteCash, Busy
    <2>2. pc' \in [Runs -> Loops \cup Busy] /\ \A q \in Runs : pc'[q] \in Busy => order'[q] \in Orders
        BY <1>10, <2>1, GotoTyped DEF WriteCash, TypeOK, Loops, Busy
    <2>3. moved' \in [Keys -> Nat]
        BY <1>10, <2>1 DEF WriteCash, TypeOK
    <2>4. QED
        BY <1>10, <2>1, <2>2, <2>3 DEF WriteCash, TypeOK, scans, rest, Loops, Busy
<1>11. ASSUME NEW r \in Runs, ReadPosition(r) PROVE Typed'
    <2> DEFINE o == order[r]
    <2>1. o \in Orders /\ o.key.symbol \in Symbols /\ o.at \in Days
        BY <1>11, OrderFacts DEF ReadPosition, Busy
    <2>2. [o EXCEPT !.have = qty[o.key.symbol]] \in Orders
        BY <2>1 DEF Orders, TypeOK
    <2>3. order' = [order EXCEPT ![r] = [o EXCEPT !.have = qty[o.key.symbol]]]
        BY <1>11, <2>1 DEF ReadPosition, TypeOK
    <2>4. opened' \in [Symbols -> 0..MaxDay] /\ \A s \in Symbols : opened[s] # 0 => opened'[s] # 0
        BY <1>11, <2>1 DEF ReadPosition, TypeOK, Days
    <2> HIDE DEF o
    <2>5. order' \in [Runs -> Orders \cup {NoOrder}] /\ order'[r] \in Orders
          /\ \A q \in Runs \ {r} : order'[q] = order[q]
        BY <2>2, <2>3 DEF TypeOK
    <2>6. pc' \in [Runs -> Loops \cup Busy] /\ \A q \in Runs : pc'[q] \in Busy => order'[q] \in Orders
        BY <1>11, <2>5, GotoTyped DEF ReadPosition, TypeOK, Loops, Busy
    <2>7. QED
        BY <1>11, <2>4, <2>5, <2>6 DEF ReadPosition, TypeOK, scans, rest, Loops, Busy
<1>12. ASSUME NEW r \in Runs, UpdatePosition(r) PROVE Typed'
    <2>1. order[r] \in Orders /\ NewQty(order[r]) \in Nat /\ order[r].key.symbol \in Symbols
          /\ pc[r] \in Busy /\ Created(r)
        BY <1>12, OrderFacts DEF UpdatePosition, Busy
    <2>2. qty' \in [Symbols -> Nat] /\ \A s \in Symbols : qty'[s] > 0 => opened[s] # 0
        BY <1>12, <2>1 DEF UpdatePosition, TypeOK
    <2>3. QED
        BY <1>12, <2>1, <2>2, CreatedTyped DEF UpdatePosition, TypeOK, rest, Loops, Busy
<1>13. ASSUME NEW r \in Runs, Commit(r) PROVE Typed'
    <2>1. CASE Skip(r)
        BY <1>13, <2>1, SkipTyped DEF Commit, Busy
    <2>2. CASE ~Skip(r)
        <3> DEFINE o == order[r]
        <3>1. /\ o \in Orders /\ NewQty(o) \in Nat /\ Paid(o) \in Int
              /\ o.key \in Keys /\ o.key.symbol \in Symbols /\ o.at \in Days
              /\ pc[r] \in Busy /\ Created(r) /\ AddFill(o) /\ ~Refused(o)
            BY <1>13, <2>2, OrderFacts DEF Commit, Busy
        <3>2. /\ qty' = IF NewQty(o) = o.have THEN qty ELSE [qty EXCEPT ![o.key.symbol] = NewQty(o)]
              /\ opened' = IF o.row THEN opened ELSE [opened EXCEPT ![o.key.symbol] = o.at]
              /\ orders' = orders \cup {o.key} /\ cash' = Paid(o)
              /\ moved' = [moved EXCEPT ![o.key] = @ + 1]
              /\ UNCHANGED todo /\ UNCHANGED rest
            BY <1>13, <2>2 DEF Commit
        <3>3. opened' \in [Symbols -> 0..MaxDay] /\ opened'[o.key.symbol] # 0
              /\ \A s \in Symbols : opened[s] # 0 => opened'[s] # 0
            BY <3>1, <3>2 DEF Refused, TypeOK, Days
        <3>4. qty' \in [Symbols -> Nat] /\ \A s \in Symbols : qty'[s] > 0 => opened'[s] # 0
            BY <3>1, <3>2, <3>3 DEF TypeOK
        <3>5. fills' \in [cash : Int, shares : [Symbols -> Int]]
            BY <3>1, AddFillTyped
        <3>6. orders' \subseteq Keys /\ cash' \in Int /\ moved' \in [Keys -> Nat]
            BY <3>1, <3>2 DEF TypeOK
        <3> HIDE DEF o
        <3>7. QED
            BY <3>1, <3>2, <3>3, <3>4, <3>5, <3>6, CreatedTyped DEF TypeOK, rest, Loops, Busy
    <2>3. QED
        BY <2>1, <2>2
<1>14. ASSUME NEW r \in Runs, Crash(r) PROVE Typed'
    BY <1>14 DEF Crash, TypeOK, Goto, tables, Busy
<1>15. CASE ResetMySQL
    BY <1>15 DEF ResetMySQL, TypeOK, NoFills, scans, Busy
<1>16. CASE ResetSQLite
    BY <1>16 DEF ResetSQLite, TypeOK, NoFills, scans, Busy
<1>17. CASE Midnight
    BY <1>17 DEF Midnight, TypeOK, tables, scans, Busy, Days
<1>18. CASE UNCHANGED vars
    BY <1>18 DEF vars, TypeOK, Busy
<1>19. QED
    BY <1>1, <1>2, <1>3, <1>4, <1>5, <1>6, <1>7, <1>8, <1>9, <1>10, <1>11, <1>12, <1>13,
       <1>14, <1>15, <1>16, <1>17, <1>18
    DEF Next, Step

\* The tables and every run under way keep the shapes the code expects.
THEOREM TypeCorrect == Spec => []TypeOK
<1>1. Typed => TypeOK
    BY DEF Typed
<1>2. QED
    BY <1>1, TypedInit, TypedNext, PTL DEF Spec

-----------------------------------------------------------------------------
(* The account is never in debt *)

\* What a run may still write to the account was allowed when it read the account.
Writing == {"insert", "fill", "cash", "commit"}
Solvent ==
    /\ cash >= 0
    /\ \A r \in Runs : pc[r] \in Writing => Paid(order[r]) >= 0

LEMMA OnlySelf ==
    ASSUME TypeOK, NEW r \in Runs, Step(r)
    PROVE  \A q \in Runs \ {r} : pc'[q] = pc[q] /\ order'[q] = order[q]
<1>1. Leave(r) => \A q \in Runs \ {r} : pc'[q] = pc[q] /\ order'[q] = order[q]
    BY DEF Leave, Goto, TypeOK
<1>2. Skip(r) => \A q \in Runs \ {r} : pc'[q] = pc[q] /\ order'[q] = order[q]
    BY <1>1 DEF Skip
<1>3. Created(r) => \A q \in Runs \ {r} : pc'[q] = pc[q] /\ order'[q] = order[q]
    BY <1>1 DEF Created
<1>4. CASE Start(r) \/ ExitsDone(r) \/ OpensDone(r) \/ Crash(r)
    BY <1>4 DEF Start, ExitsDone, OpensDone, Crash, Goto, TypeOK
<1>5. CASE \E p \in todo[r], tag \in Tags \ Signals, price \in Prices : Exit(r, p, tag, price)
    BY <1>5 DEF Exit, Goto, TypeOK
<1>6. CASE \E s \in Symbols, signal \in Signals, date \in Days, price \in Prices :
              Open(r, s, signal, date, price)
    BY <1>6 DEF Open, Goto, TypeOK
<1>7. CASE Check(r) \/ Read(r)
    BY <1>7, <1>2 DEF Check, Read, Goto, TypeOK
<1>8. CASE Insert(r) \/ Fill(r)
    BY <1>8, <1>2 DEF Insert, Fill, Goto, TypeOK
<1>9. CASE WriteCash(r) \/ ReadPosition(r)
    BY <1>9 DEF WriteCash, ReadPosition, Goto, TypeOK
<1>10. CASE UpdatePosition(r)
    BY <1>10, <1>3 DEF UpdatePosition
<1>11. CASE Commit(r)
    BY <1>11, <1>2, <1>3 DEF Commit
<1>12. QED
    BY <1>4, <1>5, <1>6, <1>7, <1>8, <1>9, <1>10, <1>11 DEF Step

LEMMA SolventFrame ==
    ASSUME Typed, Solvent, NEW r \in Runs, Step(r), cash' >= 0,
           pc'[r] \in Writing => Paid(order'[r]) >= 0
    PROVE  Solvent'
BY OnlySelf DEF Typed, Solvent, Paid, Signed, Worth

LEMMA LeaveFacts ==
    ASSUME TypeOK, NEW r \in Runs, Leave(r)
    PROVE  pc'[r] \in Loops
BY DEF Leave, Goto, TypeOK, Loops

LEMMA SolventNext == Typed /\ Solvent /\ [Next]_vars => Solvent'
<1> SUFFICES ASSUME Typed, Solvent, [Next]_vars PROVE Solvent'
    OBVIOUS
<1> USE DEF Typed
<1>1. ASSUME NEW r \in Runs, Step(r) PROVE Solvent'
    <2> USE SolventFrame, <1>1
    <2>0. cash >= 0
        BY DEF Solvent
    <2>1. CASE Start(r) \/ ExitsDone(r) \/ OpensDone(r) \/ Crash(r)
        BY <2>0, <2>1 DEF Start, ExitsDone, OpensDone, Crash, Goto, TypeOK, tables, Writing
    <2>2. CASE \E p \in todo[r], tag \in Tags \ Signals, price \in Prices : Exit(r, p, tag, price)
        BY <2>0, <2>2 DEF Exit, Goto, TypeOK, tables, Writing
    <2>3. CASE \E s \in Symbols, signal \in Signals, date \in Days, price \in Prices :
                  Open(r, s, signal, date, price)
        BY <2>0, <2>3 DEF Open, Goto, TypeOK, tables, Writing
    <2>4. CASE Skip(r)
        BY <2>0, <2>4, LeaveFacts DEF Skip, tables, Loops, Writing
    <2>5. CASE Check(r) /\ ~Skip(r)
        BY <2>0, <2>5 DEF Check, Goto, TypeOK, tables, Writing
    <2>6. CASE Read(r) /\ ~Skip(r)
        <3> DEFINE o == order[r]
        <3>1. o \in Orders /\ Signed(o) \in Int /\ (o.side = "SELL" => Signed(o) >= 0)
            BY <2>6, OrderFacts DEF Read, Busy
        <3>2. cash + Signed(o) >= 0
            BY <2>0, <2>6, <3>1 DEF Read, Insufficient, Orders, TypeOK
        <3>3. order'[r] = [o EXCEPT !.cash = cash, !.have = qty[o.key.symbol],
                                    !.row = opened[o.key.symbol] # 0]
            BY <2>6, <3>1 DEF Read, TypeOK
        <3>4. order'[r].cash = cash /\ order'[r].side = o.side /\ order'[r].qty = o.qty
              /\ order'[r].price = o.price
            BY <3>1, <3>3 DEF Orders
        <3>5. Paid(order'[r]) = cash + Signed(o)
            BY <3>4 DEF Paid, Signed, Worth
        <3>6. cash' = cash
            BY <2>6 DEF Read, tables
        <3>7. QED
            BY <2>0, <3>2, <3>5, <3>6
    <2>7. CASE (Insert(r) \/ Fill(r)) /\ ~Skip(r)
        <3>1. order' = order /\ cash' = cash /\ pc[r] \in Writing
            BY <2>7 DEF Insert, Fill, Writing
        <3>2. QED
            BY <2>0, <3>1 DEF Solvent
    <2>8. CASE WriteCash(r)
        <3>1. cash' = Paid(order[r]) /\ pc[r] \in Writing /\ pc'[r] = "position"
            BY <2>8 DEF WriteCash, Goto, TypeOK, Writing
        <3>2. QED
            BY <3>1 DEF Solvent, Writing
    <2>9. CASE ReadPosition(r)
        BY <2>0, <2>9 DEF ReadPosition, Goto, TypeOK, Writing
    <2>10. CASE UpdatePosition(r)
        BY <2>0, <2>10, LeaveFacts DEF UpdatePosition, Created, Loops, Writing
    <2>11. CASE Commit(r) /\ ~Skip(r)
        <3>1. cash' = Paid(order[r]) /\ pc[r] \in Writing /\ Leave(r)
            BY <2>11 DEF Commit, Created, Writing
        <3>2. QED
            BY <3>1, LeaveFacts DEF Solvent, Writing, Loops
    <2>12. QED
        BY <2>1, <2>2, <2>3, <2>4, <2>5, <2>6, <2>7, <2>8, <2>9, <2>10, <2>11 DEF Step
<1>2. CASE ResetMySQL \/ ResetSQLite
    BY <1>2 DEF ResetMySQL, ResetSQLite, Solvent, Paid, Signed, Worth
<1>3. CASE Midnight
    BY <1>3 DEF Midnight, tables, Solvent, Paid, Signed, Worth
<1>4. CASE UNCHANGED vars
    BY <1>4 DEF vars, Solvent, Paid, Signed, Worth
<1>5. QED
    BY <1>1, <1>2, <1>3, <1>4 DEF Next

\* However many runs overlap, die or meet a reset, the cash of the account never
\* falls below zero.
THEOREM CashStaysNonNegative == Spec => []CashNonNegative
<1>1. Init => Solvent
    BY DEF Init, Solvent, Writing
<1>2. Solvent => CashNonNegative
    BY DEF Solvent, CashNonNegative
<1>3. QED
    BY <1>1, <1>2, TypedInit, TypedNext, SolventNext, PTL DEF Spec

-----------------------------------------------------------------------------
(* A key moves cash once *)

\* A SQLite reset deletes the keys of orders that are half written, so what follows
\* holds until the first one; a MySQL reset finds none.
NoHalfReset == Backend = "mysql" \/ resets = 0

LEMMA ResetsGrow == TypeOK /\ [Next]_vars => resets' = resets \/ resets' = resets + 1
<1> SUFFICES ASSUME TypeOK, [Next]_vars PROVE resets' = resets \/ resets' = resets + 1
    OBVIOUS
<1>1. ASSUME NEW r \in Runs, Step(r) PROVE resets' = resets
    BY <1>1 DEF Step, Start, Exit, ExitsDone, Open, OpensDone, Check, Read, Insert, Fill,
                WriteCash, ReadPosition, UpdatePosition, Commit, Crash, rest
<1>2. QED
    BY <1>1 DEF Next, ResetMySQL, ResetSQLite, Midnight, vars

\* The unique key is the ticket that lets one run, and no second one, move the cash.
Pending(r) == pc[r] \in {"fill", "cash"}
Tickets ==
    /\ \A r \in Runs : Backend = "mysql" => pc[r] \notin {"insert", "fill", "cash", "position", "update"}
    /\ Backend = "sqlite" => reset = "idle"
    /\ \A k \in Keys : moved[k] <= 1 /\ (moved[k] > 0 => k \in orders)
    /\ \A r \in Runs : Pending(r) => order[r].key \in orders /\ moved[order[r].key] = 0
    /\ \A r, q \in Runs : Pending(r) /\ Pending(q) /\ r # q => order[r].key # order[q].key

\* A step that moves no cash, adds no key and leaves nobody new pending.
LEMMA TicketsFrame ==
    ASSUME Typed, Tickets, NEW r \in Runs, Step(r), UNCHANGED <<orders, moved, reset>>,
           Backend = "mysql" => pc'[r] \notin {"insert", "fill", "cash", "position", "update"},
           pc'[r] \in {"fill", "cash"} => Pending(r) /\ order'[r] = order[r]
    PROVE  Tickets'
BY OnlySelf DEF Typed, Tickets, Pending

LEMMA TicketsNext == Typed /\ Tickets /\ NoHalfReset' /\ [Next]_vars => Tickets'
<1> SUFFICES ASSUME Typed, Tickets, NoHalfReset', [Next]_vars PROVE Tickets'
    OBVIOUS
<1> USE DEF Typed
<1>1. ASSUME NEW r \in Runs, Step(r) PROVE Tickets'
    <2> USE <1>1
    <2>1. CASE Start(r) \/ ExitsDone(r) \/ OpensDone(r) \/ Crash(r)
        <3>1. UNCHANGED <<orders, moved, reset>> /\ pc'[r] \in Loops
            BY <2>1 DEF Start, ExitsDone, OpensDone, Crash, Goto, TypeOK, tables, rest, Loops
        <3>2. QED
            BY <3>1, TicketsFrame DEF Loops
    <2>2. CASE \E p \in todo[r], tag \in Tags \ Signals, price \in Prices : Exit(r, p, tag, price)
        <3>1. UNCHANGED <<orders, moved, reset>> /\ pc'[r] = "check"
            BY <2>2 DEF Exit, Goto, TypeOK, tables, rest
        <3>2. QED
            BY <3>1, TicketsFrame
    <2>3. CASE \E s \in Symbols, signal \in Signals, date \in Days, price \in Prices :
                  Open(r, s, signal, date, price)
        <3>1. UNCHANGED <<orders, moved, reset>> /\ pc'[r] = "check"
            BY <2>3 DEF Open, Goto, TypeOK, tables, rest
        <3>2. QED
            BY <3>1, TicketsFrame
    <2>4. CASE Skip(r) /\ UNCHANGED rest
        <3>1. UNCHANGED <<orders, moved, reset>> /\ pc'[r] \in Loops
            BY <2>4, LeaveFacts DEF Skip, tables, rest
        <3>2. QED
            BY <3>1, TicketsFrame DEF Loops
    <2>5. CASE Check(r) /\ ~Skip(r)
        <3>1. UNCHANGED <<orders, moved, reset>> /\ pc'[r] = "read"
            BY <2>5 DEF Check, Goto, TypeOK, tables, rest
        <3>2. QED
            BY <3>1, TicketsFrame
    <2>6. CASE Read(r) /\ ~Skip(r)
        <3>1. /\ UNCHANGED <<orders, moved, reset>>
              /\ pc'[r] = IF Backend = "sqlite" THEN "insert" ELSE "commit"
            BY <2>6 DEF Read, Goto, TypeOK, tables, rest
        <3>2. QED
            BY <3>1, TicketsFrame
    <2>7. CASE Insert(r) /\ ~Skip(r)
        <3>1. order[r] \in Orders /\ order[r].key \in Keys
            BY <2>7, OrderFacts DEF Insert, Busy
        <3>2. /\ order[r].key \notin orders /\ orders' = orders \cup {order[r].key}
              /\ UNCHANGED <<moved, order, reset>> /\ pc'[r] = "fill" /\ pc[r] = "insert"
            BY <2>7 DEF Insert, Taken, Goto, TypeOK, rest
        <3>3. moved[order[r].key] = 0
            BY <3>1, <3>2 DEF Tickets, TypeOK
        <3>4. QED
            BY <3>1, <3>2, <3>3, OnlySelf DEF Tickets, Pending
    <2>8. CASE Fill(r) /\ ~Skip(r)
        <3>1. UNCHANGED <<orders, moved, order, reset>> /\ pc'[r] = "cash" /\ pc[r] = "fill"
            BY <2>8 DEF Fill, Goto, TypeOK, rest
        <3>2. QED
            BY <3>1, TicketsFrame DEF Tickets, Pending
    <2>9. CASE WriteCash(r)
        <3>1. order[r] \in Orders /\ order[r].key \in Keys
            BY <2>9, OrderFacts DEF WriteCash, Busy
        <3>2. /\ moved' = [moved EXCEPT ![order[r].key] = @ + 1]
              /\ UNCHANGED <<orders, order, reset>> /\ pc'[r] = "position" /\ pc[r] = "cash"
            BY <2>9 DEF WriteCash, Goto, TypeOK, rest
        <3>3. order[r].key \in orders /\ moved[order[r].key] = 0
            BY <3>2 DEF Tickets, Pending
        <3>4. \A k \in Keys : moved'[k] = IF k = order[r].key THEN 1 ELSE moved[k]
            BY <3>1, <3>2, <3>3 DEF TypeOK
        <3>5. \A q \in Runs : Pending(q)' => q # r /\ Pending(q) /\ order'[q] = order[q]
            BY <3>2, OnlySelf DEF Pending
        <3>6. \A q \in Runs : Pending(q)' => order[q].key \in Keys /\ order[q].key # order[r].key
            BY <3>2, <3>5, OrderFacts DEF Tickets, Pending, Busy
        <3>7. \A q \in Runs : Backend = "mysql" =>
                  pc'[q] \notin {"insert", "fill", "cash", "position", "update"}
            BY <3>2 DEF Tickets
        <3>8. QED
            BY <3>1, <3>2, <3>3, <3>4, <3>5, <3>6, <3>7 DEF Tickets
    <2>10. CASE ReadPosition(r)
        <3>1. UNCHANGED <<orders, moved, reset>> /\ pc'[r] = "update" /\ pc[r] = "position"
            BY <2>10 DEF ReadPosition, Goto, TypeOK, rest
        <3>2. QED
            BY <3>1, TicketsFrame DEF Tickets
    <2>11. CASE UpdatePosition(r)
        <3>1. UNCHANGED <<orders, moved, reset>> /\ pc'[r] \in Loops
            BY <2>11, LeaveFacts DEF UpdatePosition, Created, rest
        <3>2. QED
            BY <3>1, TicketsFrame DEF Loops
    <2>12. CASE Commit(r) /\ ~Skip(r)
        <3> DEFINE k == order[r].key
        <3>1. order[r] \in Orders /\ k \in Keys
            BY <2>12, OrderFacts DEF Commit, Busy
        <3>2. /\ k \notin orders /\ orders' = orders \cup {k}
              /\ moved' = [moved EXCEPT ![k] = @ + 1] /\ UNCHANGED reset /\ Leave(r)
            BY <2>12 DEF Commit, Refused, Taken, Created, rest
        <3>3. \A j \in Keys : moved'[j] = IF j = k THEN 1 ELSE moved[j]
            BY <3>1, <3>2 DEF Tickets, TypeOK
        <3>4. pc'[r] \in Loops
            BY <3>2, LeaveFacts
        <3>5. \A q \in Runs : Pending(q)' => q # r /\ Pending(q) /\ order'[q] = order[q]
            BY <3>4, OnlySelf DEF Pending, Loops
        <3>6. \A q \in Runs : Pending(q)' => order[q].key \in Keys /\ order[q].key # k
            BY <3>2, <3>5, OrderFacts DEF Tickets, Pending, Busy
        <3>7. \A q \in Runs : Backend = "mysql" =>
                  pc'[q] \notin {"insert", "fill", "cash", "position", "update"}
            BY <3>4, OnlySelf DEF Tickets, Loops
        <3> HIDE DEF k
        <3>8. QED
            BY <3>1, <3>2, <3>3, <3>5, <3>6, <3>7 DEF Tickets
    <2>13. QED
        BY <2>1, <2>2, <2>3, <2>4, <2>5, <2>6, <2>7, <2>8, <2>9, <2>10, <2>11, <2>12
        DEF Step, Check, Read, Insert, Fill, Commit
<1>2. CASE ResetMySQL
    BY <1>2 DEF ResetMySQL, Tickets, Pending
<1>3. CASE ResetSQLite
    BY <1>3 DEF ResetSQLite, Tickets, NoHalfReset, TypeOK
<1>4. CASE Midnight
    BY <1>4 DEF Midnight, tables, Tickets, Pending
<1>5. CASE UNCHANGED vars
    BY <1>5 DEF vars, Tickets, Pending
<1>6. QED
    BY <1>1, <1>2, <1>3, <1>4, <1>5 DEF Next

\* However many runs overlap and die, one idempotency key moves cash at most once.
THEOREM KeysMoveCashOnce == Spec => []MovedAtMostOnce
<1> DEFINE Inv == NoHalfReset => Tickets
<1>1. Init => Inv
    BY DEF Init, Tickets, Pending
<1>2. Typed /\ Inv /\ [Next]_vars => Inv'
    BY TicketsNext, ResetsGrow DEF NoHalfReset, Typed, TypeOK
<1>3. Inv => MovedAtMostOnce
    BY DEF NoHalfReset, Tickets, MovedAtMostOnce
<1> HIDE DEF Inv
<1>4. QED
    BY <1>1, <1>2, <1>3, TypedInit, TypedNext, PTL DEF Spec

-----------------------------------------------------------------------------
(* The first day of a position *)

\* Until a reset a position keeps the day it was opened on, so what a run has read
\* of it stays true, and an order to sell it was given on a later day.
SellsLater(r) ==
    order[r] # NoOrder /\ order[r].side = "SELL" =>
        \/ order[r].key.symbol \in T0
        \/ opened[order[r].key.symbol] # 0 /\ opened[order[r].key.symbol] < day
Aged ==
    /\ reset = "idle"
    /\ \A r \in Runs : \A p \in todo[r] : p.opened = opened[p.symbol]
    /\ \A r \in Runs : SellsLater(r)

\* What a step does to the account that keeps everybody's view of the positions.
Keeps ==
    /\ UNCHANGED reset
    /\ day' >= day
    /\ \A s \in Symbols : opened[s] # 0 => opened'[s] = opened[s]

LEMMA AgedFrame ==
    ASSUME Typed, Aged, Typed', Keeps, NEW r \in Runs,
           \A q \in Runs \ {r} : todo'[q] = todo[q] /\ order'[q] = order[q],
           \A p \in todo'[r] : p.opened = opened'[p.symbol],
           SellsLater(r)'
    PROVE  Aged'
<1>1. \A q \in Runs : \A p \in todo[q] : p.symbol \in Symbols /\ p.opened # 0
    BY DEF Typed, TypeOK, Positions, Days
<1>2. \A q \in Runs : \A p \in todo'[q] : p.opened = opened'[p.symbol]
    BY <1>1 DEF Aged, Keeps
<1>3. \A q \in Runs : order[q] # NoOrder => order[q].key.symbol \in Symbols
    BY OrderFacts DEF Typed, TypeOK
<1>4. \A q \in Runs \ {r} : SellsLater(q)'
    BY <1>3 DEF Aged, Keeps, SellsLater, Typed, TypeOK, Days
<1>5. QED
    BY <1>2, <1>4 DEF Aged, Keeps

\* The same for a step that reads no position and gives no new order.
LEMMA AgedQuiet ==
    ASSUME Typed, Aged, Typed', Keeps, NEW r \in Runs,
           \A q \in Runs \ {r} : todo'[q] = todo[q] /\ order'[q] = order[q],
           todo'[r] \subseteq todo[r],
           \/ order'[r] = NoOrder
           \/ order[r] # NoOrder /\ order'[r].key = order[r].key /\ order'[r].side = order[r].side
    PROVE  Aged'
<1>1. \A p \in todo[r] : p.symbol \in Symbols /\ p.opened # 0
    BY DEF Typed, TypeOK, Positions, Days
<1>2. \A p \in todo'[r] : p.opened = opened'[p.symbol]
    BY <1>1 DEF Aged, Keeps
<1>3. order[r] # NoOrder => order[r].key.symbol \in Symbols
    BY OrderFacts DEF Typed, TypeOK
<1>4. SellsLater(r)'
    BY <1>3 DEF Aged, Keeps, SellsLater, Typed, TypeOK, Days
<1>5. QED
    BY <1>2, <1>4, AgedFrame

LEMMA TodoSelf ==
    ASSUME TypeOK, NEW r \in Runs, Step(r)
    PROVE  \A q \in Runs \ {r} : todo'[q] = todo[q]
BY DEF Step, Start, Exit, ExitsDone, Open, OpensDone, Check, Read, Insert, Fill, WriteCash,
       ReadPosition, UpdatePosition, Commit, Crash, Skip, scans, TypeOK

LEMMA AgedNext == Typed /\ Aged /\ resets' = 0 /\ [Next]_vars => Aged'
<1> SUFFICES ASSUME Typed, Aged, resets' = 0, [Next]_vars PROVE Aged'
    OBVIOUS
<1>0. Typed' /\ day \in Days
    BY TypedNext DEF Typed, TypeOK
<1>1. ASSUME NEW r \in Runs, Step(r) PROVE Aged'
    <2> USE <1>0, <1>1 DEF Typed
    <2>0. \A q \in Runs \ {r} : todo'[q] = todo[q] /\ order'[q] = order[q]
        BY TodoSelf, OnlySelf
    <2>1. CASE Start(r)
        <3>1. Keeps /\ UNCHANGED order
            BY <2>1 DEF Start, Keeps, tables, rest, Days
        <3>2. todo'[r] = {[symbol |-> s, qty |-> qty[s], opened |-> opened[s]] : s \in Holding}
              /\ opened' = opened
            BY <2>1 DEF Start, TypeOK, tables
        <3>3. \A p \in todo'[r] : p.opened = opened'[p.symbol]
            BY <3>2
        <3>4. SellsLater(r)'
            BY <2>1, <3>1, <3>2 DEF Start, rest, Aged, SellsLater
        <3>5. QED
            BY <2>0, <3>1, <3>3, <3>4, AgedFrame
    <2>2. CASE \E p \in todo[r], tag \in Tags \ Signals, price \in Prices : Exit(r, p, tag, price)
        <3> PICK p \in todo[r], tag \in Tags \ Signals, price \in Prices : Exit(r, p, tag, price)
            BY <2>2
        <3>1. Keeps /\ UNCHANGED <<opened, day>> /\ todo'[r] \subseteq todo[r]
            BY DEF Exit, Keeps, tables, rest, Days, TypeOK
        <3>2. p.opened = opened[p.symbol] /\ p.opened \in Days
            BY DEF Aged, TypeOK, Positions
        <3>3. p.symbol \in T0 \/ p.opened < day
            BY <3>2 DEF Exit, MaySell, Days
        <3>4. order'[r] = NewOrder([symbol |-> p.symbol, tag |-> tag, date |-> day], "SELL", p.qty, price)
            BY DEF Exit, TypeOK
        <3>5. order'[r].key.symbol = p.symbol
            BY <3>4 DEF NewOrder
        <3>6. SellsLater(r)'
            BY <3>1, <3>2, <3>3, <3>5 DEF SellsLater, Days
        <3>7. \A x \in todo'[r] : x.opened = opened'[x.symbol]
            BY <3>1 DEF Aged
        <3>8. QED
            BY <2>0, <3>1, <3>6, <3>7, AgedFrame
    <2>3. CASE \E s \in Symbols, signal \in Signals, date \in Days, price \in Prices :
                  Open(r, s, signal, date, price)
        <3> PICK s \in Symbols, signal \in Signals, date \in Days, price \in Prices :
                Open(r, s, signal, date, price)
            BY <2>3
        <3>1. Keeps /\ UNCHANGED <<opened, todo>>
            BY DEF Open, Keeps, tables, scans, rest, Days
        <3>2. order'[r] = NewOrder([symbol |-> s, tag |-> signal, date |-> date], "BUY", Quantity(price), price)
            BY DEF Open, TypeOK
        <3>3. order'[r].side = "BUY"
            BY <3>2 DEF NewOrder
        <3>4. SellsLater(r)'
            BY <3>3 DEF SellsLater
        <3>5. QED
            BY <2>0, <3>1, <3>4, AgedFrame DEF Aged
    <2>4. CASE ExitsDone(r) \/ OpensDone(r)
        <3>1. Keeps /\ UNCHANGED <<opened, order, day>> /\ todo'[r] \subseteq todo[r]
            BY <2>4 DEF ExitsDone, OpensDone, Keeps, tables, rest, Days, TypeOK
        <3>2. (\A p \in todo'[r] : p.opened = opened'[p.symbol]) /\ SellsLater(r)'
            BY <3>1 DEF Aged, SellsLater
        <3>3. QED
            BY <2>0, <3>1, <3>2, AgedFrame
    <2>5. CASE Crash(r)
        <3>1. Keeps /\ order'[r] = NoOrder /\ todo'[r] \subseteq todo[r]
            BY <2>5 DEF Crash, Keeps, tables, Days, TypeOK
        <3>2. QED
            BY <2>0, <3>1, AgedQuiet
    <2>6. CASE Skip(r) /\ UNCHANGED rest
        <3>1. Keeps /\ order'[r] = NoOrder /\ todo'[r] \subseteq todo[r]
            BY <2>6 DEF Skip, Leave, Keeps, tables, scans, rest, Days, TypeOK
        <3>2. QED
            BY <2>0, <3>1, AgedQuiet
    <2>7. CASE (Check(r) \/ Insert(r) \/ Fill(r) \/ WriteCash(r)) /\ ~Skip(r)
        <3>1. order[r] \in Orders /\ order'[r] = order[r]
            BY <2>7 DEF Check, Insert, Fill, WriteCash, Busy
        <3>2. Keeps /\ todo'[r] \subseteq todo[r]
            BY <2>7 DEF Check, Insert, Fill, WriteCash, Keeps, tables, scans, rest, Days
        <3>3. QED
            BY <2>0, <3>1, <3>2, AgedQuiet
    <2>8. CASE Read(r) /\ ~Skip(r)
        <3>1. order[r] \in Orders
            BY <2>8 DEF Read, Busy
        <3>2. order'[r].key = order[r].key /\ order'[r].side = order[r].side
            BY <2>8, <3>1 DEF Read, Orders, TypeOK
        <3>3. Keeps /\ todo'[r] \subseteq todo[r]
            BY <2>8 DEF Read, Keeps, tables, scans, rest, Days
        <3>4. QED
            BY <2>0, <3>1, <3>2, <3>3, AgedQuiet
    <2>9. CASE ReadPosition(r)
        <3>1. order[r] \in Orders
            BY <2>9 DEF ReadPosition, Busy
        <3>2. order'[r].key = order[r].key /\ order'[r].side = order[r].side
            BY <2>9, <3>1 DEF ReadPosition, Orders, TypeOK
        <3>3. Keeps /\ todo'[r] \subseteq todo[r]
            BY <2>9 DEF ReadPosition, Keeps, scans, rest, Days, TypeOK
        <3>4. QED
            BY <2>0, <3>1, <3>2, <3>3, AgedQuiet
    <2>10. CASE UpdatePosition(r)
        <3>1. Keeps /\ todo'[r] \subseteq todo[r] /\ order'[r] = NoOrder
            BY <2>10 DEF UpdatePosition, Created, Leave, Keeps, rest, Days, TypeOK
        <3>2. QED
            BY <2>0, <3>1, AgedQuiet
    <2>11. CASE Commit(r) /\ ~Skip(r)
        <3>1. order[r] \in Orders /\ order[r].key.symbol \in Symbols
            BY <2>11, OrderFacts DEF Commit, Busy
        <3>2. /\ ~Refused(order[r]) /\ UNCHANGED todo /\ UNCHANGED rest /\ Leave(r)
              /\ opened' = IF order[r].row THEN opened
                           ELSE [opened EXCEPT ![order[r].key.symbol] = order[r].at]
            BY <2>11 DEF Commit, Created
        <3>3. Keeps
            BY <3>1, <3>2 DEF Refused, Keeps, rest, Days, TypeOK
        <3>4. order'[r] = NoOrder
            BY <3>2 DEF Leave, TypeOK
        <3>5. QED
            BY <2>0, <3>2, <3>3, <3>4, AgedQuiet
    <2>12. QED
        BY <2>1, <2>2, <2>3, <2>4, <2>5, <2>6, <2>7, <2>8, <2>9, <2>10, <2>11
        DEF Step, Check, Read, Insert, Fill, WriteCash, Commit
<1>2. CASE ResetMySQL \/ ResetSQLite
    BY <1>2 DEF ResetMySQL, ResetSQLite, Aged, Typed, TypeOK
<1>3. CASE Midnight
    <2>1. day' = day + 1 /\ UNCHANGED <<opened, todo, order, reset>>
        BY <1>3 DEF Midnight, tables, scans
    <2>2. \A r \in Runs : order[r] # NoOrder => order[r].key.symbol \in Symbols
        BY OrderFacts DEF Typed, TypeOK
    <2>3. ASSUME NEW r \in Runs PROVE SellsLater(r)'
        <3>1. SellsLater(r) /\ opened \in [Symbols -> Nat] /\ day \in Nat
            BY <1>0 DEF Aged, Typed, TypeOK, Days
        <3>2. \A n, d \in Nat : n < d => n < d + 1
            OBVIOUS
        <3>3. QED
            BY <2>1, <2>2, <3>1, <3>2 DEF SellsLater
    <2>4. QED
        BY <2>1, <2>3 DEF Aged
<1>4. CASE UNCHANGED vars
    BY <1>4 DEF vars, Aged, SellsLater
<1>5. QED
    BY <1>1, <1>2, <1>3, <1>4 DEF Next

\* Until a reset, no position is sold on the day it was opened for the first time,
\* however many runs overlap and whenever midnight comes.
THEOREM FirstDayIsHeld == Spec => FirstDayHeld
<1> DEFINE Inv == resets = 0 => Aged
<1>1. Init => Inv
    BY DEF Init, Aged, SellsLater
<1>2. Typed /\ Inv /\ [Next]_vars => Inv'
    BY AgedNext, ResetsGrow DEF Typed, TypeOK
<1>3. Inv => [resets = 0 => \A r \in Runs : Fills(r, "SELL") =>
                  LET s == order[r].key.symbol IN s \in T0 \/ opened[s] < day]_vars
    BY DEF Aged, SellsLater, Fills
<1> HIDE DEF Inv
<1>4. QED
    BY <1>1, <1>2, <1>3, TypedInit, TypedNext, PTL DEF Spec, FirstDayHeld

-----------------------------------------------------------------------------
(* One run at a time *)

\* No reset so far, and on SQLite, where an order is five statements, no crash.
Undisturbed == resets = 0 /\ (Backend = "mysql" \/ crashes = 0)

\* What the run has read of the account is still so.
ReadIsTrue(r) ==
    LET o == order[r]
        s == o.key.symbol
    IN  /\ \A p \in todo[r] : p.qty = qty[p.symbol] /\ p.opened = opened[p.symbol]
        /\ pc[r] = "opens" => todo[r] = {} /\ held[r] = Holding
        /\ pc[r] \in Busy /\ o.side = "SELL" =>
              o.qty = qty[s] /\ \A p \in todo[r] : p.symbol # s
        /\ pc[r] \in Busy /\ o.side = "BUY" =>
              /\ todo[r] = {} /\ held[r] = Holding /\ s \notin Holding
              /\ Cardinality(Holding) < MaxPositions /\ o.qty <= CashPerTrade
        /\ pc[r] \in Writing => o.cash = cash
        /\ pc[r] \in {"update", "commit"} => o.have = qty[s]
        /\ pc[r] = "update" => opened[s] # 0

\* How far the order under way has come: fills first, then cash, then the position.
Booked(r) ==
    LET o == order[r]
    IN  /\ InitialCash + fills.cash = IF pc[r] = "cash" THEN Paid(o) ELSE cash
        /\ pc[r] \in {"position", "update"} => cash = Paid(o)
        /\ fills.shares = IF pc[r] \in {"cash", "position", "update"}
                          THEN [qty EXCEPT ![o.key.symbol] = @ + SignedQty(o)] ELSE qty

\* The book a run alone finds and leaves behind.
Serial(r) ==
    /\ reset = "idle"
    /\ IsFiniteSet(Holding) /\ PositionLimit
    /\ \A s \in Symbols : qty[s] <= CashPerTrade
    /\ ReadIsTrue(r) /\ Booked(r)

LEMMA SerialInit == ASSUME NEW r \in Runs PROVE Init => Serial(r)
<1> SUFFICES ASSUME Init PROVE Serial(r)
    OBVIOUS
<1>1. Holding = {}
    BY DEF Init, Holding
<1>2. IsFiniteSet(Holding) /\ Cardinality(Holding) = 0
    BY <1>1, FS_EmptySet
<1>3. QED
    BY <1>2 DEF Init, Serial, PositionLimit, ReadIsTrue, Booked, Busy, Writing

\* What one trade does to the positions, if the quantity it goes by is that of the row.
LEMMA TradeFacts ==
    ASSUME Typed, NEW r \in Runs, Serial(r), pc[r] \in Busy,
           order[r].have = qty[order[r].key.symbol],
           qty' = [qty EXCEPT ![order[r].key.symbol] = NewQty(order[r])]
    PROVE  /\ qty' = [qty EXCEPT ![order[r].key.symbol] = @ + SignedQty(order[r])]
           /\ NewQty(order[r]) # order[r].have
           /\ IsFiniteSet(Holding') /\ PositionLimit'
           /\ \A s \in Symbols : qty'[s] <= CashPerTrade
           /\ order[r].side = "BUY" => Holding' = Holding \cup {order[r].key.symbol}
<1> DEFINE o == order[r]
           s == o.key.symbol
<1>1. o \in Orders /\ s \in Symbols /\ o.qty \in Nat /\ o.qty >= 1 /\ qty \in [Symbols -> Nat]
    <2>1. o \in Orders
        BY DEF Typed
    <2>2. s \in Symbols
        BY <2>1, OrderFacts
    <2>3. QED
        BY <2>1, <2>2 DEF Orders, Typed, TypeOK
<1>2. o.side \in {"BUY", "SELL"} /\ IsFiniteSet(Holding) /\ Cardinality(Holding) \in Nat
    BY <1>1, FS_CardinalityType DEF Orders, Serial
<1>3. CASE o.side = "BUY"
    <2>1. s \notin Holding /\ Cardinality(Holding) < MaxPositions /\ o.qty <= CashPerTrade
        BY <1>3 DEF Serial, ReadIsTrue
    <2>2. qty[s] = 0
        BY <1>1, <2>1 DEF Holding
    <2>3. NewQty(o) = o.qty /\ SignedQty(o) = o.qty
        BY <1>1, <1>3, <2>2 DEF NewQty, SignedQty
    <2>4. Holding' = Holding \cup {s}
        BY <1>1, <2>3 DEF Holding
    <2>5. IsFiniteSet(Holding') /\ Cardinality(Holding') = Cardinality(Holding) + 1
        BY <1>2, <2>1, <2>4, FS_AddElement
    <2>6. \A x \in Symbols : qty'[x] <= CashPerTrade
        BY <1>1, <2>1, <2>3 DEF Serial
    <2>7. NewQty(o) # o.have /\ NewQty(o) = qty[s] + SignedQty(o)
        BY <1>1, <2>2, <2>3
    <2> HIDE DEF o, s
    <2>8. PositionLimit'
        BY <1>2, <2>1, <2>5 DEF PositionLimit
    <2>9. QED
        BY <2>4, <2>5, <2>6, <2>7, <2>8 DEF o, s
<1>4. CASE o.side = "SELL"
    <2>1. o.qty = qty[s] /\ s \in Holding
        BY <1>1, <1>4 DEF Serial, ReadIsTrue, Holding
    <2>2. NewQty(o) = 0 /\ SignedQty(o) = -qty[s] /\ o.have >= 1
        BY <1>1, <1>4, <2>1 DEF NewQty, SignedQty, Lesser
    <2>3. Holding' = Holding \ {s}
        BY <1>1, <2>2 DEF Holding
    <2>4. IsFiniteSet(Holding') /\ Cardinality(Holding') = Cardinality(Holding) - 1
        <3> HIDE DEF s
        <3>1. /\ IsFiniteSet(Holding \ {s})
              /\ Cardinality(Holding \ {s}) = IF s \in Holding THEN Cardinality(Holding) - 1 ELSE Cardinality(Holding)
            BY <1>2, FS_RemoveElement
        <3>2. QED
            BY <2>1, <2>3, <3>1
    <2>5. \A x \in Symbols : qty'[x] <= CashPerTrade
        BY <1>1, <2>2 DEF Serial
    <2>6. NewQty(o) # o.have /\ NewQty(o) = qty[s] + SignedQty(o)
        BY <1>1, <2>2
    <2> HIDE DEF o, s
    <2>7. PositionLimit'
        BY <1>2, <2>4 DEF PositionLimit, Serial
    <2>8. QED
        BY <1>4, <2>4, <2>5, <2>6, <2>7 DEF o, s
<1>5. QED
    BY <1>2, <1>3, <1>4

LEMMA QuantityBound ==
    ASSUME NEW price \in Prices, cash \in Int, Quantity(price) > 0
    PROVE  Quantity(price) <= CashPerTrade
<1> DEFINE budget == Lesser(CashPerTrade, cash)
<1>1. budget \in Int /\ budget <= CashPerTrade /\ price \in Nat \ {0}
    BY DEF Lesser
<1>2. budget \div price > 0
    BY DEF Quantity
<1> HIDE DEF budget
<1>3. budget \div price <= budget
    BY <1>1, <1>2
<1>4. QED
    BY <1>1, <1>3 DEF Quantity, budget

\* A trade that is through: position, cash and fills agree again, and the loop the
\* order came from knows of it.
LEMMA TradeDone ==
    ASSUME Typed, NEW r \in Runs, Serial(r), pc[r] \in Busy, Created(r),
           UNCHANGED <<reset, todo>>,
           \A p \in todo[r] : opened'[p.symbol] = opened[p.symbol],
           order[r].have = qty[order[r].key.symbol],
           qty' = [qty EXCEPT ![order[r].key.symbol] = NewQty(order[r])],
           InitialCash + fills'.cash = cash',
           fills'.shares = [qty EXCEPT ![order[r].key.symbol] = @ + SignedQty(order[r])]
    PROVE  Serial(r)'
<1> DEFINE o == order[r]
           s == o.key.symbol
<1>1. /\ qty' = [qty EXCEPT ![s] = @ + SignedQty(o)]
      /\ IsFiniteSet(Holding') /\ PositionLimit'
      /\ \A x \in Symbols : qty'[x] <= CashPerTrade
      /\ o.side = "BUY" => Holding' = Holding \cup {s}
    BY TradeFacts
<1>2. o.side \in {"BUY", "SELL"} /\ s \in Symbols
    BY OrderFacts DEF Typed, Orders
<1>3. /\ pc'[r] = IF o.side = "BUY" THEN "opens" ELSE "exits"
      /\ o.side = "BUY" => held'[r] = held[r] \cup {s}
    BY DEF Created, Leave, Goto, Typed, TypeOK
<1>4. o.side = "BUY" => todo'[r] = {} /\ held'[r] = Holding'
    BY <1>1, <1>3 DEF Serial, ReadIsTrue
<1>5. \A p \in todo'[r] : p.qty = qty'[p.symbol] /\ p.opened = opened'[p.symbol]
    <2>1. CASE o.side = "BUY"
        BY <1>4, <2>1
    <2>2. CASE o.side = "SELL"
        <3>1. \A p \in todo[r] : p.symbol # s
            BY <2>2 DEF Serial, ReadIsTrue
        <3>2. \A p \in todo[r] : p.symbol \in Symbols
            BY DEF Typed, TypeOK, Positions
        <3>3. \A p \in todo[r] : qty'[p.symbol] = qty[p.symbol]
            BY <3>1, <3>2 DEF Typed, TypeOK
        <3>4. QED
            BY <3>3 DEF Serial, ReadIsTrue
    <2>3. QED
        BY <1>2, <2>1, <2>2
<1>6. ReadIsTrue(r)'
    BY <1>3, <1>4, <1>5 DEF ReadIsTrue, Busy, Writing
<1>7. Booked(r)'
    BY <1>1, <1>3 DEF Booked
<1>8. QED
    BY <1>1, <1>6, <1>7 DEF Serial

\* A step that writes no table, before an order has written any.
LEMMA SerialFrame ==
    ASSUME Typed, NEW r \in Runs, Serial(r), UNCHANGED tables, UNCHANGED reset,
           pc[r] \notin {"cash", "position", "update"},
           pc'[r] \notin {"cash", "position", "update"},
           ReadIsTrue(r)'
    PROVE  Serial(r)'
<1>1. Holding' = Holding
    BY DEF Holding, tables
<1>2. QED
    BY <1>1 DEF Serial, Booked, PositionLimit, tables

\* The order that is not created leaves the loop as it found it.
LEMMA SkipReads ==
    ASSUME Typed, NEW r \in Runs, Serial(r), pc[r] \in Busy, Skip(r)
    PROVE  ReadIsTrue(r)'
<1>1. pc'[r] = IF order[r].side = "BUY" THEN "opens" ELSE "exits"
    BY DEF Skip, Leave, Goto, Typed, TypeOK
<1>2. Holding' = Holding /\ UNCHANGED <<todo, held, qty, opened>>
    BY DEF Skip, tables, scans, Holding
<1>3. QED
    BY <1>1, <1>2 DEF ReadIsTrue, Serial, Busy, Writing

\* The same deal at another stage.
LEMMA SameDeal ==
    ASSUME NEW o, NEW n, n.side = o.side, n.qty = o.qty, n.price = o.price, n.cash = o.cash
    PROVE  Paid(n) = Paid(o) /\ SignedQty(n) = SignedQty(o)
BY DEF Paid, Signed, Worth, SignedQty

LEMMA SerialStep ==
    ASSUME Typed, Tickets, NEW r \in Runs, Serial(r), Step(r), Undisturbed'
    PROVE  Serial(r)'
<1> USE DEF Typed
<1> DEFINE o == order[r]
           s == o.key.symbol
<1>0. /\ qty \in [Symbols -> Nat] /\ opened \in [Symbols -> 0..MaxDay]
      /\ todo[r] \subseteq Positions
      /\ pc[r] \in Busy => o \in Orders /\ s \in Symbols
    BY OrderFacts DEF TypeOK
<1>1. CASE Start(r)
    <2>1. UNCHANGED tables /\ UNCHANGED reset /\ pc[r] = "idle" /\ pc'[r] = "exits"
          /\ todo'[r] = {[symbol |-> x, qty |-> qty[x], opened |-> opened[x]] : x \in Holding}
        BY <1>1 DEF Start, Goto, rest, TypeOK
    <2>2. ReadIsTrue(r)'
        BY <2>1 DEF ReadIsTrue, tables, Busy, Writing
    <2>3. QED
        BY <2>1, <2>2, SerialFrame
<1>2. CASE \E p \in todo[r], tag \in Tags \ Signals, price \in Prices : Exit(r, p, tag, price)
    <2> PICK p \in todo[r], tag \in Tags \ Signals, price \in Prices : Exit(r, p, tag, price)
        BY <1>2
    <2>1. UNCHANGED tables /\ UNCHANGED reset /\ pc[r] = "exits" /\ pc'[r] = "check"
          /\ todo'[r] = todo[r] \ {p}
        BY DEF Exit, Goto, rest, TypeOK
    <2>2. order'[r] = NewOrder([symbol |-> p.symbol, tag |-> tag, date |-> day], "SELL", p.qty, price)
        BY DEF Exit, TypeOK
    <2>3. order'[r].key.symbol = p.symbol /\ order'[r].side = "SELL" /\ order'[r].qty = p.qty
        BY <2>2 DEF NewOrder
    <2>4. p.qty = qty[p.symbol] /\ p.opened = opened[p.symbol]
        BY DEF Serial, ReadIsTrue
    <2>5. ASSUME NEW q \in todo[r], q.symbol = p.symbol PROVE q = p
        <3>1. q.qty = p.qty /\ q.opened = p.opened
            BY <2>4, <2>5 DEF Serial, ReadIsTrue
        <3>2. q \in Positions /\ p \in Positions
            BY <1>0
        <3>3. QED
            BY <2>5, <3>1, <3>2 DEF Positions
    <2>6. \A q \in todo'[r] : q.symbol # p.symbol /\ q.qty = qty[q.symbol] /\ q.opened = opened[q.symbol]
        BY <2>1, <2>5 DEF Serial, ReadIsTrue
    <2>7. ReadIsTrue(r)'
        BY <2>1, <2>3, <2>4, <2>6 DEF ReadIsTrue, tables, Busy, Writing
    <2>8. QED
        BY <2>1, <2>7, SerialFrame
<1>3. CASE ExitsDone(r)
    <2>1. UNCHANGED tables /\ UNCHANGED reset /\ pc[r] = "exits" /\ todo'[r] = {}
          /\ (pc'[r] = "idle" \/ (pc'[r] = "opens" /\ held'[r] = Holding))
        BY <1>3 DEF ExitsDone, Goto, rest, TypeOK
    <2>2. Holding' = Holding
        BY <2>1 DEF Holding, tables
    <2>3. ReadIsTrue(r)'
        BY <2>1, <2>2 DEF ReadIsTrue, Busy, Writing
    <2>4. QED
        BY <2>1, <2>3, SerialFrame
<1>4. CASE \E x \in Symbols, signal \in Signals, date \in Days, price \in Prices :
              Open(r, x, signal, date, price)
    <2> PICK x \in Symbols, signal \in Signals, date \in Days, price \in Prices :
            Open(r, x, signal, date, price)
        BY <1>4
    <2>1. /\ UNCHANGED tables /\ UNCHANGED reset /\ UNCHANGED <<todo, held>>
          /\ pc[r] = "opens" /\ pc'[r] = "check"
          /\ Cardinality(held[r]) < MaxPositions /\ x \notin held[r]
        BY DEF Open, Room, Goto, rest, scans, TypeOK
    <2>2. order'[r] = NewOrder([symbol |-> x, tag |-> signal, date |-> date], "BUY", Quantity(price), price)
        BY DEF Open, TypeOK
    <2>3. order'[r].key.symbol = x /\ order'[r].side = "BUY" /\ order'[r].qty = Quantity(price)
        BY <2>2 DEF NewOrder
    <2>4. Quantity(price) <= CashPerTrade
        BY QuantityBound DEF Open, TypeOK
    <2>5. Holding' = Holding
        BY <2>1 DEF Holding, tables
    <2>6. ReadIsTrue(r)'
        BY <2>1, <2>3, <2>4, <2>5 DEF ReadIsTrue, Serial, Busy, Writing
    <2>7. QED
        BY <2>1, <2>6, SerialFrame
<1>5. CASE OpensDone(r)
    <2>1. UNCHANGED tables /\ UNCHANGED reset /\ UNCHANGED todo /\ pc[r] = "opens" /\ pc'[r] = "idle"
        BY <1>5 DEF OpensDone, Goto, rest, TypeOK
    <2>2. ReadIsTrue(r)'
        BY <2>1 DEF ReadIsTrue, Serial, Busy, Writing
    <2>3. QED
        BY <2>1, <2>2, SerialFrame
<1>6. CASE Skip(r) /\ UNCHANGED rest /\ pc[r] \in {"check", "read", "insert", "fill", "commit"}
    <2>1. UNCHANGED tables /\ UNCHANGED reset /\ pc'[r] \in Loops /\ pc[r] \in Busy
        BY <1>6, LeaveFacts DEF Skip, rest, Busy
    <2>2. QED
        BY <1>6, <2>1, SkipReads, SerialFrame DEF Loops
<1>7. CASE Check(r) /\ ~Skip(r)
    <2>1. UNCHANGED tables /\ UNCHANGED reset /\ UNCHANGED <<todo, held, order>>
          /\ pc[r] = "check" /\ pc'[r] = "read"
        BY <1>7 DEF Check, Goto, rest, scans, TypeOK
    <2>2. ReadIsTrue(r)'
        BY <2>1 DEF ReadIsTrue, Serial, Busy, Writing, tables, Holding
    <2>3. QED
        BY <2>1, <2>2, SerialFrame
<1>8. CASE Read(r) /\ ~Skip(r)
    <2>1. UNCHANGED tables /\ UNCHANGED reset /\ UNCHANGED <<todo, held>>
          /\ pc[r] = "read" /\ pc'[r] \in {"insert", "commit"}
        BY <1>8 DEF Read, Goto, rest, scans, TypeOK
    <2>2. order'[r] = [o EXCEPT !.cash = cash, !.have = qty[s], !.row = opened[s] # 0]
        BY <1>8, <1>0, <2>1 DEF Read, TypeOK, Busy
    <2>3. /\ order'[r].key = o.key /\ order'[r].side = o.side /\ order'[r].qty = o.qty
          /\ order'[r].cash = cash /\ order'[r].have = qty[s]
        BY <1>0, <2>1, <2>2 DEF Orders, Busy
    <2>4. ReadIsTrue(r)'
        BY <2>1, <2>3 DEF ReadIsTrue, Serial, Busy, Writing, tables, Holding
    <2>5. QED
        BY <2>1, <2>4, SerialFrame
<1>9. CASE Insert(r) /\ ~Skip(r)
    <2>1. UNCHANGED <<cash, qty, opened, fills, reset, todo, held, order>>
          /\ pc[r] = "insert" /\ pc'[r] = "fill"
        BY <1>9 DEF Insert, Goto, rest, scans, TypeOK
    <2>2. QED
        BY <2>1 DEF Serial, ReadIsTrue, Booked, PositionLimit, Holding, Busy, Writing
<1>10. CASE Fill(r) /\ ~Skip(r)
    <2>1. UNCHANGED <<cash, qty, opened, reset, todo, held, order>>
          /\ pc[r] = "fill" /\ pc'[r] = "cash" /\ AddFill(o)
        BY <1>10 DEF Fill, Goto, rest, scans, TypeOK
    <2>2. o \in Orders /\ Signed(o) \in Int /\ SignedQty(o) \in Int
        BY <1>0, <2>1, OrderFacts DEF Busy
    <2>3. o.cash = cash /\ InitialCash + fills.cash = cash /\ fills.shares = qty
        BY <2>1 DEF Serial, ReadIsTrue, Booked, Writing
    <2>4. fills'.cash = fills.cash + Signed(o) /\ fills'.shares = [qty EXCEPT ![s] = @ + SignedQty(o)]
        BY <2>1, <2>3 DEF AddFill, TypeOK
    <2>5. InitialCash + fills'.cash = Paid(o)
        BY <2>2, <2>3, <2>4 DEF Paid, TypeOK
    <2>6. Booked(r)'
        BY <2>1, <2>4, <2>5 DEF Booked, Paid, Signed, Worth, SignedQty
    <2>7. QED
        BY <2>1, <2>6 DEF Serial, ReadIsTrue, PositionLimit, Holding, Busy, Writing
<1>11. CASE WriteCash(r)
    <2>1. UNCHANGED <<qty, opened, fills, reset, todo, held, order>>
          /\ pc[r] = "cash" /\ pc'[r] = "position" /\ cash' = Paid(o)
        BY <1>11 DEF WriteCash, Goto, rest, scans, TypeOK
    <2>2. Booked(r)'
        BY <2>1 DEF Serial, Booked, Paid, Signed, Worth, SignedQty
    <2>3. QED
        BY <2>1, <2>2 DEF Serial, ReadIsTrue, PositionLimit, Holding, Busy, Writing
<1>12. CASE ReadPosition(r)
    <2>1. UNCHANGED <<cash, qty, fills, reset, todo, held>>
          /\ pc[r] = "position" /\ pc'[r] = "update"
          /\ order'[r] = [o EXCEPT !.have = qty[s]]
          /\ opened' = IF opened[s] = 0 THEN [opened EXCEPT ![s] = o.at] ELSE opened
        BY <1>12 DEF ReadPosition, Goto, rest, scans, TypeOK
    <2>2. o \in Orders /\ s \in Symbols /\ o.at \in Days
        BY <1>0, <2>1, OrderFacts DEF Busy
    <2>3. /\ order'[r].key = o.key /\ order'[r].side = o.side /\ order'[r].qty = o.qty
          /\ order'[r].price = o.price /\ order'[r].cash = o.cash /\ order'[r].have = qty[s]
        BY <2>1, <2>2 DEF Orders
    <2>4. opened'[s] # 0 /\ \A x \in Symbols \ {s} : opened'[x] = opened[x]
        BY <1>0, <2>1, <2>2 DEF Days
    <2>5. \A p \in todo[r] : opened'[p.symbol] = opened[p.symbol]
        <3>1. \A p \in todo[r] : p.symbol \in Symbols /\ p.opened # 0 /\ p.opened = opened[p.symbol]
            BY <1>0 DEF Serial, ReadIsTrue, Positions, Days
        <3>2. QED
            BY <2>1, <2>4, <3>1
    <2>6. ReadIsTrue(r)'
        BY <2>1, <2>3, <2>4, <2>5 DEF Serial, ReadIsTrue, Holding, Busy, Writing
    <2>7. Paid(order'[r]) = Paid(o) /\ SignedQty(order'[r]) = SignedQty(o)
        BY <2>3, SameDeal
    <2>8. Booked(r)'
        BY <2>1, <2>3, <2>7 DEF Serial, Booked, Paid, Signed, Worth, SignedQty
    <2>9. QED
        BY <2>1, <2>6, <2>8 DEF Serial, PositionLimit, Holding
<1>13. CASE UpdatePosition(r)
    <2>1. UNCHANGED <<cash, opened, fills, reset, todo>> /\ pc[r] = "update" /\ Created(r)
        BY <1>13 DEF UpdatePosition, rest
    <2>2. o.have = qty[s] /\ opened[s] # 0
        BY <2>1 DEF Serial, ReadIsTrue
    <2>3. qty' = [qty EXCEPT ![s] = NewQty(o)]
        BY <1>13, <2>2 DEF UpdatePosition
    <2>4. /\ InitialCash + fills'.cash = cash'
          /\ fills'.shares = [qty EXCEPT ![s] = @ + SignedQty(o)]
        BY <2>1 DEF Serial, Booked
    <2>5. pc[r] \in Busy
        BY <2>1 DEF Busy
    <2> HIDE DEF o, s
    <2>6. QED
        BY <2>1, <2>2, <2>3, <2>4, <2>5, TradeDone DEF o, s
<1>14. CASE Commit(r) /\ ~Skip(r)
    <2>1. /\ pc[r] = "commit" /\ UNCHANGED <<reset, todo>> /\ Created(r) /\ AddFill(o)
          /\ cash' = Paid(o) /\ ~Refused(o)
          /\ qty' = IF NewQty(o) = o.have THEN qty ELSE [qty EXCEPT ![s] = NewQty(o)]
          /\ opened' = IF o.row THEN opened ELSE [opened EXCEPT ![s] = o.at]
        BY <1>14 DEF Commit, rest
    <2>2. o \in Orders /\ s \in Symbols /\ Signed(o) \in Int /\ SignedQty(o) \in Int
        BY <1>0, <2>1, OrderFacts DEF Busy
    <2>3. o.cash = cash /\ o.have = qty[s] /\ InitialCash + fills.cash = cash /\ fills.shares = qty
        BY <2>1 DEF Serial, ReadIsTrue, Booked, Writing
    <2>4. qty' = [qty EXCEPT ![s] = NewQty(o)]
        BY <2>1, <2>2, <2>3, <1>0
    <2>5. fills'.cash = fills.cash + Signed(o) /\ fills'.shares = [qty EXCEPT ![s] = @ + SignedQty(o)]
        BY <2>1, <2>3 DEF AddFill, TypeOK
    <2>6. InitialCash + fills'.cash = cash'
        BY <2>1, <2>2, <2>3, <2>5 DEF Paid, TypeOK
    <2>7. \A p \in todo[r] : opened'[p.symbol] = opened[p.symbol]
        <3>1. \A p \in todo[r] : p.symbol \in Symbols /\ opened[p.symbol] # 0
            BY <1>0 DEF Serial, ReadIsTrue, Positions, Days
        <3>2. ~o.row => opened[s] = 0
            BY <2>1 DEF Refused
        <3>3. QED
            BY <1>0, <2>1, <2>2, <3>1, <3>2
    <2>8. pc[r] \in Busy
        BY <2>1 DEF Busy
    <2> HIDE DEF o, s
    <2>9. QED
        BY <2>1, <2>3, <2>4, <2>5, <2>6, <2>7, <2>8, TradeDone DEF o, s
<1>15. CASE Crash(r)
    <2>1. UNCHANGED tables /\ UNCHANGED reset /\ pc'[r] = "idle" /\ todo'[r] = {}
          /\ crashes' = crashes + 1
        BY <1>15 DEF Crash, Goto, TypeOK
    <2>2. Backend = "mysql"
        BY <2>1 DEF Undisturbed, TypeOK
    <2>3. pc[r] \notin {"cash", "position", "update"}
        BY <2>2 DEF Tickets
    <2>4. ReadIsTrue(r)'
        BY <2>1 DEF ReadIsTrue, Busy, Writing
    <2>5. QED
        BY <2>1, <2>3, <2>4, SerialFrame
<1>16. QED
    BY <1>1, <1>2, <1>3, <1>4, <1>5, <1>6, <1>7, <1>8, <1>9, <1>10, <1>11, <1>12, <1>13, <1>14, <1>15
    DEF Step, Check, Read, Insert, Fill, Commit

LEMMA SerialNext ==
    ASSUME NEW run, Runs = {run}
    PROVE  Typed /\ Tickets /\ Serial(run) /\ Undisturbed' /\ [Next]_vars => Serial(run)'
<1> SUFFICES ASSUME Typed, Tickets, Serial(run), Undisturbed', [Next]_vars PROVE Serial(run)'
    OBVIOUS
<1>1. ASSUME NEW r \in Runs, Step(r) PROVE Serial(run)'
    BY <1>1, SerialStep
<1>2. CASE ResetMySQL \/ ResetSQLite
    BY <1>2 DEF ResetMySQL, ResetSQLite, Undisturbed, Serial, Typed, TypeOK
<1>3. CASE Midnight \/ UNCHANGED vars
    <2>1. UNCHANGED <<cash, qty, opened, fills, pc, todo, held, order, reset>>
        BY <1>3 DEF Midnight, vars, tables, scans
    <2>2. QED
        BY <2>1 DEF Serial, ReadIsTrue, Booked, PositionLimit, Holding, Paid, Signed, Worth, SignedQty
<1>4. QED
    BY <1>1, <1>2, <1>3 DEF Next

LEMMA CrashesGrow == TypeOK /\ [Next]_vars => (Undisturbed' => Undisturbed)
<1> SUFFICES ASSUME TypeOK, [Next]_vars PROVE crashes' = crashes \/ crashes' = crashes + 1
    BY ResetsGrow DEF Undisturbed, TypeOK
<1>1. ASSUME NEW r \in Runs, Step(r) PROVE crashes' = crashes \/ crashes' = crashes + 1
    BY <1>1 DEF Step, Start, Exit, ExitsDone, Open, OpensDone, Check, Read, Insert, Fill,
                WriteCash, ReadPosition, UpdatePosition, Commit, Crash, rest
<1>2. QED
    BY <1>1 DEF Next, ResetMySQL, ResetSQLite, Midnight, vars

LEMMA SerialAgrees ==
    ASSUME Typed, NEW run, Runs = {run}, Serial(run)
    PROVE  SerialBook
BY DEF Serial, Booked, SerialBook, FillsPaid, FillsHeld, AtRest

\* One run at a time finds and leaves a book whose cash and positions are those of
\* its fills, within the limit of positions: on MySQL also if runs die, on SQLite
\* until one dies inside an order, and on both until a reset.
THEOREM BookOfOneRun ==
    ASSUME NEW CONSTANT run, Runs = {run}
    PROVE  Spec => [](Undisturbed => SerialBook)
<1> DEFINE Inv == Undisturbed => Tickets /\ Serial(run)
<1>1. Init => Inv
    BY SerialInit DEF Init, Tickets, Pending
<1>2. Typed /\ Inv /\ [Next]_vars => Inv'
    <2>1. Undisturbed' => NoHalfReset'
        BY DEF Undisturbed, NoHalfReset
    <2>2. Typed => TypeOK
        BY DEF Typed
    <2>3. QED
        BY <2>1, <2>2, CrashesGrow, TicketsNext, SerialNext
<1>3. Typed /\ Inv => (Undisturbed => SerialBook)
    BY SerialAgrees
<1> HIDE DEF Inv
<1>4. QED
    BY <1>1, <1>2, <1>3, TypedInit, TypedNext, PTL DEF Spec

-----------------------------------------------------------------------------
(* Every change is one whole trade *)

\* The cash PaperBook shows: between the two writes of an order, that from before.
Shown == IF Between = {} THEN cash ELSE order[CHOOSE r \in Between : TRUE].cash

LEMMA ShownCash ==
    ASSUME NEW run, Runs = {run}
    PROVE  /\ Shown = IF pc[run] \in {"position", "update"} THEN order[run].cash ELSE cash
           /\ Shown' = IF pc'[run] \in {"position", "update"} THEN order'[run].cash ELSE cash'
<1>1. Between = IF pc[run] \in {"position", "update"} THEN {run} ELSE {}
    BY DEF Between
<1>2. Between' = IF pc'[run] \in {"position", "update"} THEN {run} ELSE {}
    BY DEF Between
<1>3. (CHOOSE r \in {run} : TRUE) = run
    OBVIOUS
<1>4. QED
    BY <1>1, <1>2, <1>3 DEF Shown

\* What an order has moved when it is through is a purchase or a sale of the book.
LEMMA OneTrade ==
    ASSUME Typed, Solvent', NEW run, Runs = {run}, Serial(run), pc[run] \in Busy,
           order[run].have = qty[order[run].key.symbol],
           qty' = [qty EXCEPT ![order[run].key.symbol] = NewQty(order[run])],
           Shown = order[run].cash, Shown' = cash', cash' = Paid(order[run])
    PROVE  Book!Next
<1> DEFINE o == order[run]
           s == o.key.symbol
           n == o.qty
           p == o.price
<1>1. o \in Orders /\ s \in Symbols /\ p \in Prices /\ o.side \in {"BUY", "SELL"}
    BY OrderFacts DEF Typed, Orders
<1>2. o.cash \in Int /\ n \in Nat /\ n >= 1 /\ p \in Nat /\ n * p \in Nat
    <2>1. o.cash \in Int /\ n \in Nat \ {0}
        BY <1>1 DEF Orders
    <2>2. \A i, j \in Nat : i * j \in Nat
        OBVIOUS
    <2>3. p \in Nat
        BY <1>1
    <2>4. QED
        BY <2>1, <2>2, <2>3
<1>3. n \in 1..(InitialCash + CashPerTrade)
    <2>1. n <= CashPerTrade
        BY <1>1 DEF Serial, ReadIsTrue
    <2>2. QED
        BY <1>2, <2>1
<1>4. qty' = [qty EXCEPT ![s] = @ + SignedQty(o)]
    BY TradeFacts
<1>5. Shown' >= 0 /\ Shown' = o.cash + Signed(o)
    BY DEF Solvent, Paid
<1>6. CASE o.side = "BUY"
    <2>1. Signed(o) = -(n * p + Fee) /\ SignedQty(o) = n
        BY <1>6 DEF Signed, Worth, SignedQty
    <2>2. n * p + Fee <= Shown /\ Shown' = Shown - (n * p + Fee)
        BY <1>2, <1>5, <2>1
    <2>3. qty' = [qty EXCEPT ![s] = @ + n]
        BY <1>4, <2>1
    <2>4. Book!Buy(s, n, p)
        BY <2>2, <2>3 DEF Book!Buy, Shown
    <2>5. QED
        BY <1>1, <1>3, <2>4 DEF Book!Next
<1>7. CASE o.side = "SELL"
    <2>1. Signed(o) = n * p - Fee /\ SignedQty(o) = -n /\ n = qty[s]
        BY <1>7 DEF Signed, Worth, SignedQty, Serial, ReadIsTrue
    <2>2. n <= qty[s] /\ Shown' = Shown + n * p - Fee
        BY <1>2, <1>5, <2>1
    <2>3. qty' = [qty EXCEPT ![s] = @ - n]
        BY <1>1, <1>2, <1>4, <2>1 DEF Typed, TypeOK
    <2>4. Book!Sell(s, n, p)
        BY <2>2, <2>3 DEF Book!Sell, Shown
    <2>5. QED
        BY <1>1, <1>3, <2>4 DEF Book!Next
<1>8. QED
    BY <1>1, <1>6, <1>7

LEMMA TradeStep ==
    ASSUME Typed, Tickets, NEW run, Runs = {run}, Serial(run), Solvent',
           Undisturbed', Step(run)
    PROVE  Book!Next \/ UNCHANGED <<Shown, qty>>
<1> USE DEF Typed
<1> DEFINE o == order[run]
           s == o.key.symbol
<1>0. pc[run] \in Busy => o \in Orders
    OBVIOUS
<1>1. CASE UNCHANGED <<cash, qty>> /\ pc[run] \notin {"position", "update"}
           /\ pc'[run] \notin {"position", "update"}
    BY <1>1, ShownCash
<1>2. CASE WriteCash(run)
    <2>1. UNCHANGED <<qty, order>> /\ pc[run] = "cash" /\ pc'[run] = "position"
        BY <1>2 DEF WriteCash, Goto, TypeOK
    <2>2. o.cash = cash
        BY <2>1 DEF Serial, ReadIsTrue, Writing
    <2>3. QED
        BY <2>1, <2>2, ShownCash
<1>3. CASE ReadPosition(run)
    <2>1. UNCHANGED qty /\ pc[run] = "position" /\ pc'[run] = "update"
          /\ order'[run] = [o EXCEPT !.have = qty[s]]
        BY <1>3 DEF ReadPosition, Goto, TypeOK
    <2>2. order'[run].cash = o.cash
        BY <1>0, <2>1 DEF Orders, Busy
    <2>3. QED
        BY <2>1, <2>2, ShownCash
<1>4. CASE UpdatePosition(run)
    <2>1. UNCHANGED cash /\ pc[run] = "update" /\ pc'[run] \in Loops
        BY <1>4, LeaveFacts DEF UpdatePosition, Created
    <2>2. o.have = qty[s] /\ opened[s] # 0 /\ cash = Paid(o)
        BY <2>1 DEF Serial, ReadIsTrue, Booked
    <2>3. qty' = [qty EXCEPT ![s] = NewQty(o)]
        BY <1>4, <2>2 DEF UpdatePosition
    <2>4. Shown = o.cash /\ Shown' = cash'
        BY <2>1, ShownCash DEF Loops
    <2>5. pc[run] \in Busy
        BY <2>1 DEF Busy
    <2> HIDE DEF o, s
    <2>6. QED
        BY <2>1, <2>2, <2>3, <2>4, <2>5, OneTrade DEF o, s
<1>5. CASE Commit(run) /\ ~Skip(run)
    <2>1. pc[run] = "commit" /\ pc'[run] \in Loops /\ cash' = Paid(o)
          /\ qty' = IF NewQty(o) = o.have THEN qty ELSE [qty EXCEPT ![s] = NewQty(o)]
        BY <1>5, LeaveFacts DEF Commit, Created
    <2>2. o.have = qty[s] /\ o.cash = cash
        BY <2>1 DEF Serial, ReadIsTrue, Writing
    <2>3. qty' = [qty EXCEPT ![s] = NewQty(o)]
        BY <1>0, <2>1, <2>2, OrderFacts DEF TypeOK, Busy
    <2>4. Shown = o.cash /\ Shown' = cash'
        BY <2>1, <2>2, ShownCash DEF Loops
    <2>5. pc[run] \in Busy
        BY <2>1 DEF Busy
    <2> HIDE DEF o, s
    <2>6. QED
        BY <2>1, <2>2, <2>3, <2>4, <2>5, OneTrade DEF o, s
<1>6. CASE Skip(run) /\ pc[run] \in {"check", "read", "insert", "fill", "commit"}
    <2>1. UNCHANGED <<cash, qty>> /\ pc'[run] \in Loops
        BY <1>6, LeaveFacts DEF Skip, tables
    <2>2. QED
        BY <1>1, <1>6, <2>1 DEF Loops
<1>7. CASE Start(run) \/ ExitsDone(run) \/ OpensDone(run)
    BY <1>1, <1>7 DEF Start, ExitsDone, OpensDone, Goto, TypeOK, tables
<1>8. CASE Crash(run)
    <2>1. Backend = "mysql"
        BY <1>8 DEF Crash, Undisturbed, TypeOK
    <2>2. pc[run] \notin {"position", "update"}
        BY <2>1 DEF Tickets
    <2>3. QED
        BY <1>1, <1>8, <2>2 DEF Crash, Goto, TypeOK, tables
<1>9. CASE \E p \in todo[run], tag \in Tags \ Signals, price \in Prices : Exit(run, p, tag, price)
    BY <1>1, <1>9 DEF Exit, Goto, TypeOK, tables
<1>10. CASE \E x \in Symbols, signal \in Signals, date \in Days, price \in Prices :
              Open(run, x, signal, date, price)
    BY <1>1, <1>10 DEF Open, Goto, TypeOK, tables
<1>11. CASE (Check(run) \/ Read(run) \/ Insert(run) \/ Fill(run)) /\ ~Skip(run)
    BY <1>1, <1>11 DEF Check, Read, Insert, Fill, Goto, TypeOK, tables
<1>12. QED
    BY <1>2, <1>3, <1>4, <1>5, <1>6, <1>7, <1>8, <1>9, <1>10, <1>11
    DEF Step, Check, Read, Insert, Fill, Commit

LEMMA BookStep ==
    ASSUME NEW run, Runs = {run}
    PROVE  Typed /\ Tickets /\ Serial(run) /\ Solvent' /\ Undisturbed' /\ [Next]_vars
              => Book!Next \/ UNCHANGED <<Shown, qty>>
<1> SUFFICES ASSUME Typed, Tickets, Serial(run), Solvent', Undisturbed', [Next]_vars
             PROVE  Book!Next \/ UNCHANGED <<Shown, qty>>
    OBVIOUS
<1>1. ASSUME NEW r \in Runs, Step(r) PROVE Book!Next \/ UNCHANGED <<Shown, qty>>
    BY <1>1, TradeStep
<1>2. CASE ResetMySQL \/ ResetSQLite
    BY <1>2 DEF ResetMySQL, ResetSQLite, Undisturbed, Serial, Typed, TypeOK
<1>3. CASE Midnight \/ UNCHANGED vars
    BY <1>3, ShownCash DEF Midnight, vars, tables, scans
<1>4. QED
    BY <1>1, <1>2, <1>3 DEF Next

LEMMA BoundsNext ==
    TypeOK /\ resets <= MaxResets /\ crashes <= MaxCrashes /\ [Next]_vars
        => resets' <= MaxResets /\ crashes' <= MaxCrashes
<1> SUFFICES ASSUME TypeOK, resets <= MaxResets, crashes <= MaxCrashes, [Next]_vars
             PROVE  resets' <= MaxResets /\ crashes' <= MaxCrashes
    OBVIOUS
<1>1. ASSUME NEW r \in Runs, Step(r) PROVE resets' = resets /\ crashes' <= MaxCrashes
    <2>1. CASE Crash(r)
        BY <1>1, <2>1 DEF Crash, TypeOK
    <2>2. CASE ~Crash(r)
        BY <1>1, <2>2 DEF Step, Start, Exit, ExitsDone, Open, OpensDone, Check, Read, Insert,
                          Fill, WriteCash, ReadPosition, UpdatePosition, Commit, rest
    <2>3. QED
        BY <2>1, <2>2
<1>2. QED
    BY <1>1 DEF Next, ResetMySQL, ResetSQLite, Midnight, vars, TypeOK

\* A run alone, without a reset and on SQLite without a crash, implements PaperBook:
\* whoever reads cash and positions sees whole trades, each paid for and covered.
THEOREM OneRunTradesWhole ==
    ASSUME NEW CONSTANT run, Runs = {run},
           MaxResets = 0, Backend = "mysql" \/ MaxCrashes = 0
    PROVE  Spec => WholeTrades
<1> DEFINE Bounded == resets <= MaxResets /\ crashes <= MaxCrashes
           Inv == Typed /\ Bounded /\ Tickets /\ Serial(run) /\ Solvent
<1>1. Typed /\ Bounded => Undisturbed
    BY DEF Typed, TypeOK, Undisturbed
<1>2. Init => Inv
    BY TypedInit, SerialInit DEF Init, Tickets, Pending, Solvent, Writing
<1>3. Inv /\ [Next]_vars => Inv' /\ Undisturbed'
    <2> SUFFICES ASSUME Inv, [Next]_vars PROVE Inv' /\ Undisturbed'
        OBVIOUS
    <2>1. Typed' /\ Solvent' /\ Bounded'
        BY TypedNext, SolventNext, BoundsNext DEF Typed
    <2>2. Undisturbed'
        BY <2>1 DEF Typed, TypeOK, Undisturbed
    <2>3. Tickets'
        BY <2>2, TicketsNext DEF Undisturbed, NoHalfReset
    <2>4. QED
        BY <2>1, <2>2, <2>3, SerialNext
<1>4. Init => Book!Init
    BY DEF Init, Book!Init, Between
<1>5. Inv /\ [Next]_vars => [Book!Next]_<<Shown, qty>>
    BY <1>3, BookStep
<1> HIDE DEF Inv
<1>6. QED
    BY <1>2, <1>3, <1>4, <1>5, PTL DEF Spec, WholeTrades, Book!Spec, Shown
=============================================================================
