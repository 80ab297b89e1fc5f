------------------------------ MODULE PaperLedger ------------------------------
(***************************************************************************)
(* The paper account: application/paper_trading_service.py on top of       *)
(* repositories/paper_trading_repo.py.                                     *)
(*                                                                         *)
(* A run of a strategy first sells what its exit rules name, then buys the *)
(* candidates of the scan; an editor can evaluate the exits alone, and an  *)
(* administrator can reset the account.  Runs are tasks of several worker  *)
(* processes and share one account.                                        *)
(*                                                                         *)
(* With SQLite every statement of create_filled_order and reset_account    *)
(* commits by itself.  With MySQL each of them is one transaction under    *)
(* REPEATABLE READ: it reads the rows as of its first read and writes      *)
(* absolute values, and only the unique keys of paper_orders and           *)
(* paper_positions stop two transactions.  `fills` holds the totals of     *)
(* the rows of paper_fills.                                                *)
(***************************************************************************)
EXTENDS Integers, FiniteSets

CONSTANTS
    Backend,       \* "sqlite" or "mysql"
    Runs, NoOrder, \* Runs: processes that scan and evaluate exits
    Symbols, Signals, Reasons, \* Reasons: of the exit rules, but for the age
    T0,            \* symbols that may be sold on the day of the purchase
    Prices, Fee,
    InitialCash, CashPerTrade, MaxPositions, MaxDailyOpens, MaxHoldingDays,
    MaxDay,        \* bound: days
    MaxCrashes,    \* bound: processes that die
    MaxResets      \* bound: resets of the account

Tags == Signals \cup Reasons \cup {"max_holding_days"}
Days == 1..MaxDay
\* Idempotency keys.  The tag of a purchase is its signal, of a sale its reason.
Keys == [symbol : Symbols, tag : Tags, date : Days]
Positions == [symbol : Symbols, qty : Nat \ {0}, opened : Days]
\* An order under way: `at` is filled_at; then the cash and the position row it
\* has read.
Orders == [key : Keys, side : {"BUY", "SELL"}, qty : Nat \ {0}, price : Prices, at : Days,
           cash : Int, have : Nat, row : BOOLEAN]

ASSUME BackendAssumption == Backend \in {"sqlite", "mysql"}
ASSUME MoneyAssumption ==
    /\ Prices \subseteq Nat \ {0} /\ Fee \in Nat /\ \A p \in Prices : Fee <= p
    /\ InitialCash \in Nat /\ CashPerTrade \in Nat
ASSUME LimitAssumption ==
    /\ MaxPositions \in Nat /\ MaxDailyOpens \in Nat /\ MaxHoldingDays \in Nat
    /\ MaxDay \in Nat \ {0} /\ MaxCrashes \in Nat /\ MaxResets \in Nat
ASSUME NullAssumption == NoOrder \notin Orders

VARIABLES
    cash,      \* paper_accounts.cash
    qty,       \* paper_positions: symbol -> quantity
    opened,    \* paper_positions: symbol -> day of opened_at, 0 without a row
    orders,    \* idempotency keys of paper_orders
    fills,     \* what the rows of paper_fills add up to
    day,
    pc,        \* run -> where it is
    todo,      \* run -> the positions whose exits it evaluates, as it read them
    held,      \* run -> existing_symbols
    opens,     \* run -> created_open_count
    order,     \* run -> the order it creates
    reset,     \* the statement a SQLite reset is at
    moved,     \* history: key -> how often it has moved cash since the reset
    lastBuy,   \* history: symbol -> day of the last purchase
    crashes, resets

tables == <<cash, qty, opened, orders, fills>>
scans == <<todo, held, opens>>
rest == <<day, reset, crashes, resets>>
vars == <<cash, qty, opened, orders, fills, day, pc, todo, held, opens, order,
          reset, moved, lastBuy, crashes, resets>>

Lesser(a, b) == IF a <= b THEN a ELSE b
Worth(o) == o.qty * o.price
Signed(o) == IF o.side = "BUY" THEN -(Worth(o) + Fee) ELSE Worth(o) - Fee
\* A slip: a sale of more than is left.
NewQty(o) == IF o.side = "BUY" THEN o.have + o.qty ELSE o.have - Lesser(o.have, o.qty)
\* A slip: the side of the fill is lost.
SlipSignedQty(o) == o.qty
SignedQty(o) == IF o.side = "BUY" THEN o.qty ELSE -o.qty
Holding == {s \in Symbols : qty[s] > 0}

Init ==
    /\ cash = InitialCash
    /\ qty = [s \in Symbols |-> 0] /\ opened = [s \in Symbols |-> 0]
    /\ orders = {}
    /\ fills = [cash |-> 0, shares |-> [s \in Symbols |-> 0]]
    /\ day = 1
    /\ pc = [r \in Runs |-> "idle"]
    /\ todo = [r \in Runs |-> {}] /\ held = [r \in Runs |-> {}]
    /\ opens = [r \in Runs |-> 0]
    /\ order = [r \in Runs |-> NoOrder]
    /\ reset = "idle"
    /\ moved = [k \in Keys |-> 0]
    /\ lastBuy = [s \in Symbols |-> 0]
    /\ crashes = 0 /\ resets = 0

-----------------------------------------------------------------------------
(* A run: exits first, then purchases. *)

Goto(r, where) == pc' = [pc EXCEPT ![r] = where]

\* evaluate_exits reads the active positions once.
Start(r) ==
    /\ pc[r] = "idle"
    /\ Goto(r, "exits")
    /\ todo' = [todo EXCEPT ![r] = {[symbol |-> s, qty |-> qty[s], opened |-> opened[s]] : s \in Holding}]
    /\ UNCHANGED <<tables, rest, held, opens, order, moved, lastBuy>>

\* A slip: forgets t0_sell_blocked.
SlipMaySell(p, tag) == tag = "max_holding_days" => day - p.opened >= MaxHoldingDays
\* holding_days, and the age as the last reason.
MaySell(p, tag) ==
    /\ day > p.opened \/ p.symbol \in T0
    /\ tag = "max_holding_days" => day - p.opened >= MaxHoldingDays

NewOrder(key, side, n, price) ==
    [key |-> key, side |-> side, qty |-> n, price |-> price, at |-> day, cash |-> 0, have |-> 0, row |-> FALSE]

\* One position an exit rule names; the others are passed over.
Exit(r, p, tag, price) ==
    /\ pc[r] = "exits" /\ p \in todo[r] /\ MaySell(p, tag)
    /\ Goto(r, "check")
    /\ todo' = [todo EXCEPT ![r] = @ \ {p}]
    /\ order' = [order EXCEPT ![r] =
                   NewOrder([symbol |-> p.symbol, tag |-> tag, date |-> day], "SELL", p.qty, price)]
    /\ UNCHANGED <<tables, rest, held, opens, moved, lastBuy>>

\* The exits are through: an evaluation ends, a run goes on to its candidates.
ExitsDone(r) ==
    /\ pc[r] = "exits"
    /\ todo' = [todo EXCEPT ![r] = {}]
    /\ \/ Goto(r, "idle") /\ UNCHANGED <<held, opens>>
       \/ /\ Goto(r, "opens")
          /\ held' = [held EXCEPT ![r] = Holding]
          /\ opens' = [opens EXCEPT ![r] = 0]
    /\ UNCHANGED <<tables, rest, order, moved, lastBuy>>

\* A slip: one position too many.
Room(r) == Cardinality(held[r]) < MaxPositions /\ opens[r] < MaxDailyOpens

\* What the budget buys.
Quantity(price) == Lesser(CashPerTrade, cash) \div price

\* One candidate of the scan, with the trade date its data has.
Open(r, s, signal, date, price) ==
    /\ pc[r] = "opens" /\ Room(r) /\ s \notin held[r] /\ date <= day
    /\ Quantity(price) > 0
    /\ Goto(r, "check")
    /\ order' = [order EXCEPT ![r] =
                   NewOrder([symbol |-> s, tag |-> signal, date |-> date], "BUY", Quantity(price), price)]
    /\ UNCHANGED <<tables, rest, scans, moved, lastBuy>>

OpensDone(r) ==
    /\ pc[r] = "opens"
    /\ Goto(r, "idle")
    /\ held' = [held EXCEPT ![r] = {}]
    /\ opens' = [opens EXCEPT ![r] = 0]
    /\ UNCHANGED <<tables, rest, todo, order, moved, lastBuy>>

-----------------------------------------------------------------------------
(* create_filled_order *)

\* Back to the loop the order came from.
Leave(r) ==
    /\ Goto(r, IF order[r].side = "BUY" THEN "opens" ELSE "exits")
    /\ order' = [order EXCEPT ![r] = NoOrder]

\* The order is not created: its key is known, or an exception skips it.
Skip(r) == Leave(r) /\ UNCHANGED <<tables, scans, moved, lastBuy>>

Created(r) ==
    LET o == order[r]
        buys == o.side = "BUY"
    IN  /\ Leave(r)
        /\ held' = IF buys THEN [held EXCEPT ![r] = @ \cup {o.key.symbol}] ELSE held
        /\ opens' = IF buys THEN [opens EXCEPT ![r] = @ + 1] ELSE opens
        /\ lastBuy' = IF buys THEN [lastBuy EXCEPT ![o.key.symbol] = o.at] ELSE lastBuy

\* order_exists
Check(r) ==
    /\ pc[r] = "check"
    /\ \/ order[r].key \in orders /\ Skip(r)
       \/ /\ order[r].key \notin orders
          /\ Goto(r, "read")
          /\ UNCHANGED <<tables, scans, order, moved, lastBuy>>
    /\ UNCHANGED rest

\* A slip: forgets the fee.
SlipInsufficient(o) == o.side = "BUY" /\ cash - Worth(o) < 0
Insufficient(o) == o.side = "BUY" /\ cash + Signed(o) < 0

\* The account; a MySQL transaction sees the position as of now, too.
Read(r) ==
    LET o == order[r]
    IN  /\ pc[r] = "read"
        /\ \/ Insufficient(o) /\ Skip(r)
           \/ /\ ~Insufficient(o)
              /\ Goto(r, IF Backend = "sqlite" THEN "insert" ELSE "commit")
              /\ order' = [order EXCEPT ![r].cash = cash, ![r].have = qty[o.key.symbol],
                                        ![r].row = opened[o.key.symbol] # 0]
              /\ UNCHANGED <<tables, scans, moved, lastBuy>>
        /\ UNCHANGED rest

\* A slip: no unique key on paper_orders.
SlipTaken(o) == FALSE
Taken(o) == o.key \in orders

\* SQLite: the five writes of an order.
Insert(r) ==
    /\ pc[r] = "insert"
    /\ \/ Taken(order[r]) /\ Skip(r)
       \/ /\ ~Taken(order[r])
          /\ orders' = orders \cup {order[r].key}
          /\ Goto(r, "fill")
          /\ UNCHANGED <<cash, qty, opened, fills, scans, order, moved, lastBuy>>
    /\ UNCHANGED rest

AddFill(o) ==
    fills' = [fills EXCEPT !.cash = @ + Signed(o), !.shares[o.key.symbol] = @ + SignedQty(o)]

\* Reads the order back for its id; a reset may have deleted it.
Fill(r) ==
    /\ pc[r] = "fill"
    /\ \/ order[r].key \notin orders /\ Skip(r)
       \/ /\ order[r].key \in orders
          /\ AddFill(order[r])
          /\ Goto(r, "cash")
          /\ UNCHANGED <<cash, qty, opened, orders, scans, order, moved, lastBuy>>
    /\ UNCHANGED rest

\* A slip: the purchase is not paid for.
SlipPaid(o) == IF o.side = "BUY" THEN o.cash ELSE o.cash + Signed(o)
Paid(o) == o.cash + Signed(o)

WriteCash(r) ==
    /\ pc[r] = "cash"
    /\ cash' = Paid(order[r])
    /\ moved' = [moved EXCEPT ![order[r].key] = @ + 1]
    /\ Goto(r, "position")
    /\ UNCHANGED <<qty, opened, orders, fills, scans, order, lastBuy, rest>>

\* get_position, and the row it lacks.
ReadPosition(r) ==
    LET s == order[r].key.symbol
    IN  /\ pc[r] = "position"
        /\ order' = [order EXCEPT ![r].have = qty[s]]
        /\ opened' = IF opened[s] = 0 THEN [opened EXCEPT ![s] = order[r].at] ELSE opened
        /\ Goto(r, "update")
        /\ UNCHANGED <<cash, qty, orders, fills, scans, moved, lastBuy, rest>>

\* opened_at stays as it is, also when the position is closed.
UpdatePosition(r) ==
    LET o == order[r] IN
    LET s == o.key.symbol
    IN  /\ pc[r] = "update"
        /\ qty' = IF opened[s] = 0 THEN qty ELSE [qty EXCEPT ![s] = NewQty(o)]
        /\ Created(r)
        /\ UNCHANGED <<cash, opened, orders, fills, todo, moved, rest>>

\* MySQL: a unique key is taken, or the row to update is gone.
Refused(o) ==
    \/ Taken(o)
    \/ ~o.row /\ opened[o.key.symbol] # 0
    \/ o.row /\ opened[o.key.symbol] = 0

\* The transaction writes all it has computed; a quantity it has not changed is
\* not written.
Commit(r) ==
    LET o == order[r] IN
    LET s == o.key.symbol
    IN  /\ pc[r] = "commit"
        /\ \/ Refused(o) /\ Skip(r)
           \/ /\ ~Refused(o)
              /\ orders' = orders \cup {o.key}
              /\ AddFill(o)
              /\ cash' = Paid(o)
              /\ moved' = [moved EXCEPT ![o.key] = @ + 1]
              /\ qty' = IF NewQty(o) = o.have THEN qty ELSE [qty EXCEPT ![s] = NewQty(o)]
              /\ opened' = IF o.row THEN opened ELSE [opened EXCEPT ![s] = o.at]
              /\ Created(r)
              /\ UNCHANGED todo
        /\ UNCHANGED rest

-----------------------------------------------------------------------------
(* The world around the runs. *)

NoFills == [cash |-> 0, shares |-> [s \in Symbols |-> 0]]

\* reset_account in one transaction
ResetMySQL ==
    /\ Backend = "mysql" /\ resets < MaxResets
    /\ resets' = resets + 1
    /\ fills' = NoFills /\ orders' = {} /\ moved' = [k \in Keys |-> 0]
    /\ qty' = [s \in Symbols |-> 0] /\ opened' = [s \in Symbols |-> 0]
    /\ cash' = InitialCash
    /\ UNCHANGED <<day, pc, scans, order, reset, lastBuy, crashes>>

\* reset_account, statement by statement
ResetSQLite ==
    /\ Backend = "sqlite"
    /\ \/ /\ reset = "idle" /\ resets < MaxResets
          /\ resets' = resets + 1 /\ reset' = "orders"
          /\ fills' = NoFills
          /\ UNCHANGED <<cash, qty, opened, orders, moved>>
       \/ /\ reset = "orders" /\ reset' = "positions"
          /\ orders' = {} /\ moved' = [k \in Keys |-> 0]
          /\ UNCHANGED <<cash, qty, opened, fills, resets>>
       \/ /\ reset = "positions" /\ reset' = "cash"
          /\ qty' = [s \in Symbols |-> 0] /\ opened' = [s \in Symbols |-> 0]
          /\ UNCHANGED <<cash, orders, fills, moved, resets>>
       \/ /\ reset = "cash" /\ reset' = "idle"
          /\ cash' = InitialCash
          /\ UNCHANGED <<qty, opened, orders, fills, moved, resets>>
    /\ UNCHANGED <<day, pc, scans, order, lastBuy, crashes>>

\* A process dies; what it has committed stays.
Crash(r) ==
    /\ pc[r] # "idle" /\ crashes < MaxCrashes
    /\ crashes' = crashes + 1
    /\ Goto(r, "idle")
    /\ todo' = [todo EXCEPT ![r] = {}] /\ held' = [held EXCEPT ![r] = {}]
    /\ opens' = [opens EXCEPT ![r] = 0]
    /\ order' = [order EXCEPT ![r] = NoOrder]
    /\ UNCHANGED <<tables, day, reset, moved, lastBuy, resets>>

Midnight ==
    /\ day < MaxDay
    /\ day' = day + 1
    /\ UNCHANGED <<tables, pc, scans, order, reset, moved, lastBuy, crashes, resets>>

Step(r) ==
    \/ Start(r) \/ ExitsDone(r) \/ OpensDone(r)
    \/ \E p \in todo[r], tag \in Tags \ Signals, price \in Prices : Exit(r, p, tag, price)
    \/ \E s \in Symbols, signal \in Signals, date \in Days, price \in Prices :
          Open(r, s, signal, date, price)
    \/ Check(r) \/ Read(r)
    \/ Insert(r) \/ Fill(r) \/ WriteCash(r) \/ ReadPosition(r) \/ UpdatePosition(r)
    \/ Commit(r)
    \/ Crash(r)

Next == (\E r \in Runs : Step(r)) \/ ResetMySQL \/ ResetSQLite \/ Midnight

Spec == Init /\ [][Next]_vars

-----------------------------------------------------------------------------
(* Properties *)

TypeOK ==
    /\ cash \in Int /\ qty \in [Symbols -> Nat] /\ opened \in [Symbols -> 0..MaxDay]
    /\ orders \subseteq Keys
    /\ fills \in [cash : Int, shares : [Symbols -> Int]]
    /\ day \in Days
    /\ pc \in [Runs -> {"idle", "exits", "opens", "check", "read", "insert", "fill",
                        "cash", "position", "update", "commit"}]
    /\ todo \in [Runs -> SUBSET Positions] /\ held \in [Runs -> SUBSET Symbols]
    /\ opens \in [Runs -> Nat]
    /\ order \in [Runs -> Orders \cup {NoOrder}]
    /\ reset \in {"idle", "orders", "positions", "cash"}
    /\ moved \in [Keys -> Nat] /\ lastBuy \in [Symbols -> 0..MaxDay]
    /\ crashes \in Nat /\ resets \in Nat

\* The account never goes into debt, whichever orders, crashes and resets overlap:
\* cash is written as an absolute value that an earlier read allowed.
CashNonNegative == cash >= 0

\* One idempotency key moves cash at most once: two runs that both find the key
\* free are stopped by the table, and a key whose order was cut off stays taken.
\* (A SQLite reset forgets the key of an order that is half written.)
MovedAtMostOnce == Backend = "mysql" \/ resets = 0 => \A k \in Keys : moved[k] <= 1

AtRest == (\A r \in Runs : pc[r] \in {"idle", "exits", "opens"}) /\ reset = "idle"

\* Between orders the balance is what the fills say it is.
FillsPaid == AtRest => cash = InitialCash + fills.cash

\* Between orders the positions are what the fills say they are.
FillsHeld == AtRest => qty = fills.shares

\* A run never holds more positions than max_paper_positions lets it open.
PositionLimit == Cardinality(Holding) <= MaxPositions

\* What a single process at a time can rely on: the book it reads between two
\* orders is the one its fills add up to, within the limit of positions.
SerialBook == FillsPaid /\ FillsHeld /\ PositionLimit

\* The order of r enters the table.
Fills(r, side) ==
    /\ order[r] # NoOrder /\ order[r].side = side
    /\ orders' # orders /\ orders' = orders \cup {order[r].key}

\* A position is not sold on the day it is opened for the first time, unless a
\* reset takes it away from the run that is about to sell it.
FirstDayHeld == [][resets = 0 => \A r \in Runs : Fills(r, "SELL") =>
            LET s == order[r].key.symbol IN s \in T0 \/ opened[s] < day]_vars

\* Every change of the account is one whole trade.  Between the two writes of a
\* SQLite order the account counts as it was before.
Between == {r \in Runs : pc[r] \in {"position", "update"}}
Book == INSTANCE PaperBook WITH
    cash <- IF Between = {} THEN cash ELSE order[CHOOSE r \in Between : TRUE].cash,
    shares <- qty,
    Sizes <- 1..(InitialCash + CashPerTrade)
WholeTrades == Book!Spec
=============================================================================
