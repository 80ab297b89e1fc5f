---------------------------- MODULE FirstLimitScore ----------------------------
(***************************************************************************)
(* The scores of a first-limit-up candidate                                *)
(* (strategies/strategy_first_limit_up.py): the six parts of the           *)
(* preselection, which the documentation gives as parts of 100, and the    *)
(* confirmation by the auction.  Scores are counted in half points, ratios *)
(* in tenths or percent; -1 stands for a missing order book.               *)
(***************************************************************************)
EXTENDS Integers, FiniteSets, FiniteSetsExt

CONSTANTS Frames,   \* last bars: [exact, high, position, amount, turnover, word, size, volume]
          Sectors,  \* sectors: [limits, rising, average]
          Markets,  \* markets: [rising, above, up, down, total]
          Flags,    \* numbers of risk flags
          Pasts,    \* earlier limit-ups: [count, opened, closed, again, follow]
          Auctions  \* snapshots: [open, matched, share, book, seal, sold, bought, stable]

VARIABLES cand, auction
vars == <<cand, auction>>

Cands == [frame : Frames, sector : Sectors, market : Markets, past : Pasts, flags : Flags]
Init == cand \in Cands /\ auction \in Auctions

Between(x, a, b) == a <= x /\ x <= b
Clamp(x, cap) == Max({0, Min({cap, x})})
\* The value of the first case that holds, zero when none does.
First(cases) == LET hit == {i \in DOMAIN cases : cases[i][1]} IN IF hit = {} THEN 0 ELSE cases[Min(hit)][2]

\* _market_context, the score.
MarketScore(m) ==
    Clamp(15 + First(<<<<m.rising >= 60, 6>>, <<m.rising <= 35, -8>>>>) + First(<<<<m.above >= 55, 4>>, <<m.above <= 30, -4>>>>)
             + (IF m.up >= Max({2, (m.total * 3) \div 100}) \/ 100 * m.up >= 4 * m.total THEN 5 ELSE 0) - (IF m.down > m.up THEN 8 ELSE 0), 30)

\* _sector_score
SectorSum(s) == 16 + First(<<<<s.limits >= 3, 14>>, <<s.limits = 2, 8>>, <<s.limits = 1, 4>>>>)
                   + First(<<<<s.rising >= 60, 6>>, <<s.rising <= 35, -4>>>>) + First(<<<<s.average >= 2, 4>>, <<s.average < 0, -4>>>>)
SectorScore(s) == Clamp(SectorSum(s), 40)

\* _limit_quality_score
QualityScore(f) ==
    Clamp(First(<<<<f.exact = "hit", 16>>, <<f.exact = "near", 12>>>>) + (IF f.high THEN 8 ELSE 0) + First(<<<<f.position >= 95, 8>>, <<f.position >= 85, 4>>>>)
          + First(<<<<Between(f.amount, 10, 35), 10>>, <<Between(f.amount, 7, 50), 6>>>>)
          + First(<<<<Between(f.turnover, 30, 150), 8>>, <<Between(f.turnover, 15, 250), 4>>>>) - (IF f.word THEN 4 ELSE 0), 50)

\* _volume_score
VolumeScore(f) ==
    Clamp(First(<<<<f.size >= 500, 10>>, <<f.size >= 100, 8>>, <<f.size >= 20, 5>>>>)
          + First(<<<<Between(f.amount, 10, 35), 8>>, <<Between(f.amount, 6, 50), 4>>>>) + First(<<<<Between(f.volume, 10, 35), 6>>, <<Between(f.volume, 6, 50), 3>>>>)
          + First(<<<<Between(f.turnover, 30, 180), 6>>, <<f.turnover > 0, 3>>>>), 30)

\* _stock_character_score: rates over the earlier limit-ups.
CharacterScore(p) == IF p.count = 0 THEN 15
                     ELSE Clamp(10 + (6 * p.opened + 4 * p.closed + 8 * p.again) \div p.count + Clamp(p.follow, 2), 30)

\* _score_candidate
WeakMarket(c) == MarketScore(c.market) * 100 < 40 * 30
EventScore(c) == Max({0, 20 - 4 * (c.flags + IF WeakMarket(c) THEN 1 ELSE 0)})
Parts(c) == <<MarketScore(c.market), SectorScore(c.sector), QualityScore(c.frame), VolumeScore(c.frame), CharacterScore(c.past), EventScore(c)>>
Sum(parts) == parts[1] + parts[2] + parts[3] + parts[4] + parts[5] + parts[6]
Total(c) == Clamp(Sum(Parts(c)), 200)
Preselected(c) == Total(c) >= 140

\* _auction_microstructure_score: its score and whether the book allows an entry;
\* a balanced book is at 100.
MicroScore(a) == (IF a.book = -1 THEN 10 ELSE First(<<<<a.book >= 125, 10>>, <<a.book >= 90, 6>>>>))
                 + (IF a.seal = "buy" THEN 10 ELSE IF a.seal = "sell" THEN 0 ELSE IF a.book = -1 THEN 10 ELSE 5)
MicroOk(a) == /\ a.book = -1 \/ a.book >= 80
              /\ ~(a.matched > 0 /\ 2 * a.sold > 3 * a.matched /\ a.sold > Max({2 * a.bought, a.matched}))
              /\ a.seal # "sell"

\* _auction_confirmation: the opening in percent of the limit, what was matched
\* in percent of the limit day.
OpenScore(a) == IF a.open <= 0 THEN 0 ELSE IF a.open > 90 THEN 12 ELSE IF Between(a.open, 20, 75) THEN 50 ELSE 16
AuctionScore(c, a) ==
    OpenScore(a) + (IF a.matched >= 3 THEN 50 ELSE (36 * a.matched) \div 3) + (IF a.matched >= 3 THEN 30 ELSE (20 * a.matched) \div 3)
    + First(<<<<a.stable >= -5, 20>>, <<a.stable >= -15, 10>>>>) + Min({30, (SectorScore(c.sector) * 30) \div 40}) + Min({10, MarketScore(c.market) \div 3})
    + MicroScore(a)
Confirmed(c, a) ==
    /\ Between(a.open, 20, 75) /\ a.matched >= 3 /\ a.stable >= -15 /\ MicroOk(a)
    /\ AuctionScore(c, a) >= 140

\* _build_payload: the final score and the risk.
FinalScore(c, a) == (6 * Total(c) + 4 * AuctionScore(c, a)) \div 10

\* Another candidate, or another auction of this one.
Next == (cand' \in Cands /\ auction' = auction) \/ (cand' = cand /\ auction' \in Auctions)
Spec == Init /\ [][Next]_vars

-------------------------------------------------------------------------------
(* docs/strategy_first_limit_up_next_board.md gives the parts as 15, 20, 25,   *)
(* 15, 15 and 10 of 100: the total of a candidate is the sum of the parts it   *)
(* shows, so that the last clamp never hides one.                              *)
PartsMakeTotal == Sum(Parts(cand)) = Total(cand)

(* One candidate's auction, changed only in that more was matched: what was    *)
(* confirmed stays confirmed, and the score does not fall.                     *)
MoreMatchedConfirms ==
    [][auction'.matched > auction.matched /\ cand' = cand /\ auction' = [auction EXCEPT !.matched = auction'.matched]
          => /\ Confirmed(cand, auction) => Confirmed(cand, auction')
             /\ FinalScore(cand, auction') >= FinalScore(cand, auction)]_vars

(* A sector with more limit-ups and more rising stocks never costs a candidate *)
(* its preselection or its confirmation.                                       *)
StrongerSectorHelps ==
    [][cand' # cand /\ auction' = auction /\ cand' = [cand EXCEPT !.sector = cand'.sector]
       /\ cand'.sector.limits >= cand.sector.limits /\ cand'.sector.rising >= cand.sector.rising /\ cand'.sector.average >= cand.sector.average
          => (Preselected(cand) => Preselected(cand')) /\ (Confirmed(cand, auction) => Confirmed(cand', auction))]_vars
===============================================================================
