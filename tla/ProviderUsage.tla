---------------------------- MODULE ProviderUsage ----------------------------
(***************************************************************************)
(* The fallback provider (infrastructure/market_data/fallback_provider.py) *)
(* notes in one field which provider answered last; an answer of the       *)
(* market API (application/market_api_service.py) reads the field after    *)
(* its calls to say where its data is from.  Threads share the provider.   *)
(***************************************************************************)
EXTENDS Integers, Sequences, FiniteSets, SequencesExt

CONSTANTS Providers,  \* the providers in the order they are tried
          Threads,
          Sample,     \* securities of a market discovery
          MaxAnswers  \* bound on the answers

VARIABLES up,      \* providers that have something to give at the moment
          usage,   \* last_usage: the provider noted
          thread,  \* the call each thread is in
          answers  \* answers given

vars == <<up, usage, thread, answers>>

Primary == Providers[1]
Idle == [kind |-> "none", step |-> "idle", list |-> "none", bars |-> <<>>, usage |-> "none", ok |-> FALSE, crossed |-> FALSE]
Init == up = ToSet(Providers) /\ usage = Primary /\ thread = [t \in Threads |-> Idle] /\ answers = {}

\* A provider gets or loses its connection.
Flip(p) == up' = (IF p \in up THEN up \ {p} ELSE up \cup {p}) /\ UNCHANGED <<usage, thread, answers>>

\* _try_each: the first provider that has something; none has: an error.
Answering == LET live == SelectSeq(Providers, LAMBDA p : p \in up) IN IF live = <<>> THEN "none" ELSE live[1]

\* _record_usage, with its mark on every other call between its own note and its read.
Record(p) == IF p = "none" THEN usage ELSE p
Crossing(t) == [o \in Threads |-> IF o # t /\ thread[o].step = "usage" THEN [thread[o] EXCEPT !.crossed = TRUE] ELSE thread[o]]

\* get_kline without local bars, and get_market_discovery, which asks for the
\* health first.
Begin(t, kind) ==
    /\ thread[t].step = "idle" /\ Cardinality(answers) < MaxAnswers
    /\ IF kind = "kline" THEN thread' = [thread EXCEPT ![t] = [Idle EXCEPT !.kind = kind, !.step = "list"]] /\ UNCHANGED usage
       ELSE /\ thread' = [Crossing(t) EXCEPT ![t] = [Idle EXCEPT !.kind = kind, !.step = IF Answering = "none" THEN "usage" ELSE "list",
                                                                 !.ok = Answering # "none"]]
            /\ usage' = Record(Answering)
    /\ UNCHANGED <<up, answers>>

\* get_daily_bars of a kline, get_stock_list of a discovery: an error ends the
\* first and leaves the second without securities.
AskFirst(t) ==
    LET me == thread[t] got == Answering IN
    /\ me.step = "list"
    /\ usage' = Record(got)
    /\ thread' = [Crossing(t) EXCEPT ![t] = IF me.kind = "kline" /\ got = "none" THEN Idle
                                            ELSE [me EXCEPT !.step = "usage", !.list = got, !.ok = @ /\ got # "none"]]
    /\ UNCHANGED <<up, answers>>

ReadUsage(t) ==
    LET me == thread[t] IN
    /\ me.step = "usage"
    /\ thread' = [thread EXCEPT ![t] = [me EXCEPT !.usage = usage, !.step = IF me.kind = "kline" \/ me.list = "none" THEN "answer" ELSE "bars"]]
    /\ UNCHANGED <<up, usage, answers>>

\* The bars of the next security of the sample.
AskBars(t) ==
    LET me == thread[t] IN
    /\ me.step = "bars"
    /\ usage' = Record(Answering)
    /\ thread' = [Crossing(t) EXCEPT ![t] = [me EXCEPT !.bars = Append(@, Answering), !.step = IF Len(me.bars) + 1 = Sample THEN "answer" ELSE "bars"]]
    /\ UNCHANGED <<up, answers>>

\* _market_data_quality_summary
Failed(bars) == Cardinality({i \in DOMAIN bars : bars[i] = "none"})
Ready(me) == me.ok /\ me.usage = Primary /\ me.bars # <<>> /\ (Len(me.bars) - Failed(me.bars)) * 10 >= 8 * Len(me.bars)

Answer(t) ==
    LET me == thread[t] IN
    /\ me.step = "answer"
    /\ answers' = answers \cup {[kind |-> me.kind, list |-> me.list, bars |-> me.bars, usage |-> me.usage, crossed |-> me.crossed,
                                 ready |-> me.kind = "discovery" /\ Ready(me)]}
    /\ thread' = [thread EXCEPT ![t] = Idle]
    /\ UNCHANGED <<up, usage>>

Next == \/ \E p \in ToSet(Providers) : Flip(p)
        \/ \E t \in Threads : \/ \E kind \in {"kline", "discovery"} : Begin(t, kind)
                              \/ AskFirst(t) \/ ReadUsage(t) \/ AskBars(t) \/ Answer(t)

Spec == Init /\ [][Next]_vars

-------------------------------------------------------------------------------
(* The provider an answer names is the one that gave its bars or its list of   *)
(* securities, unless another thread's call came between the two.              *)
UsageIsOwn == \A a \in answers : a.list # "none" /\ ~a.crossed => a.usage = a.list

(* A discovery that calls itself ready for research got a list of securities   *)
(* and bars for four fifths of its sample.                                     *)
ReadyHasBars == \A a \in answers : a.ready => a.list # "none" /\ Failed(a.bars) * 5 <= Sample
===============================================================================
