----------------------------- MODULE LiveRanks ------------------------------
(***************************************************************************)
(* The quotes and one ranking of them in Redis, and their two writers: the *)
(* collector, which writes a round of quotes and the ranking of that       *)
(* round, and the job that patches the factor the ranking is about into    *)
(* the quotes after the close and ranks the patched stocks.  Neither is a  *)
(* transaction, and neither knows of the other.                            *)
(***************************************************************************)
EXTENDS Integers

CONSTANTS LiveStocks, Factors,   \* Factors: values of the factor
          NoQuote                \* the value of a stock that has no hash

ASSUME LiveAssumption == 0 \in Factors /\ Factors \subseteq Nat /\ NoQuote \notin Factors

VARIABLES quoted,   \* stock |-> the factor in its hash, NoQuote: no such key
          scored,   \* stock |-> its score in the sorted set, 0: no member
          round,    \* the collector's pipeline
          patch,    \* the patching job
          alone,    \* history: the last writer to end wrote a ranking and met no other one
          fetchedEver  \* history: stocks the provider has ever answered for

liveVars == <<quoted, scored, round, patch, alone, fetchedEver>>

Resting == [pc |-> "rest", todo |-> {}, values |-> [s \in {} |-> 0]]
Answers == UNION {[S -> Factors] : S \in (SUBSET LiveStocks) \ {{}}}

LiveInit ==
    /\ quoted = [s \in LiveStocks |-> NoQuote] /\ scored = [s \in LiveStocks |-> 0]
    /\ round = Resting /\ patch = Resting
    /\ alone = TRUE /\ fetchedEver = {}

\* The members a writer adds: only positive values are ranked.
Ranked(values) ==
    [s \in LiveStocks |-> IF s \in DOMAIN values /\ values[s] > 0 THEN values[s] ELSE scored[s]]

Nobody0 == [s \in LiveStocks |-> 0]
Busy(writer) == writer.pc /= "rest"

----------------------------------------------------------------------------
(* The collector.                                                          *)

RoundBegins ==
    /\ ~Busy(round)
    /\ \E values \in Answers :
         /\ round' = [pc |-> "hset", todo |-> DOMAIN values, values |-> values]
         /\ fetchedEver' = fetchedEver \cup DOMAIN values
    /\ alone' = ~Busy(patch)
    /\ UNCHANGED <<quoted, scored, patch>>

RoundWritesQuote(s) ==
    /\ round.pc = "hset" /\ s \in round.todo
    /\ quoted' = [quoted EXCEPT ![s] = round.values[s]]
    /\ round' = [round EXCEPT !.todo = @ \ {s}]
    /\ UNCHANGED <<scored, patch, alone, fetchedEver>>

RoundDropsRanking ==
    /\ round.pc = "hset" /\ round.todo = {}
    /\ scored' = Nobody0 /\ round' = [round EXCEPT !.pc = "zadd"]
    /\ UNCHANGED <<quoted, patch, alone, fetchedEver>>

RoundRanks ==
    /\ round.pc = "zadd"
    /\ scored' = Ranked(round.values) /\ round' = Resting
    /\ UNCHANGED <<quoted, patch, alone, fetchedEver>>

----------------------------------------------------------------------------
(* The patch.                                                              *)

\* enrich_market_quotes: some stocks have a factor of the day.
PatchBegins ==
    /\ ~Busy(patch)
    /\ \E values \in Answers : patch' = [pc |-> "hset", todo |-> DOMAIN values, values |-> values]
    /\ alone' = ~Busy(round)
    /\ UNCHANGED <<quoted, scored, round, fetchedEver>>

Without(values, s) == [t \in DOMAIN values \ {s} |-> values[t]]

\* A stock that has no quote is passed over: a hash of factors alone would be
\* taken for a quote.
PatchesStock(s) ==
    /\ patch.pc = "hset" /\ s \in patch.todo
    /\ IF quoted[s] /= NoQuote
       THEN /\ quoted' = [quoted EXCEPT ![s] = patch.values[s]]
            /\ patch' = [patch EXCEPT !.todo = @ \ {s}]
       ELSE /\ patch' = [patch EXCEPT !.todo = @ \ {s}, !.values = Without(@, s)]
            /\ UNCHANGED quoted
    /\ UNCHANGED <<scored, round, alone, fetchedEver>>

\* Mutant: the patched stocks are added to the ranking as it is.
PatchDropsRankingNot ==
    /\ patch.pc = "hset" /\ patch.todo = {}
    /\ patch' = IF DOMAIN patch.values = {} THEN Resting ELSE [patch EXCEPT !.pc = "zadd"]
    /\ UNCHANGED <<quoted, scored, round, alone, fetchedEver>>

\* With no stock patched the ranking stays as it is.
PatchDropsRanking ==
    /\ patch.pc = "hset" /\ patch.todo = {}
    /\ IF DOMAIN patch.values = {}
       THEN patch' = Resting /\ alone' = FALSE /\ UNCHANGED scored
       ELSE patch' = [patch EXCEPT !.pc = "zadd"] /\ scored' = Nobody0 /\ UNCHANGED alone
    /\ UNCHANGED <<quoted, round, fetchedEver>>

PatchRanks ==
    /\ patch.pc = "zadd"
    /\ scored' = Ranked(patch.values) /\ patch' = Resting
    /\ UNCHANGED <<quoted, round, alone, fetchedEver>>

\* The worker or the collector is killed in the middle.
WriterDies ==
    /\ \/ Busy(patch) /\ patch' = Resting /\ UNCHANGED round
       \/ Busy(round) /\ round' = Resting /\ UNCHANGED patch
    /\ alone' = FALSE
    /\ UNCHANGED <<quoted, scored, fetchedEver>>

LiveNext ==
    \/ RoundBegins \/ RoundDropsRanking \/ RoundRanks
    \/ PatchBegins \/ PatchDropsRanking \/ PatchRanks \/ WriterDies
    \/ \E s \in LiveStocks : RoundWritesQuote(s) \/ PatchesStock(s)

LiveSpec == LiveInit /\ [][LiveNext]_liveVars

----------------------------------------------------------------------------
(* Properties.                                                             *)

\* What the ranking says of a stock is what its quote says, once a writer has
\* ended that met no other one on its way, whatever was left behind by writers
\* that did meet or died.  While it was met, the score of the one may stay beside the
\* quote of the other until the next round.
ScoresAreTheQuotes ==
    ~Busy(round) /\ ~Busy(patch) /\ alone => \A s \in LiveStocks : scored[s] > 0 => scored[s] = quoted[s]

\* The patch never makes a quote or a place in the ranking for a stock that the
\* provider has no price of, even while it meets a round.
OnlyQuotedAreRanked ==
    \A s \in LiveStocks : quoted[s] /= NoQuote \/ scored[s] > 0 => s \in fetchedEver

\* The ranking in Redis is one of the quotes beside it: see the two parts.
RankingIsOfQuotes == ScoresAreTheQuotes /\ OnlyQuotedAreRanked
=============================================================================
