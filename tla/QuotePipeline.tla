--------------------------- MODULE QuotePipeline ---------------------------
(***************************************************************************)
(* Quotes from the market to the browser.  A collector process fetches the *)
(* quotes of the universe round after round and writes each round to Redis *)
(* as a pipeline of commands that other clients may observe in the middle, *)
(* then announces the round's sequence number.  In the API process a       *)
(* listener thread hears the number and starts a broadcast coroutine that  *)
(* tells the registered WebSockets one after the other.  A force command   *)
(* travels the other way: API, Redis channel, listener thread, event, next *)
(* round.  A Redis failure may end either listener thread; the threads are *)
(* not restarted by themselves.                                            *)
(***************************************************************************)
EXTENDS Integers, FiniteSets, FiniteSetsExt, Sequences

CONSTANTS Stocks,          \* the universe the collector asks the provider for
          Sockets,         \* WebSocket connections of the API process
          MaxRounds,       \* bound: rounds that reach Redis
          MaxForces,       \* bound: force commands sent
          MaxQuoteFaults   \* bound: Redis failures and process restarts

ASSUME QuoteAssumption ==
    MaxRounds \in Nat /\ MaxForces \in Nat /\ MaxQuoteFaults \in Nat

VARIABLES redisUp, quoteFaults,
          collector,   \* where the collector's loop stands
          fetched,     \* stocks the provider answered for in this round
          quoteSeq,    \* META_SEQ_KEY
          hashes,      \* stock |-> round that wrote its hash, 0: no hash
          ranks,       \* members of the change_pct sorted set
          rounds,      \* history: round |-> the stocks it fetched
          announced,   \* history: last sequence number published
          heartbeat,   \* one has been written; whether it is still fresh is up to the clock
          forceEvent, forceListeners, forceCmds, forcesSent,
          owed,        \* history: a force command was heard and not yet served
          hubListening, hubInbox, casts, sockets,
          told         \* socket |-> highest sequence number it was sent

dataVars == <<quoteSeq, hashes, ranks, rounds, announced>>
forceVars == <<forceEvent, forceListeners, forceCmds, forcesSent, owed>>
hubVars == <<hubListening, hubInbox, casts, sockets, told>>
quoteEnv == <<redisUp, quoteFaults>>
quoteVars == <<quoteEnv, collector, fetched, heartbeat, dataVars, forceVars, hubVars>>

WriteStages == {"incr", "hset", "delete", "zadd", "publish"}

QuoteInit ==
    /\ redisUp = TRUE /\ quoteFaults = 0
    /\ collector = "connect" /\ fetched = {} /\ quoteSeq = 0
    /\ hashes = [s \in Stocks |-> 0] /\ ranks = {} /\ rounds = <<>> /\ announced = 0
    /\ heartbeat = FALSE /\ forceEvent = FALSE /\ owed = FALSE
    /\ forceListeners = 0 /\ forceCmds = 0 /\ forcesSent = 0
    /\ hubListening = TRUE /\ hubInbox = <<>> /\ casts = {}
    /\ sockets = {} /\ told = [s \in Sockets |-> 0]

----------------------------------------------------------------------------
(* The collector's loop.  Every Redis command fails while Redis is down:   *)
(* the loop forgets its client, waits and connects again.                  *)

\* One command of the writer's pipeline; the commands of a pipeline that is no
\* transaction are served one by one.
Command(stage, next) ==
    /\ collector = stage /\ redisUp /\ collector' = next
    /\ UNCHANGED <<quoteEnv, fetched, heartbeat, forceVars>>

\* A new client: ping, a force listener of its own, on to the first round.
Connect ==
    /\ collector = "connect" /\ redisUp
    /\ collector' = "begin" /\ forceListeners' = forceListeners + 1
    /\ UNCHANGED <<quoteEnv, fetched, heartbeat, dataVars, forceEvent, forceCmds, forcesSent, owed, hubVars>>

Attempts(force, trading) == force \/ trading

\* The event is read and cleared; without it a round outside the session is
\* skipped.  The heartbeat is the round's first command: when Redis is down the
\* loop leaves for its back-off with the event already cleared.
BeginRound ==
    /\ collector = "begin" /\ forceEvent' = FALSE
    /\ \E trading \in BOOLEAN :
         collector' = IF ~redisUp THEN "backoff"
                      ELSE IF Attempts(forceEvent, trading) THEN "fetch" ELSE "sleep"
    /\ heartbeat' = (heartbeat \/ redisUp)
    /\ owed' = (owed /\ collector' /= "fetch")
    /\ UNCHANGED <<quoteEnv, fetched, dataVars, forceListeners, forceCmds, forcesSent, hubVars>>

\* The provider answers for some of the stocks.  An empty answer writes nothing.
Fetch ==
    /\ collector = "fetch"
    /\ fetched' \in SUBSET Stocks
    /\ IF fetched' = {} THEN collector' = "sleep" ELSE quoteSeq < MaxRounds /\ collector' = "incr"
    /\ UNCHANGED <<quoteEnv, heartbeat, dataVars, forceVars, hubVars>>

\* A batch that fails fails the round; the error is caught, a heartbeat says so
\* and the loop sleeps.  A heartbeat that cannot be written ends in the back-off.
RoundFails ==
    /\ collector = "fetch" \/ (~redisUp /\ collector \in WriteStages)
    /\ collector' = IF redisUp THEN "sleep" ELSE "backoff"
    /\ heartbeat' = (heartbeat \/ redisUp)
    /\ fetched' = {}
    /\ UNCHANGED <<quoteEnv, dataVars, forceVars, hubVars>>

\* Mutant: the number is announced as soon as it is drawn.
RaiseSeqAnnounced ==
    /\ Command("incr", "hset")
    /\ quoteSeq' = quoteSeq + 1 /\ rounds' = Append(rounds, fetched)
    /\ hubInbox' = (IF hubListening THEN Append(hubInbox, quoteSeq + 1) ELSE hubInbox)
    /\ UNCHANGED <<hashes, ranks, announced, hubListening, casts, sockets, told>>

RaiseSeq ==
    /\ Command("incr", "hset")
    /\ quoteSeq' = quoteSeq + 1 /\ rounds' = Append(rounds, fetched)
    /\ UNCHANGED <<hashes, ranks, announced, hubVars>>

WriteHashes ==
    /\ Command("hset", "delete")
    /\ hashes' = [s \in Stocks |-> IF s \in fetched THEN quoteSeq ELSE hashes[s]]
    /\ UNCHANGED <<quoteSeq, ranks, rounds, announced, hubVars>>

DropRanks ==
    /\ Command("delete", "zadd")
    /\ ranks' = {}
    /\ UNCHANGED <<quoteSeq, hashes, rounds, announced, hubVars>>

FillRanks ==
    /\ Command("zadd", "publish")
    /\ ranks' = ranks \cup fetched
    /\ UNCHANGED <<quoteSeq, hashes, rounds, announced, hubVars>>

\* A publication reaches who is subscribed at that moment.
Heard(seq) == IF hubListening THEN Append(hubInbox, seq) ELSE hubInbox

\* The heartbeat of the finished round is written after the announcement.
Publish ==
    /\ collector = "publish" /\ redisUp /\ collector' = "sleep"
    /\ announced' = quoteSeq /\ hubInbox' = Heard(quoteSeq) /\ heartbeat' = TRUE /\ fetched' = {}
    /\ UNCHANGED <<quoteEnv, quoteSeq, hashes, ranks, rounds, forceVars,
                   hubListening, casts, sockets, told>>

\* The end of the sleep between rounds, or of the back-off after an error.
Wake ==
    /\ collector \in {"sleep", "backoff"}
    /\ collector' = IF collector = "sleep" THEN "begin" ELSE "connect"
    /\ UNCHANGED <<quoteEnv, fetched, heartbeat, dataVars, forceVars, hubVars>>

----------------------------------------------------------------------------
(* The force command.                                                      *)

\* The API asks for a fresh heartbeat.  Every live listener thread gets a copy of
\* the command; the answer is "sent" even if none is left.
ForceCollect ==
    /\ heartbeat /\ redisUp /\ forcesSent < MaxForces
    /\ forcesSent' = forcesSent + 1 /\ forceCmds' = forceCmds + forceListeners
    /\ UNCHANGED <<quoteEnv, collector, fetched, heartbeat, dataVars, forceEvent, forceListeners, owed, hubVars>>

HearForce ==
    /\ forceCmds > 0 /\ forceCmds' = forceCmds - 1
    /\ forceEvent' = TRUE /\ owed' = TRUE
    /\ UNCHANGED <<quoteEnv, collector, fetched, heartbeat, dataVars, forceListeners, forcesSent, hubVars>>

----------------------------------------------------------------------------
(* The hub and the sockets.                                                *)

\* A socket whose token names an active user is accepted and registered.
Register(s) ==
    /\ s \notin sockets /\ told[s] = 0 /\ sockets' = sockets \cup {s}
    /\ UNCHANGED <<quoteEnv, collector, fetched, heartbeat, dataVars, forceVars, hubListening, hubInbox, casts, told>>

\* The browser leaves: the handler's receive ends and unregisters the socket.
Unregister(s) ==
    /\ s \in sockets /\ sockets' = sockets \ {s}
    /\ UNCHANGED <<quoteEnv, collector, fetched, heartbeat, dataVars, forceVars, hubListening, hubInbox, casts, told>>

\* Mutant: a message that arrives during a broadcast is left out.
CastingOne(seq) == IF casts = {} THEN {[seq |-> seq, todo |-> sockets]} ELSE casts

\* A broadcast works through a copy of the registered sockets.
Casting(seq) == casts \cup {[seq |-> seq, todo |-> sockets]}

\* The listener thread starts a broadcast coroutine for the next message.
HearQuotes ==
    /\ hubInbox /= <<>> /\ hubInbox' = Tail(hubInbox)
    /\ casts' = Casting(Head(hubInbox))
    /\ UNCHANGED <<quoteEnv, collector, fetched, heartbeat, dataVars, forceVars, hubListening, sockets, told>>

\* One send of one coroutine: the coroutines take turns in any order.  A send
\* to a socket that is gone fails and takes the socket off the list.
Send(c, s) ==
    /\ s \in c.todo
    /\ casts' = (casts \ {c}) \cup (IF c.todo = {s} THEN {} ELSE {[c EXCEPT !.todo = @ \ {s}]})
    /\ told' = IF s \in sockets THEN [told EXCEPT ![s] = IF c.seq > @ THEN c.seq ELSE @] ELSE told
    /\ UNCHANGED <<quoteEnv, collector, fetched, heartbeat, dataVars, forceVars, hubListening, hubInbox, sockets>>

\* A broadcast that met no socket ends at once.
CastEnds(c) ==
    /\ c.todo = {} /\ casts' = casts \ {c}
    /\ UNCHANGED <<quoteEnv, collector, fetched, heartbeat, dataVars, forceVars, hubListening, hubInbox, sockets, told>>

----------------------------------------------------------------------------
(* Faults.                                                                 *)

\* Redis goes away: messages on the way are lost, and each listener thread ends
\* unless its client reconnects by itself.
RedisFails ==
    /\ redisUp /\ quoteFaults < MaxQuoteFaults
    /\ redisUp' = FALSE /\ quoteFaults' = quoteFaults + 1
    /\ forceListeners' \in 0..forceListeners /\ forceCmds' = 0
    /\ hubListening' \in {FALSE, hubListening} /\ hubInbox' = <<>>
    /\ UNCHANGED <<collector, fetched, heartbeat, dataVars, forceEvent, forcesSent, owed, casts, sockets, told>>

RedisReturns ==
    /\ ~redisUp /\ redisUp' = TRUE
    /\ UNCHANGED <<quoteFaults, collector, fetched, heartbeat, dataVars, forceVars, hubVars>>

\* The collector process is killed and started again.
CollectorRestarts ==
    /\ quoteFaults < MaxQuoteFaults /\ quoteFaults' = quoteFaults + 1
    /\ collector' = "connect" /\ fetched' = {}
    /\ forceListeners' = 0 /\ forceCmds' = 0 /\ forceEvent' = FALSE /\ owed' = FALSE
    /\ UNCHANGED <<redisUp, heartbeat, dataVars, forcesSent, hubVars>>

CollectorStep ==
    \/ Connect \/ BeginRound \/ Fetch \/ RoundFails \/ RaiseSeq \/ WriteHashes \/ DropRanks
    \/ FillRanks \/ Publish \/ Wake

HubStep == HearQuotes \/ \E c \in casts : CastEnds(c) \/ \E s \in Sockets : Send(c, s)

QuoteNext ==
    \/ CollectorStep \/ HubStep
    \/ ForceCollect \/ HearForce
    \/ \E s \in Sockets : Register(s) \/ Unregister(s)
    \/ RedisFails \/ RedisReturns \/ CollectorRestarts

QuoteSpec == QuoteInit /\ [][QuoteNext]_quoteVars

----------------------------------------------------------------------------
(* Properties.                                                             *)

QuoteTypeOK ==
    /\ redisUp \in BOOLEAN /\ quoteFaults \in 0..MaxQuoteFaults
    /\ collector \in {"connect", "begin", "fetch", "sleep", "backoff"} \cup WriteStages
    /\ fetched \subseteq Stocks /\ ranks \subseteq Stocks
    /\ quoteSeq \in 0..MaxRounds /\ announced \in 0..quoteSeq
    /\ hashes \in [Stocks -> 0..quoteSeq] /\ rounds \in [1..quoteSeq -> SUBSET Stocks]
    /\ heartbeat \in BOOLEAN /\ forceEvent \in BOOLEAN /\ owed \in BOOLEAN
    /\ forceListeners \in Nat /\ forceCmds \in Nat /\ forcesSent \in 0..MaxForces
    /\ hubListening \in BOOLEAN /\ hubInbox \in Seq(1..quoteSeq)
    /\ casts \subseteq [seq: 1..quoteSeq, todo: SUBSET Sockets]
    /\ sockets \subseteq Sockets /\ told \in [Sockets -> 0..quoteSeq]

\* What a browser is told to reload is there: when a socket has been sent a
\* sequence number, every stock of that round has a hash of that round or of a
\* later one, whatever the collector has been through since.
ToldIsWritten ==
    \A s \in Sockets : told[s] > 0 => \A k \in rounds[told[s]] : hashes[k] >= told[s]

\* The ranking never names a stock a reader would find no quote for, and once a
\* round is announced and no other has begun it names the stocks of exactly
\* that round, not one that the provider has since dropped.
RankingMatchesRound ==
    /\ \A k \in ranks : hashes[k] > 0
    /\ announced = quoteSeq /\ quoteSeq > 0 => ranks = rounds[quoteSeq]

\* What a round leaves for its readers, whenever they look: see the two parts.
RoundIsWhole == QuoteTypeOK /\ ToldIsWritten /\ RankingMatchesRound

\* A force command that reached the event leads to a collection once the faults
\* are over, in or out of the trading session.
ForceIsServed == (forceEvent /\ redisUp /\ quoteFaults = MaxQuoteFaults) ~> ~owed

\* A sequence number that reached the hub's listener reaches each socket that
\* was registered by then, unless the socket leaves or Redis fails first.
EverySocketIsTold ==
    \A s \in Sockets, r \in 1..MaxRounds :
        (hubInbox /= <<>> /\ Head(hubInbox) = r /\ s \in sockets /\ quoteFaults = MaxQuoteFaults)
            ~> (told[s] >= r \/ s \notin sockets)

\* What was heard is served, by the collector's listener and by the hub's: see
\* the two parts.
HeardIsServed == ForceIsServed /\ EverySocketIsTold
=============================================================================
