-------------------------------- MODULE Feed --------------------------------
(***************************************************************************)
(* The posts of the authors (UPs) users subscribe to.  A run of the job    *)
(* reads the enabled subscriptions, asks Bilibili (external) for the       *)
(* newest posts of one after the other and inserts those that are new, all *)
(* in one transaction with a savepoint for each insert; it may be started  *)
(* by hand beside the scheduler's.  Meanwhile users subscribe, switch off, *)
(* and delete.  The table holds one subscription of an author and one item *)
(* of a post, whoever the users are.                                       *)
(***************************************************************************)
EXTENDS Integers, FiniteSets, Sequences, SequencesExt

CONSTANTS Ups, FeedUsers,
          FeedRuns,        \* runs of the job
          RecentLimit,     \* FEED_RECENT_LIMIT (10)
          MaxSubscriptions, \* MAX_FEED_SUBSCRIPTIONS of a user (50)
          MaxPosts,        \* author |-> posts it makes (bound)
          MaxGenerations,  \* author |-> how often it is subscribed (bound)
          DeletesOverlap   \* a subscription may be deleted while a run has read it

ASSUME FeedAssumption ==
    /\ {RecentLimit, MaxSubscriptions} \subseteq Nat \ {0} /\ {MaxPosts, MaxGenerations} \subseteq [Ups -> Nat] /\ DeletesOverlap \in BOOLEAN
    /\ "nobody" \notin FeedUsers

VARIABLES posts,     \* external: author |-> number of posts made
          subs,      \* app.feed_subscriptions: author |-> its subscription
          items,     \* app.feed_items: post |-> the subscription it was fetched for
          feedRuns,  \* the runs: subscriptions to do, posts in hand, rows not committed
          delivered  \* history: what committed runs have fetched, for which subscription

feedVars == <<posts, subs, items, feedRuns, delivered>>

Posts == UNION {{up} \X (1..MaxPosts[up]) : up \in Ups}
NoSub == [owner |-> "nobody", id |-> 0, enabled |-> FALSE]
Subscription(up) == <<up, subs[up].id>>   \* the key of the row
Orphaned == <<"none", 0>>
NoRun == [at |-> "none", todo |-> {}, sub |-> Orphaned, inHand |-> {}, rows |-> {}, fetched |-> {}]

FeedInit ==
    /\ posts = [up \in Ups |-> 0] /\ subs = [up \in Ups |-> NoSub] /\ items = <<>>
    /\ feedRuns = [r \in FeedRuns |-> NoRun] /\ delivered = {}

PostIsMade ==
    /\ \E up \in Ups : posts[up] < MaxPosts[up] /\ posts' = [posts EXCEPT ![up] = @ + 1]
    /\ UNCHANGED <<subs, items, feedRuns, delivered>>

\* list_recent_dynamics: the newest posts of an author.
Recent(up) == {p \in Posts : p[1] = up /\ p[2] <= posts[up] /\ p[2] + RecentLimit > posts[up]}

\* Rows of a run that has not committed: another insert of the same post waits.
Pending(post) == \E r \in FeedRuns : \E row \in feedRuns[r].rows : row[2] = post
With(table, rows) == [p \in DOMAIN table \cup {row[2] : row \in rows} |->
                         IF p \in DOMAIN table THEN table[p] ELSE (CHOOSE row \in rows : row[2] = p)[1]]

----------------------------------------------------------------------------
\* add_bilibili_up: refused at the limit, for an author of one's own and, by the
\* key of the table, for anybody's; it may fetch at once, and what fails then is
\* told but does not undo the subscription.
AddBilibiliUp ==
    /\ \E up \in Ups, user \in FeedUsers, fetches \in BOOLEAN :
           /\ Cardinality({a \in Ups : subs[a].owner = user}) < MaxSubscriptions
           /\ subs[up] = [NoSub EXCEPT !.id = subs[up].id] /\ subs[up].id < MaxGenerations[up]
           /\ subs' = [subs EXCEPT ![up] = [owner |-> user, id |-> @.id + 1, enabled |-> TRUE]]
           /\ LET new == {<<<<up, subs[up].id + 1>>, p>> : p \in Recent(up) \ DOMAIN items} IN
              IF fetches
              THEN /\ \A row \in new : ~Pending(row[2])
                   /\ items' = With(items, new)
                   /\ delivered' = delivered \cup {<<<<up, subs[up].id + 1>>, p>> : p \in Recent(up)}
              ELSE UNCHANGED <<items, delivered>>
    /\ UNCHANGED <<posts, feedRuns>>

SetSubscriptionEnabled ==
    /\ \E up \in Ups : subs[up].owner /= "nobody" /\ subs' = [subs EXCEPT ![up].enabled = ~@]
    /\ UNCHANGED <<posts, items, feedRuns, delivered>>

InUse(up) == \E r \in FeedRuns : Subscription(up) \in feedRuns[r].todo \/ feedRuns[r].sub = Subscription(up)
                                 \/ \E row \in feedRuns[r].rows : row[1] = Subscription(up)

\* The rows that are left once a subscription's items are deleted.
ItemsLeft(up) == [p \in {q \in DOMAIN items : items[q] /= Subscription(up)} |-> items[p]]

\* delete_subscription: what is committed of it goes, with the marks of readers.
DeleteSubscription ==
    /\ \E up \in Ups :
           /\ subs[up].owner /= "nobody" /\ (DeletesOverlap \/ ~InUse(up))
           /\ items' = ItemsLeft(up)
           /\ subs' = [subs EXCEPT ![up] = [NoSub EXCEPT !.id = subs[up].id]]
    /\ UNCHANGED <<posts, feedRuns, delivered>>

----------------------------------------------------------------------------
\* sync_bilibili_feed: the subscriptions are read once, at the start.
StartFeedRun(r) ==
    /\ feedRuns[r].at = "none"
    /\ LET enabled == {Subscription(up) : up \in {a \in Ups : subs[a].enabled}} IN
       enabled /= {} /\ feedRuns' = [feedRuns EXCEPT ![r] = [NoRun EXCEPT !.at = "fetch", !.todo = enabled]]
    /\ UNCHANGED <<posts, subs, items, delivered>>

\* The next subscription answers, or raises and is left for the next run.
FetchPosts(r) ==
    /\ feedRuns[r].at = "fetch"
    /\ \E s \in feedRuns[r].todo :
           \/ feedRuns' = [feedRuns EXCEPT ![r].todo = @ \ {s}]
           \/ feedRuns' = [feedRuns EXCEPT ![r] = [feedRuns[r] EXCEPT !.at = "insert", !.todo = @ \ {s}, !.sub = s, !.inHand = Recent(s[1]),
                                                             !.fetched = @ \cup {<<s, p>> : p \in Recent(s[1])}]]
    /\ UNCHANGED <<posts, subs, items, delivered>>

\* Mutant: a post that is there after all undoes the batch.
InsertedUndone(rows, sub, post) == IF post \in DOMAIN items THEN {} ELSE rows \cup {<<sub, post>>}

\* A post that is in the table is passed over, whether it is found before the
\* insert or by the key during it: the savepoint alone is rolled back.
Inserted(rows, sub, post) == IF post \in DOMAIN items THEN rows ELSE rows \cup {<<sub, post>>}

\* The next post in hand; another run's row of it has to be committed or gone.
InsertItem(r) ==
    /\ feedRuns[r].at = "insert" /\ feedRuns[r].inHand /= {}
    /\ \E post \in feedRuns[r].inHand :
           /\ ~Pending(post)
           /\ feedRuns' = [feedRuns EXCEPT ![r] = [feedRuns[r] EXCEPT !.inHand = @ \ {post}, !.rows = Inserted(@, feedRuns[r].sub, post)]]
    /\ UNCHANGED <<posts, subs, items, delivered>>

NextSubscription(r) ==
    /\ feedRuns[r].at = "insert" /\ feedRuns[r].inHand = {}
    /\ feedRuns' = [feedRuns EXCEPT ![r] = [feedRuns[r] EXCEPT !.at = "fetch", !.sub = Orphaned]]
    /\ UNCHANGED <<posts, subs, items, delivered>>

\* The one commit at the end.
EndFeedRun(r) ==
    /\ feedRuns[r].at = "fetch" /\ feedRuns[r].todo = {}
    /\ items' = With(items, feedRuns[r].rows)
    /\ delivered' = delivered \cup feedRuns[r].fetched
    /\ feedRuns' = [feedRuns EXCEPT ![r] = NoRun]
    /\ UNCHANGED <<posts, subs>>

\* The worker ends and the transaction with it.
FeedRunDies(r) ==
    /\ feedRuns[r].at /= "none" /\ feedRuns' = [feedRuns EXCEPT ![r] = NoRun]
    /\ UNCHANGED <<posts, subs, items, delivered>>

FeedNext ==
    \/ PostIsMade \/ AddBilibiliUp \/ SetSubscriptionEnabled \/ DeleteSubscription
    \/ \E r \in FeedRuns : \/ StartFeedRun(r) \/ FetchPosts(r) \/ InsertItem(r) \/ NextSubscription(r)
                           \/ EndFeedRun(r) \/ FeedRunDies(r)

FeedSpec == FeedInit /\ [][FeedNext]_feedVars

----------------------------------------------------------------------------
(* What a run that ended has fetched for a subscription that still is, its  *)
(* subscriber sees: not a post is lost to another run that inserted the    *)
(* same one, to a run that died, or to an earlier subscription of the      *)
(* author.  (With DeletesOverlap the rows of a run that ends after the     *)
(* deletion are nobody's, and keep the posts from whoever subscribes next.) *)
FetchedIsShown ==
    \A f \in delivered : f[1] = Subscription(f[1][1]) /\ subs[f[1][1]].owner /= "nobody" =>
        f[2] \in DOMAIN items /\ items[f[2]] = f[1]

=============================================================================
