------------------------------ MODULE Watchlist ------------------------------
(***************************************************************************)
(* The users' watchlists, their groups and the positions they book on      *)
(* watched stocks.  Every request, and every write tool of the agent,      *)
(* reads what it needs in one statement after the other and commits at     *)
(* the end; requests run in threads with a database session each, under    *)
(* READ COMMITTED, and nothing locks the rows that were read.              *)
(*                                                                         *)
(*   backend/app/domains/watchlist/repository.py     items, groups, members *)
(*   backend/app/domains/watchlist/positions_repo.py positions             *)
(*   backend/app/models/watchlist.py, alembic/ddl/initial.py  the keys     *)
(*                                                                         *)
(* The primary key of an item and of a position is the stock alone: the    *)
(* tables are functions from stocks to the user whose row it is.  Reads    *)
(* filter by user, the UPDATE and DELETE the ORM emits name the key only.  *)
(* A request that its checks refuse changes nothing and is no step here.   *)
(***************************************************************************)
EXTENDS Naturals, FiniteSets

CONSTANTS
  Users, Stocks,
  Groups,        \* ids of the groups that may be created
  Requests,      \* threads that serve requests
  Nobody,        \* no row, no user, no group
  MaxItems,      \* WATCHLIST_MAX
  MaxPositions,  \* POSITION_MAX_ITEMS
  OneAtATime     \* a user waits for an answer before the next request

ASSUME WatchlistAssumption ==
  /\ Nobody \notin Users \cup Stocks \cup Groups
  /\ MaxItems \in Nat \ {0} /\ MaxPositions \in Nat \ {0}
  /\ OneAtATime \in BOOLEAN

VARIABLES
  item,      \* item[s]: the user of stock s's row in app.watchlist
  order,     \* order[s]: sort_order of that row
  position,  \* position[s]: the user of s's row in app.watchlist_positions
  booked,    \* booked[s]: the user whose price and volume that row holds
  group,     \* group[g]: the user of group g's row
  deleted,   \* ids of deleted groups; a uuid never comes back
  member,    \* pairs of app.watchlist_group_members
  req        \* what each thread does, with what it has read

items == <<item, order>>
positions == <<position, booked>>
groups == <<group, deleted>>
vars == <<item, order, position, booked, group, deleted, member, req>>

NoRanks == [s \in {} |-> 0]
Free == [op |-> "none", u |-> Nobody, s |-> Nobody, g |-> Nobody, ranks |-> NoRanks]

\* ranks: the sort_order a request is about to write, row by row.
Ops == {"none", "add_item", "remove_item", "reorder_items", "delete_group",
        "add_member", "remove_member", "add_position", "update_position",
        "delete_position"}

Ranks == UNION {[S -> 0 .. MaxItems] : S \in SUBSET Stocks}

RequestRec ==
  [op: Ops, u: Users \cup {Nobody}, s: Stocks \cup {Nobody},
   g: Groups \cup {Nobody}, ranks: Ranks]

Init ==
  /\ item = [s \in Stocks |-> Nobody]
  /\ order = [s \in Stocks |-> 0]
  /\ position = [s \in Stocks |-> Nobody]
  /\ booked = [s \in Stocks |-> Nobody]
  /\ group = [g \in Groups |-> Nobody]
  /\ deleted = {} /\ member = {}
  /\ req = [q \in Requests |-> Free]

ItemsOf(u) == {s \in Stocks : item[s] = u}
PositionsOf(u) == {s \in Stocks : position[s] = u}

----------------------------------------------------------------------------
(* What a request reads before it writes.                                  *)

\* A thread takes a request whose checks pass.
Begin(q, op, u, s, g, ranks) ==
  /\ req[q] = Free
  /\ OneAtATime => \A r \in Requests : req[r].u # u
  /\ req' = [req EXCEPT ![q] = [op |-> op, u |-> u, s |-> s, g |-> g, ranks |-> ranks]]
  /\ UNCHANGED <<items, positions, groups, member>>

\* Not watched by this user, and the list is not full; the new row goes last.
BeginAddItem(q, u, s) ==
  /\ item[s] # u
  /\ Cardinality(ItemsOf(u)) < MaxItems
  /\ Begin(q, "add_item", u, s, Nobody, [r \in {s} |-> Cardinality(ItemsOf(u))])

\* Mutated form: the row is looked up by stock, not by user and stock.
BeginRemoveAnyItem(q, u, s) ==
  /\ item[s] # Nobody
  /\ Begin(q, "remove_item", u, s, Nobody, NoRanks)

BeginRemoveItem(q, u, s) ==
  /\ item[s] = u
  /\ Begin(q, "remove_item", u, s, Nobody, NoRanks)

\* The client sends an order, unlisted items follow: any permutation.  Only
\* the rows whose sort_order differs are written.
BeginReorder(q, u) ==
  \E rank \in [ItemsOf(u) -> 0 .. MaxItems] :
    /\ {rank[s] : s \in ItemsOf(u)} = 0 .. Cardinality(ItemsOf(u)) - 1
    /\ LET moved == {s \in ItemsOf(u) : rank[s] # order[s]} IN
       Begin(q, "reorder_items", u, Nobody, Nobody, [s \in moved |-> rank[s]])

BeginDeleteGroup(q, u, g) ==
  /\ group[g] = u
  /\ Begin(q, "delete_group", u, Nobody, g, NoRanks)

\* The group is the user's and the stock is watched; a member already there
\* is returned as it is.
BeginAddMember(q, u, g, s) ==
  /\ group[g] = u /\ item[s] = u /\ <<g, s>> \notin member
  /\ Begin(q, "add_member", u, s, g, NoRanks)

BeginRemoveMember(q, u, g, s) ==
  /\ group[g] = u /\ <<g, s>> \in member
  /\ Begin(q, "remove_member", u, s, g, NoRanks)

\* Watched, not yet booked, and the book is not full.
BeginAddPosition(q, u, s) ==
  /\ item[s] = u /\ position[s] # u
  /\ Cardinality(PositionsOf(u)) < MaxPositions
  /\ Begin(q, "add_position", u, s, Nobody, NoRanks)

BeginUpdatePosition(q, u, s) ==
  /\ position[s] = u
  /\ Begin(q, "update_position", u, s, Nobody, NoRanks)

BeginDeletePosition(q, u, s) ==
  /\ position[s] = u
  /\ Begin(q, "delete_position", u, s, Nobody, NoRanks)

----------------------------------------------------------------------------
(* The write and the commit.                                               *)

End(q, op) ==
  /\ req[q].op = op
  /\ req' = [req EXCEPT ![q] = Free]

\* A second row under one key is an IntegrityError: nothing is written.
AddItem(q) ==
  LET s == req[q].s IN
  /\ End(q, "add_item")
  /\ IF item[s] = Nobody
     THEN /\ item' = [item EXCEPT ![s] = req[q].u]
          /\ order' = [order EXCEPT ![s] = req[q].ranks[s]]
     ELSE UNCHANGED items
  /\ UNCHANGED <<positions, groups, member>>

\* The sort_order of a user's remaining items, closed up: any numbering that
\* keeps their order (equal numbers are told apart by the symbol).
Renumbered(S) ==
  {rank \in [S -> 0 .. MaxItems] :
     /\ {rank[s] : s \in S} = 0 .. Cardinality(S) - 1
     /\ \A s, r \in S : order[s] < order[r] => rank[s] < rank[r]}

\* Mutated form: the remaining items keep their numbers.
RemoveItemGap(q) ==
  LET s == req[q].s  u == req[q].u IN
  /\ End(q, "remove_item")
  /\ item' = [item EXCEPT ![s] = Nobody]
  /\ order' = [order EXCEPT ![s] = 0]
  /\ member' = {m \in member : m[2] # s \/ group[m[1]] # u}
  /\ UNCHANGED <<positions, groups>>

\* Mutated form: the memberships stay.
RemoveItemOnly(q) ==
  LET s == req[q].s  u == req[q].u  rest == ItemsOf(u) \ {s} IN
  /\ End(q, "remove_item")
  /\ item' = [item EXCEPT ![s] = Nobody]
  /\ \E rank \in Renumbered(rest) :
       order' = [r \in Stocks |-> IF r \in rest THEN rank[r]
                                  ELSE IF r = s THEN 0 ELSE order[r]]
  /\ UNCHANGED <<positions, groups, member>>

\* The user's memberships of the stock, the row (by its key, whoever has it
\* by now), and the numbers of the remaining items.
RemoveItem(q) ==
  LET s == req[q].s  u == req[q].u  rest == ItemsOf(u) \ {s} IN
  /\ End(q, "remove_item")
  /\ item' = [item EXCEPT ![s] = Nobody]
  /\ \E rank \in Renumbered(rest) :
       order' = [r \in Stocks |-> IF r \in rest THEN rank[r]
                                  ELSE IF r = s THEN 0 ELSE order[r]]
  /\ member' = {m \in member : m[2] # s \/ group[m[1]] # u}
  /\ UNCHANGED <<positions, groups>>

\* UPDATE by key.  A row that is gone is a StaleDataError, which rolls back,
\* unless the driver cannot count the rows of a batch.
Reorder(q) ==
  LET ranks == req[q].ranks
      found == {s \in DOMAIN ranks : item[s] # Nobody} IN
  /\ End(q, "reorder_items")
  /\ order' \in {[s \in Stocks |-> IF s \in found THEN ranks[s] ELSE order[s]]}
                 \cup {o \in {order} : found # DOMAIN ranks}
  /\ UNCHANGED <<item, positions, groups, member>>

\* create_group without its limit and its check of the name.
CreateGroup(u, g) ==
  /\ group[g] = Nobody /\ g \notin deleted
  /\ group' = [group EXCEPT ![g] = u]
  /\ UNCHANGED <<items, positions, deleted, member, req>>

DeleteGroup(q) ==
  LET g == req[q].g IN
  /\ End(q, "delete_group")
  /\ group' = [group EXCEPT ![g] = Nobody]
  /\ deleted' = deleted \cup {g}
  /\ member' = {m \in member : m[1] # g}
  /\ UNCHANGED <<items, positions>>

\* A group that is gone breaks the foreign key; nothing looks at the item.
AddMember(q) ==
  /\ End(q, "add_member")
  /\ member' = IF group[req[q].g] = Nobody THEN member
               ELSE member \cup {<<req[q].g, req[q].s>>}
  /\ UNCHANGED <<items, positions, groups>>

RemoveMember(q) ==
  /\ End(q, "remove_member")
  /\ member' = member \ {<<req[q].g, req[q].s>>}
  /\ UNCHANGED <<items, positions, groups>>

AddPosition(q) ==
  LET s == req[q].s IN
  /\ End(q, "add_position")
  /\ IF position[s] = Nobody
     THEN /\ position' = [position EXCEPT ![s] = req[q].u]
          /\ booked' = [booked EXCEPT ![s] = req[q].u]
     ELSE UNCHANGED positions
  /\ UNCHANGED <<items, groups, member>>

\* UPDATE by key; a row that is gone is a StaleDataError.
UpdatePosition(q) ==
  LET s == req[q].s IN
  /\ End(q, "update_position")
  /\ booked' = [booked EXCEPT ![s] = IF position[s] = Nobody THEN @ ELSE req[q].u]
  /\ UNCHANGED <<items, position, groups, member>>

DeletePosition(q) ==
  LET s == req[q].s IN
  /\ End(q, "delete_position")
  /\ position' = [position EXCEPT ![s] = Nobody]
  /\ booked' = [booked EXCEPT ![s] = Nobody]
  /\ UNCHANGED <<items, groups, member>>

----------------------------------------------------------------------------

BeginStock(q, u, s) ==
  \/ BeginAddItem(q, u, s) \/ BeginRemoveItem(q, u, s)
  \/ BeginAddPosition(q, u, s) \/ BeginUpdatePosition(q, u, s)
  \/ BeginDeletePosition(q, u, s)
  \/ \E g \in Groups : BeginAddMember(q, u, g, s) \/ BeginRemoveMember(q, u, g, s)

Commit(q) ==
  \/ AddItem(q) \/ RemoveItem(q) \/ Reorder(q) \/ DeleteGroup(q)
  \/ AddMember(q) \/ RemoveMember(q)
  \/ AddPosition(q) \/ UpdatePosition(q) \/ DeletePosition(q)

Next ==
  \/ \E u \in Users, g \in Groups : CreateGroup(u, g)
  \/ \E q \in Requests, u \in Users :
       \/ BeginReorder(q, u)
       \/ \E s \in Stocks : BeginStock(q, u, s)
       \/ \E g \in Groups : BeginDeleteGroup(q, u, g)
  \/ \E q \in Requests : Commit(q)

Spec == Init /\ [][Next]_vars

----------------------------------------------------------------------------
(* Properties.                                                             *)

TypeOK ==
  /\ item \in [Stocks -> Users \cup {Nobody}]
  /\ order \in [Stocks -> 0 .. MaxItems]
  /\ position \in [Stocks -> Users \cup {Nobody}]
  /\ booked \in [Stocks -> Users \cup {Nobody}]
  /\ group \in [Groups -> Users \cup {Nobody}]
  /\ deleted \subseteq Groups
  /\ member \subseteq Groups \X Stocks
  /\ req \in [Requests -> RequestRec]

\* Nobody watches or books more than the limits allow (repository.py 77,
\* positions_repo.py 131).  Holds while a user's requests do not overlap.
WithinLimits ==
  \A u \in Users :
    /\ Cardinality(ItemsOf(u)) <= MaxItems
    /\ Cardinality(PositionsOf(u)) <= MaxPositions

\* A user's items are numbered without gaps and without repeats, so that a
\* new item goes last (repository.py 86, 105-107, 122-124).
DenseOrder ==
  \A u \in Users :
    {order[s] : s \in ItemsOf(u)} = 0 .. Cardinality(ItemsOf(u)) - 1

\* A user's list is one that the page can show: see the two parts.
ListIsInOrder == TypeOK /\ WithinLimits /\ DenseOrder

\* What is in a group is watched by the group's owner, however additions,
\* removals and deletions of groups follow each other (repository.py 95-101,
\* 229-239).  Holds while a user's requests do not overlap.
MembersAreWatched ==
  \A m \in member : group[m[1]] \in Users /\ item[m[2]] = group[m[1]]

\* The row of one user is changed or removed only by a request of that user,
\* although the statements that change it name the stock alone
\* (models/watchlist.py 13-14, 25-26).  Holds while a user's requests do not
\* overlap; otherwise a row read by one request may be gone, and be another
\* user's by the time it is written.
Commits(u) == \E q \in Requests : req[q].u = u /\ req[q] # Free /\ req'[q] = Free

RowsAreOwn ==
  [][\A s \in Stocks :
       /\ item[s] # Nobody /\ <<item[s], order[s]>>' # <<item[s], order[s]>> =>
            Commits(item[s])
       /\ position[s] # Nobody /\ <<position[s], booked[s]>>' # <<position[s], booked[s]>> =>
            Commits(position[s])]_vars

=============================================================================
