--------------------------- MODULE Trading_proofs ---------------------------
(* Theorems of the tables a trader edits and looks at: the watchlist with   *)
(* its groups and positions, the books of a strategy, the chart patterns,   *)
(* the live ranking and the ranking of the last close.                      *)
EXTENDS Watchlist, CtaStrategies, PatternRules, LiveRanks, ClosingRanks, Counting

-----------------------------------------------------------------------------
(* Watchlist, for every set of users, stocks, groups and threads, under the *)
(* assumption that a user's requests do not overlap: what is in a group is  *)
(* watched by its owner, and no user's row is touched by another user's     *)
(* request. With one request per user at a time, what a request has read    *)
(* still holds when it writes (ReadsHold), because a commit only changes    *)
(* rows of its own user or creates rows under a free key.                   *)

ItemReaders == {"remove_item", "add_member"}
GroupReaders == {"delete_group", "add_member", "remove_member"}
PositionReaders == {"update_position", "delete_position"}

\* What a request has read, and still relies on when it writes.
ReadsHold ==
  \A q \in Requests :
    /\ req[q].op \in ItemReaders => item[req[q].s] = req[q].u
    /\ req[q].op \in GroupReaders => group[req[q].g] = req[q].u
    /\ req[q].op \in PositionReaders => position[req[q].s] = req[q].u
    /\ req[q].op = "reorder_items" =>
         \A s \in DOMAIN req[q].ranks : item[s] = req[q].u

\* The rows and the requests, as far as the arguments below need them.
Shape ==
  /\ item \in [Stocks -> Users \cup {Nobody}]
  /\ position \in [Stocks -> Users \cup {Nobody}]
  /\ group \in [Groups -> Users \cup {Nobody}]
  /\ member \subseteq Groups \X Stocks
  /\ DOMAIN order = Stocks /\ DOMAIN booked = Stocks /\ DOMAIN req = Requests
  /\ \A q \in Requests :
       /\ req[q].op = "none" => req[q] = Free
       /\ req[q].op # "none" => req[q].u \in Users
       /\ req[q].op \notin {"none", "reorder_items", "delete_group"} => req[q].s \in Stocks
       /\ req[q].op \in GroupReaders => req[q].g \in Groups
       /\ req[q].op = "reorder_items" => DOMAIN req[q].ranks \subseteq Stocks

\* One request per user at a time.
Serial ==
  \A q, r \in Requests :
    req[q].op # "none" /\ req[r].op # "none" /\ req[q].u = req[r].u => q = r

WatchInv == Shape /\ Serial /\ ReadsHold /\ MembersAreWatched

----------------------------------------------------------------------------
(* Requests that begin and end.                                            *)

\* A request that begins with what it has read keeps the invariant.
LEMMA BeginKeeps ==
  ASSUME WatchInv, OneAtATime, NEW q \in Requests, NEW u \in Users,
         NEW op, NEW s, NEW g, NEW ranks, Begin(q, op, u, s, g, ranks),
         op # "none",
         op \notin {"reorder_items", "delete_group"} => s \in Stocks,
         op \in GroupReaders => g \in Groups /\ group[g] = u,
         op \in ItemReaders => item[s] = u,
         op \in PositionReaders => position[s] = u,
         op = "reorder_items" => \A r \in DOMAIN ranks : r \in Stocks /\ item[r] = u
  PROVE  WatchInv'
  <1>1. UNCHANGED <<items, positions, groups, member>> /\ req[q] = Free
    BY DEF Begin
  <1>2. /\ req'[q] = [op |-> op, u |-> u, s |-> s, g |-> g, ranks |-> ranks]
        /\ \A r \in Requests : r # q => req'[r] = req[r]
        /\ DOMAIN req' = Requests
    BY DEF Begin, WatchInv, Shape
  <1>3. Shape'
    BY <1>1, <1>2 DEF WatchInv, Shape, items, positions, groups, GroupReaders
  <1>4. \A r \in Requests : req[r].u # u
    BY DEF Begin
  <1>5. Serial'
    BY <1>2, <1>4 DEF WatchInv, Serial
  <1>6. ReadsHold'
    BY <1>1, <1>2 DEF WatchInv, ReadsHold, items, positions, groups
  <1>7. QED
    BY <1>1, <1>3, <1>5, <1>6 DEF WatchInv, MembersAreWatched, items, groups

\* The requests after one of them has ended.
LEMMA EndFacts ==
  ASSUME WatchInv, NEW q \in Requests, NEW op, op # "none", End(q, op)
  PROVE  /\ req[q].op = op /\ req[q].u \in Users /\ req[q] # Free
         /\ req'[q] = Free /\ Free.op = "none"
         /\ DOMAIN req' = Requests
         /\ \A r \in Requests : r # q => req'[r] = req[r]
         /\ \A r \in Requests : r # q /\ req[r].op # "none" => req[r].u # req[q].u
         /\ Serial'
  <1>1. req[q].op = op /\ req' = [req EXCEPT ![q] = Free]
    BY DEF End
  <1>2. Free.op = "none" /\ req[q] # Free
    BY <1>1 DEF Free
  <1>3. /\ req'[q] = Free /\ DOMAIN req' = Requests
        /\ \A r \in Requests : r # q => req'[r] = req[r]
    BY <1>1 DEF WatchInv, Shape
  <1>4. \A r \in Requests : r # q /\ req[r].op # "none" => req[r].u # req[q].u
    BY <1>1 DEF WatchInv, Serial
  <1>5. Serial'
    BY <1>2, <1>3 DEF WatchInv, Serial
  <1>6. QED
    BY <1>1, <1>2, <1>3, <1>4, <1>5 DEF WatchInv, Shape

\* A commit that keeps the rows of the other users keeps what was read.
LEMMA ReadsKept ==
  ASSUME WatchInv, NEW q \in Requests, NEW op, op # "none", End(q, op),
         \A s \in Stocks : item[s] \in Users /\ item[s] # req[q].u => item'[s] = item[s],
         \A s \in Stocks : position[s] \in Users /\ position[s] # req[q].u =>
                             position'[s] = position[s],
         \A g \in Groups : group[g] \in Users /\ group[g] # req[q].u => group'[g] = group[g]
  PROVE  ReadsHold'
  <1>1. SUFFICES ASSUME NEW r \in Requests, r # q, req[r].op # "none"
                 PROVE  /\ req[r].op \in ItemReaders => item'[req[r].s] = req[r].u
                        /\ req[r].op \in GroupReaders => group'[req[r].g] = req[r].u
                        /\ req[r].op \in PositionReaders => position'[req[r].s] = req[r].u
                        /\ req[r].op = "reorder_items" =>
                             \A s \in DOMAIN req[r].ranks : item'[s] = req[r].u
    <2>1. \A r \in Requests : r # q => req'[r] = req[r]
      BY EndFacts
    <2>2. req'[q].op = "none"
      BY EndFacts
    <2>3. QED
      BY <1>1, <2>1, <2>2 DEF ReadsHold, ItemReaders, GroupReaders, PositionReaders
  <1>2. req[r].u \in Users /\ req[r].u # req[q].u
    BY <1>1, EndFacts DEF WatchInv, Shape
  <1>3. req[r].op \in ItemReaders => item'[req[r].s] = req[r].u
    BY <1>1, <1>2 DEF WatchInv, Shape, ReadsHold, ItemReaders
  <1>4. req[r].op \in GroupReaders => group'[req[r].g] = req[r].u
    BY <1>1, <1>2 DEF WatchInv, Shape, ReadsHold, GroupReaders
  <1>5. req[r].op \in PositionReaders => position'[req[r].s] = req[r].u
    BY <1>1, <1>2 DEF WatchInv, Shape, ReadsHold, PositionReaders
  <1>6. req[r].op = "reorder_items" => \A s \in DOMAIN req[r].ranks : item'[s] = req[r].u
    BY <1>1, <1>2 DEF WatchInv, Shape, ReadsHold
  <1>7. QED
    BY <1>3, <1>4, <1>5, <1>6
----------------------------------------------------------------------------
(* The commits, one by one.                                                *)

\* The part of Shape about requests survives the end of one.
LEMMA ShapeKept ==
  ASSUME WatchInv, NEW q \in Requests, NEW op, op # "none", End(q, op),
         item' \in [Stocks -> Users \cup {Nobody}],
         position' \in [Stocks -> Users \cup {Nobody}],
         group' \in [Groups -> Users \cup {Nobody}],
         member' \subseteq Groups \X Stocks,
         DOMAIN order' = Stocks, DOMAIN booked' = Stocks
  PROVE  Shape'
  <1>1. \A r \in Requests : req'[r] = req[r] \/ req'[r] = Free
    BY EndFacts
  <1>2. Free.op = "none" /\ DOMAIN req' = Requests
    BY EndFacts
  <1>3. QED
    BY <1>1, <1>2 DEF WatchInv, Shape, GroupReaders

LEMMA CommitItem ==
  ASSUME WatchInv, NEW q \in Requests, AddItem(q) \/ RemoveItem(q) \/ Reorder(q)
  PROVE  WatchInv'
  <1> USE DEF items, positions, groups
  <1> DEFINE s == req[q].s
             u == req[q].u
  <1>1. CASE AddItem(q)
    <2>1. End(q, "add_item") /\ req[q].op = "add_item" /\ s \in Stocks /\ u \in Users
      BY <1>1, EndFacts DEF AddItem, End, WatchInv, Shape
    <2>2. \/ UNCHANGED items
          \/ /\ item[s] = Nobody
             /\ item' = [item EXCEPT ![s] = u]
             /\ order' = [order EXCEPT ![s] = req[q].ranks[s]]
      BY <1>1 DEF AddItem
    <2>3. UNCHANGED <<position, booked, group, member>>
      BY <1>1 DEF AddItem
    <2>4. item' \in [Stocks -> Users \cup {Nobody}] /\ DOMAIN order' = Stocks
      BY <2>1, <2>2 DEF WatchInv, Shape
    <2>5. Shape'
      BY <2>1, <2>3, <2>4, ShapeKept DEF WatchInv, Shape
    <2>6. \A r \in Stocks : item[r] \in Users => item'[r] = item[r]
      BY <2>1, <2>2, WatchlistAssumption DEF WatchInv, Shape
    <2>7. ReadsHold'
      BY <2>1, <2>3, <2>6, ReadsKept
    <2>8. MembersAreWatched'
      BY <2>3, <2>6 DEF WatchInv, Shape, MembersAreWatched
    <2>9. QED
      BY <2>1, <2>5, <2>7, <2>8, EndFacts DEF WatchInv
  <1>2. CASE RemoveItem(q)
    <2>1. End(q, "remove_item") /\ req[q].op = "remove_item" /\ s \in Stocks /\ u \in Users
      BY <1>2, EndFacts DEF RemoveItem, End, WatchInv, Shape
    <2>2. item[s] = u
      BY <2>1 DEF WatchInv, ReadsHold, ItemReaders
    <2>3. /\ item' = [item EXCEPT ![s] = Nobody]
          /\ DOMAIN order' = Stocks
          /\ member' = {m \in member : m[2] # s \/ group[m[1]] # u}
          /\ UNCHANGED <<position, booked, group>>
      BY <1>2 DEF RemoveItem
    <2>4. item' \in [Stocks -> Users \cup {Nobody}] /\ member' \subseteq Groups \X Stocks
      BY <2>3 DEF WatchInv, Shape
    <2>5. Shape'
      BY <2>1, <2>3, <2>4, ShapeKept DEF WatchInv, Shape
    <2>6. \A r \in Stocks : r # s => item'[r] = item[r]
      BY <2>3 DEF WatchInv, Shape
    <2>7. ReadsHold'
      BY <2>1, <2>2, <2>3, <2>6, ReadsKept
    <2>8. MembersAreWatched'
      <3> SUFFICES ASSUME NEW m \in member'
                   PROVE  group'[m[1]] \in Users /\ item'[m[2]] = group'[m[1]]
        BY DEF MembersAreWatched
      <3>1. m \in member /\ (m[2] # s \/ group[m[1]] # u)
        BY <2>3
      <3>2. group[m[1]] \in Users /\ item[m[2]] = group[m[1]] /\ m[2] \in Stocks
        BY <3>1 DEF WatchInv, MembersAreWatched, Shape
      <3>3. m[2] # s
        BY <2>2, <3>1, <3>2
      <3>4. QED
        BY <2>3, <2>6, <3>2, <3>3
    <2>9. QED
      BY <2>1, <2>5, <2>7, <2>8, EndFacts DEF WatchInv
  <1>3. CASE Reorder(q)
    <2>1. End(q, "reorder_items")
      BY <1>3 DEF Reorder
    <2>2. UNCHANGED <<item, position, booked, group, member>> /\ DOMAIN order' = Stocks
      BY <1>3 DEF Reorder, WatchInv, Shape
    <2>3. Shape'
      BY <2>1, <2>2, ShapeKept DEF WatchInv, Shape
    <2>4. ReadsHold'
      BY <2>1, <2>2, ReadsKept
    <2>5. QED
      BY <2>1, <2>2, <2>3, <2>4, EndFacts DEF WatchInv, MembersAreWatched
  <1>4. QED
    BY <1>1, <1>2, <1>3

LEMMA CommitGroup ==
  ASSUME WatchInv, NEW q \in Requests, DeleteGroup(q) \/ AddMember(q) \/ RemoveMember(q)
  PROVE  WatchInv'
  <1> USE DEF items, positions, groups
  <1> DEFINE s == req[q].s
             g == req[q].g
             u == req[q].u
  <1>1. CASE DeleteGroup(q)
    <2>1. End(q, "delete_group") /\ req[q].op = "delete_group" /\ g \in Groups /\ group[g] = u
      BY <1>1 DEF DeleteGroup, End, WatchInv, Shape, ReadsHold, GroupReaders
    <2>2. /\ group' = [group EXCEPT ![g] = Nobody]
          /\ member' = {m \in member : m[1] # g}
          /\ UNCHANGED <<item, order, position, booked>>
      BY <1>1 DEF DeleteGroup
    <2>3. group' \in [Groups -> Users \cup {Nobody}] /\ member' \subseteq Groups \X Stocks
      BY <2>2 DEF WatchInv, Shape
    <2>4. \A h \in Groups : h # g => group'[h] = group[h]
      BY <2>2 DEF WatchInv, Shape
    <2>5. Shape'
      BY <2>1, <2>2, <2>3, ShapeKept DEF WatchInv, Shape
    <2>6. ReadsHold'
      BY <2>1, <2>2, <2>4, ReadsKept
    <2>7. MembersAreWatched'
      BY <2>2, <2>4 DEF WatchInv, Shape, MembersAreWatched
    <2>8. QED
      BY <2>1, <2>5, <2>6, <2>7, EndFacts DEF WatchInv
  <1>2. CASE AddMember(q)
    <2>1. /\ End(q, "add_member") /\ req[q].op = "add_member"
          /\ s \in Stocks /\ g \in Groups /\ u \in Users
          /\ group[g] = u /\ item[s] = u
      BY <1>2, EndFacts DEF AddMember, End, WatchInv, Shape, ReadsHold, ItemReaders, GroupReaders
    <2>2. /\ member' \in {member, member \cup {<<g, s>>}}
          /\ UNCHANGED <<item, order, position, booked, group>>
      BY <1>2 DEF AddMember
    <2>3. Shape'
      BY <2>1, <2>2, ShapeKept DEF WatchInv, Shape
    <2>4. ReadsHold'
      BY <2>1, <2>2, ReadsKept
    <2>5. MembersAreWatched'
      BY <2>1, <2>2 DEF WatchInv, MembersAreWatched
    <2>6. QED
      BY <2>1, <2>3, <2>4, <2>5, EndFacts DEF WatchInv
  <1>3. CASE RemoveMember(q)
    <2>1. /\ End(q, "remove_member") /\ member' \subseteq member
          /\ UNCHANGED <<item, order, position, booked, group>>
      BY <1>3 DEF RemoveMember
    <2>2. Shape'
      BY <2>1, ShapeKept DEF WatchInv, Shape
    <2>3. ReadsHold'
      BY <2>1, ReadsKept
    <2>4. QED
      BY <2>1, <2>2, <2>3, EndFacts DEF WatchInv, MembersAreWatched
  <1>4. QED
    BY <1>1, <1>2, <1>3

LEMMA CommitPosition ==
  ASSUME WatchInv, NEW q \in Requests,
         AddPosition(q) \/ UpdatePosition(q) \/ DeletePosition(q)
  PROVE  WatchInv'
  <1> USE DEF items, positions, groups
  <1> DEFINE s == req[q].s
             u == req[q].u
  <1>1. PICK op \in {"add_position", "update_position", "delete_position"} : End(q, op)
    BY DEF AddPosition, UpdatePosition, DeletePosition
  <1>2. s \in Stocks /\ u \in Users /\ UNCHANGED <<item, order, group, member>>
    BY <1>1, EndFacts DEF WatchInv, Shape, End, AddPosition, UpdatePosition, DeletePosition
  <1>3. \/ UNCHANGED position
        \/ position[s] = Nobody /\ position' = [position EXCEPT ![s] = u]
        \/ position[s] = u /\ position' = [position EXCEPT ![s] = Nobody]
    BY DEF AddPosition, UpdatePosition, DeletePosition, End, WatchInv, ReadsHold, PositionReaders
  <1>4. position' \in [Stocks -> Users \cup {Nobody}]
    BY <1>2, <1>3 DEF WatchInv, Shape
  <1>5. DOMAIN booked' = Stocks
    BY DEF AddPosition, UpdatePosition, DeletePosition, WatchInv, Shape
  <1>6. Shape'
    BY <1>1, <1>2, <1>4, <1>5, ShapeKept DEF WatchInv, Shape
  <1>7. \A r \in Stocks : position[r] \in Users /\ position[r] # u => position'[r] = position[r]
    BY <1>2, <1>3, WatchlistAssumption DEF WatchInv, Shape
  <1>8. ReadsHold'
    BY <1>1, <1>2, <1>7, ReadsKept
  <1>9. QED
    BY <1>1, <1>2, <1>6, <1>8, EndFacts DEF WatchInv, MembersAreWatched
----------------------------------------------------------------------------
(* The invariant and the theorems.                                         *)

LEMMA InvInit == Init => WatchInv
  BY DEF Init, Free, WatchInv, Shape, Serial, ReadsHold, MembersAreWatched,
     ItemReaders, GroupReaders, PositionReaders

LEMMA CreateGroupKeeps ==
  ASSUME WatchInv, NEW u \in Users, NEW g \in Groups, CreateGroup(u, g)
  PROVE  WatchInv'
  <1>1. /\ group[g] = Nobody /\ group' = [group EXCEPT ![g] = u]
        /\ UNCHANGED <<item, order, position, booked, member, req>>
    BY DEF CreateGroup, items, positions
  <1>2. group' \in [Groups -> Users \cup {Nobody}]
    BY <1>1 DEF WatchInv, Shape
  <1>3. \A h \in Groups : group[h] \in Users => group'[h] = group[h]
    BY <1>1, WatchlistAssumption DEF WatchInv, Shape
  <1>4. Shape' /\ Serial'
    BY <1>1, <1>2 DEF WatchInv, Shape, Serial
  <1>5. ReadsHold'
    BY <1>1, <1>3 DEF WatchInv, Shape, ReadsHold, GroupReaders
  <1>6. MembersAreWatched'
    BY <1>1, <1>3 DEF WatchInv, Shape, MembersAreWatched
  <1>7. QED
    BY <1>4, <1>5, <1>6 DEF WatchInv

LEMMA BeginStep ==
  ASSUME WatchInv, OneAtATime, NEW q \in Requests, NEW u \in Users,
         \/ BeginReorder(q, u)
         \/ \E s \in Stocks : BeginStock(q, u, s)
         \/ \E g \in Groups : BeginDeleteGroup(q, u, g)
  PROVE  WatchInv'
  <1> USE DEF ItemReaders, GroupReaders, PositionReaders
  <1>1. CASE BeginReorder(q, u)
    <2>1. PICK rank : LET moved == {s \in ItemsOf(u) : rank[s] # order[s]} IN
                      Begin(q, "reorder_items", u, Nobody, Nobody, [s \in moved |-> rank[s]])
      BY <1>1 DEF BeginReorder
    <2>2. \A s \in ItemsOf(u) : s \in Stocks /\ item[s] = u
      BY DEF ItemsOf
    <2>3. QED
      BY <2>1, <2>2, BeginKeeps
  <1>2. ASSUME NEW s \in Stocks, BeginStock(q, u, s) PROVE WatchInv'
    <2>1. CASE BeginAddItem(q, u, s)
      BY <2>1, BeginKeeps DEF BeginAddItem
    <2>2. CASE BeginRemoveItem(q, u, s)
      BY <2>2, BeginKeeps DEF BeginRemoveItem
    <2>3. CASE BeginAddPosition(q, u, s)
      BY <2>3, BeginKeeps DEF BeginAddPosition
    <2>4. CASE BeginUpdatePosition(q, u, s)
      BY <2>4, BeginKeeps DEF BeginUpdatePosition
    <2>5. CASE BeginDeletePosition(q, u, s)
      BY <2>5, BeginKeeps DEF BeginDeletePosition
    <2>6. ASSUME NEW g \in Groups, BeginAddMember(q, u, g, s) PROVE WatchInv'
      BY <2>6, BeginKeeps DEF BeginAddMember
    <2>7. ASSUME NEW g \in Groups, BeginRemoveMember(q, u, g, s) PROVE WatchInv'
      BY <2>7, BeginKeeps DEF BeginRemoveMember
    <2>8. QED
      BY <1>2, <2>1, <2>2, <2>3, <2>4, <2>5, <2>6, <2>7 DEF BeginStock
  <1>3. ASSUME NEW g \in Groups, BeginDeleteGroup(q, u, g) PROVE WatchInv'
    BY <1>3, BeginKeeps DEF BeginDeleteGroup
  <1>4. QED
    BY <1>1, <1>2, <1>3

LEMMA InvStep == OneAtATime /\ WatchInv /\ [Next]_vars => WatchInv'
  <1> SUFFICES ASSUME OneAtATime, WatchInv, [Next]_vars PROVE WatchInv'
    OBVIOUS
  <1>1. ASSUME NEW q \in Requests, Commit(q) PROVE WatchInv'
    BY <1>1, CommitItem, CommitGroup, CommitPosition DEF Commit
  <1>2. CASE UNCHANGED vars
    BY <1>2 DEF vars, WatchInv, Shape, Serial, ReadsHold, MembersAreWatched
  <1>3. QED
    BY <1>1, <1>2, CreateGroupKeeps, BeginStep DEF Next

\* What is in a group is watched by the group's owner (MembersAreWatched),
\* as long as no user has two requests in flight.
THEOREM MembersWatched == ASSUME OneAtATime PROVE Spec => []MembersAreWatched
  <1>1. WatchInv => MembersAreWatched
    BY DEF WatchInv
  <1>2. WatchInv /\ [Next]_vars => WatchInv'
    BY InvStep
  <1>3. QED
    BY InvInit, <1>1, <1>2, PTL DEF Spec

\* Nobody's row is changed by another user's request (RowsAreOwn), although
\* the statements name the stock alone: the row a request has read is still
\* its user's when it writes.
THEOREM OwnRows == ASSUME OneAtATime PROVE Spec => RowsAreOwn
  <1> DEFINE Own ==
        \A s \in Stocks :
          /\ item[s] # Nobody /\ <<item[s], order[s]>>' # <<item[s], order[s]>> =>
               Commits(item[s])
          /\ position[s] # Nobody /\ <<position[s], booked[s]>>' # <<position[s], booked[s]>> =>
               Commits(position[s])
  <1>1. WatchInv /\ [Next]_vars => Own
    <2> SUFFICES ASSUME WatchInv, [Next]_vars PROVE Own
      OBVIOUS
    <2> USE DEF items, positions
    <2>1. ASSUME UNCHANGED <<item, order, position, booked>> PROVE Own
      BY <2>1
    <2>2. ASSUME NEW q \in Requests, Commit(q) PROVE Own
      <3> DEFINE t == req[q].s
                 u == req[q].u
      <3>1. Commits(u)
        <4>1. PICK op : op # "none" /\ End(q, op)
          BY <2>2 DEF Commit, AddItem, RemoveItem, Reorder, DeleteGroup, AddMember,
             RemoveMember, AddPosition, UpdatePosition, DeletePosition
        <4>2. QED
          BY <4>1, EndFacts DEF Commits
      <3>2. CASE AddItem(q)
        <4>1. UNCHANGED <<position, booked>>
          BY <3>2 DEF AddItem
        <4>2. \A s \in Stocks : item[s] # Nobody => item'[s] = item[s] /\ order'[s] = order[s]
          BY <3>2 DEF AddItem, WatchInv, Shape
        <4>3. QED
          BY <4>1, <4>2
      <3>3. CASE RemoveItem(q)
        <4>1. UNCHANGED <<position, booked>> /\ item[t] = u
          BY <3>3 DEF RemoveItem, End, WatchInv, ReadsHold, ItemReaders
        <4>2. \A s \in Stocks : item[s] # u => item'[s] = item[s] /\ order'[s] = order[s]
          BY <3>3, <4>1 DEF RemoveItem, ItemsOf, WatchInv, Shape
        <4>3. QED
          BY <3>1, <4>1, <4>2
      <3>4. CASE Reorder(q)
        <4>1. UNCHANGED <<item, position, booked>>
          BY <3>4 DEF Reorder
        <4>2. \A s \in DOMAIN req[q].ranks : item[s] = u
          BY <3>4 DEF Reorder, End, WatchInv, ReadsHold
        <4>3. \A s \in Stocks : item[s] # u => order'[s] = order[s]
          BY <3>4, <4>2 DEF Reorder
        <4>4. QED
          BY <3>1, <4>1, <4>3
      <3>5. CASE DeleteGroup(q) \/ AddMember(q) \/ RemoveMember(q)
        BY <3>5, <2>1 DEF DeleteGroup, AddMember, RemoveMember
      <3>6. CASE AddPosition(q)
        <4>1. UNCHANGED <<item, order>>
          BY <3>6 DEF AddPosition
        <4>2. \A s \in Stocks :
                position[s] # Nobody => position'[s] = position[s] /\ booked'[s] = booked[s]
          BY <3>6 DEF AddPosition, WatchInv, Shape
        <4>3. QED
          BY <4>1, <4>2
      <3>7. CASE UpdatePosition(q) \/ DeletePosition(q)
        <4>1. UNCHANGED <<item, order>> /\ position[t] = u
          BY <3>7 DEF UpdatePosition, DeletePosition, End, WatchInv, ReadsHold, PositionReaders
        <4>2. \A s \in Stocks :
                s # t => position'[s] = position[s] /\ booked'[s] = booked[s]
          BY <3>7 DEF UpdatePosition, DeletePosition, WatchInv, Shape
        <4>3. QED
          BY <3>1, <4>1, <4>2
      <3>8. QED
        BY <2>2, <3>2, <3>3, <3>4, <3>5, <3>6, <3>7 DEF Commit
    <2>3. ASSUME NEW u \in Users, NEW g \in Groups, CreateGroup(u, g) PROVE Own
      BY <2>3, <2>1 DEF CreateGroup
    <2>4. ASSUME NEW q \in Requests, NEW u \in Users,
                 \/ BeginReorder(q, u)
                 \/ \E s \in Stocks : BeginStock(q, u, s)
                 \/ \E g \in Groups : BeginDeleteGroup(q, u, g)
          PROVE  Own
      BY <2>4, <2>1 DEF BeginReorder, BeginStock, BeginDeleteGroup, BeginAddItem,
         BeginRemoveItem, BeginAddPosition, BeginUpdatePosition, BeginDeletePosition,
         BeginAddMember, BeginRemoveMember, Begin
    <2>5. CASE UNCHANGED vars
      BY <2>5, <2>1 DEF vars
    <2>6. QED
      BY <2>2, <2>3, <2>4, <2>5 DEF Next
  <1>2. WatchInv /\ [Next]_vars => WatchInv'
    BY InvStep
  <1>3. WatchInv /\ [Next]_vars => [Own]_vars
    BY <1>1
  <1>4. QED
    BY InvInit, <1>2, <1>3, PTL DEF Spec, RowsAreOwn

-----------------------------------------------------------------------------
(* Watchlist: a user's list is in order. What a request has counted still   *)
(* holds when it writes (Relies), for the same reason, and no list but its  *)
(* user's is changed by a commit (CommitKeepsLists).                        *)

-----------------------------------------------------------------------------
(* The list of a user: full at most, and numbered without gaps.            *)

\* The rows of a table that are a user's.
RowsOf(table, u) == {s \in Stocks : table[s] = u}

\* A user's rows in the tables it, of items, numbered by ord, and held, of positions.
IsList(u, it, ord, held) ==
  /\ IsFiniteSet(RowsOf(it, u)) /\ Cardinality(RowsOf(it, u)) <= MaxItems
  /\ {ord[s] : s \in RowsOf(it, u)} = 0 .. Cardinality(RowsOf(it, u)) - 1
  /\ IsFiniteSet(RowsOf(held, u)) /\ Cardinality(RowsOf(held, u)) <= MaxPositions

\* The numbers of a user's items once those in ranks are written.
NumbersAfter(u, it, ord, ranks) ==
  {IF s \in DOMAIN ranks THEN ranks[s] ELSE ord[s] : s \in RowsOf(it, u)}

\* What a request has counted, and still relies on when it writes.
Relies(r, it, ord, held) ==
  /\ r.op = "add_item" =>
       r.ranks[r.s] = Cardinality(RowsOf(it, r.u)) /\ Cardinality(RowsOf(it, r.u)) < MaxItems
  /\ r.op = "reorder_items" =>
       NumbersAfter(r.u, it, ord, r.ranks) = 0 .. Cardinality(RowsOf(it, r.u)) - 1
  /\ r.op = "add_position" => Cardinality(RowsOf(held, r.u)) < MaxPositions

ListInv ==
  /\ WatchInv /\ TypeOK
  /\ \A u \in Users : IsList(u, item, order, position)
  /\ \A q \in Requests : Relies(req[q], item, order, position)

\* Whatever is done to the rows of others is all the same to a user.
LEMMA SameList ==
  ASSUME NEW u, NEW it, NEW ord, NEW held, NEW it2, NEW ord2, NEW held2,
         RowsOf(it2, u) = RowsOf(it, u), RowsOf(held2, u) = RowsOf(held, u),
         \A s \in RowsOf(it, u) : ord2[s] = ord[s], IsList(u, it, ord, held)
  PROVE  IsList(u, it2, ord2, held2)
  <1>1. {ord2[s] : s \in RowsOf(it2, u)} = {ord[s] : s \in RowsOf(it, u)}
    OBVIOUS
  <1> QED BY <1>1 DEF IsList

LEMMA SameCounts ==
  ASSUME NEW r, NEW it, NEW ord, NEW held, NEW it2, NEW ord2, NEW held2,
         RowsOf(it2, r.u) = RowsOf(it, r.u), RowsOf(held2, r.u) = RowsOf(held, r.u),
         \A s \in RowsOf(it, r.u) : ord2[s] = ord[s], Relies(r, it, ord, held)
  PROVE  Relies(r, it2, ord2, held2)
  <1>1. NumbersAfter(r.u, it2, ord2, r.ranks) = NumbersAfter(r.u, it, ord, r.ranks)
    BY DEF NumbersAfter
  <1> QED BY <1>1 DEF Relies

LEMMA FreeIsTyped == Free \in RequestRec
  <1>1. NoRanks \in [{} -> 0 .. MaxItems]
    BY DEF NoRanks
  <1>2. NoRanks \in Ranks
    BY <1>1 DEF Ranks
  <1> QED BY <1>2 DEF Free, RequestRec, Ops

\* A request that begins changes no list; it has counted, or counts on nothing.
LEMMA BeginKeepsLists ==
  ASSUME ListInv, WatchInv', NEW q \in Requests, NEW u \in Users,
         NEW op \in Ops, NEW s \in Stocks \cup {Nobody}, NEW g \in Groups \cup {Nobody}, NEW ranks \in Ranks,
         Begin(q, op, u, s, g, ranks),
         Relies([op |-> op, u |-> u, s |-> s, g |-> g, ranks |-> ranks], item, order, position)
  PROVE  ListInv'
  <1> DEFINE new == [op |-> op, u |-> u, s |-> s, g |-> g, ranks |-> ranks]
  <1>1. /\ req' = [req EXCEPT ![q] = new]
        /\ UNCHANGED <<item, order, position, booked, group, deleted, member>>
    BY DEF Begin, items, positions, groups
  <1>2. new \in RequestRec
    BY DEF RequestRec
  <1>3. TypeOK'
    BY <1>1, <1>2 DEF ListInv, TypeOK
  <1>4. \A r \in Requests : req'[r] = new \/ req'[r] = req[r]
    BY <1>1 DEF ListInv, TypeOK
  <1>5. \A r \in Requests : Relies(req'[r], item, order, position)
    BY <1>4 DEF ListInv
  <1> QED BY <1>1, <1>3, <1>5 DEF ListInv

\* A commit that keeps its user's list, and the rows of every other user.
LEMMA CommitKeepsLists ==
  ASSUME ListInv, WatchInv', NEW q \in Requests, NEW op, op # "none", End(q, op),
         order' \in [Stocks -> 0 .. MaxItems], booked' \in [Stocks -> Users \cup {Nobody}], deleted' \subseteq Groups,
         IsList(req[q].u, item', order', position'),
         \A s \in Stocks : item[s] \in Users /\ item[s] # req[q].u => item'[s] = item[s] /\ order'[s] = order[s],
         \A s \in Stocks : item'[s] \in Users /\ item'[s] # req[q].u => item[s] = item'[s],
         \A s \in Stocks : position[s] \in Users /\ position[s] # req[q].u => position'[s] = position[s],
         \A s \in Stocks : position'[s] \in Users /\ position'[s] # req[q].u => position[s] = position'[s]
  PROVE  ListInv'
  <1>1. /\ req' = [req EXCEPT ![q] = Free] /\ Free.op = "none"
        /\ \A r \in Requests : r # q => req'[r] = req[r]
        /\ \A r \in Requests : r # q /\ req[r].op # "none" => req[r].u # req[q].u /\ req[r].u \in Users
    <2>1. WatchInv
      BY DEF ListInv
    <2>2. req' = [req EXCEPT ![q] = Free]
      BY DEF End
    <2>3. /\ Free.op = "none" /\ \A r \in Requests : r # q => req'[r] = req[r]
          /\ \A r \in Requests : r # q /\ req[r].op # "none" => req[r].u # req[q].u
      BY <2>1, EndFacts
    <2>4. \A r \in Requests : req[r].op # "none" => req[r].u \in Users
      BY <2>1 DEF WatchInv, Shape
    <2> QED BY <2>2, <2>3, <2>4
  <1>2. TypeOK'
    BY <1>1, FreeIsTyped DEF ListInv, TypeOK, WatchInv, Shape
  <1>3. ASSUME NEW v \in Users, v # req[q].u
        PROVE  /\ RowsOf(item', v) = RowsOf(item, v) /\ RowsOf(position', v) = RowsOf(position, v)
               /\ \A s \in RowsOf(item, v) : order'[s] = order[s]
    BY <1>3 DEF RowsOf
  <1>4. ASSUME NEW v \in Users PROVE IsList(v, item', order', position')
    <2>1. CASE v # req[q].u
      BY <1>3, <2>1, SameList DEF ListInv
    <2> QED BY <2>1
  <1>5. ASSUME NEW r \in Requests PROVE Relies(req'[r], item', order', position')
    <2>1. CASE r # q /\ req[r].op # "none"
      <3>1. req'[r] = req[r] /\ req[r].u \in Users /\ req[r].u # req[q].u
        BY <1>1, <2>1
      <3>2. Relies(req[r], item, order, position)
        BY DEF ListInv
      <3>3. /\ RowsOf(item', req[r].u) = RowsOf(item, req[r].u) /\ RowsOf(position', req[r].u) = RowsOf(position, req[r].u)
            /\ \A s \in RowsOf(item, req[r].u) : order'[s] = order[s]
        BY <1>3, <3>1
      <3>4. Relies(req[r], item', order', position')
        BY <3>2, <3>3, SameCounts
      <3> QED BY <3>1, <3>4
    <2>2. CASE req'[r].op = "none"
      BY <2>2 DEF Relies
    <2>3. CASE r = q
      <3>1. req'[r] = Free
        BY <1>1, <2>3 DEF ListInv, TypeOK
      <3> QED BY <1>1, <2>2, <3>1
    <2>4. CASE r # q /\ req[r].op = "none"
      BY <1>1, <2>2, <2>4
    <2> QED BY <2>1, <2>3, <2>4
  <1> QED BY <1>2, <1>4, <1>5 DEF ListInv

LEMMA BeginListStep ==
  ASSUME ListInv, WatchInv', NEW q \in Requests, NEW u \in Users,
         \/ BeginReorder(q, u)
         \/ \E s \in Stocks : BeginStock(q, u, s)
         \/ \E g \in Groups : BeginDeleteGroup(q, u, g)
  PROVE  ListInv'
  <1>0. NoRanks \in Ranks
    BY FreeIsTyped DEF Free, RequestRec
  <1> USE DEF Ops
  <1>1. CASE BeginReorder(q, u)
    <2>1. PICK rank \in [ItemsOf(u) -> 0 .. MaxItems] :
            /\ {rank[s] : s \in ItemsOf(u)} = 0 .. Cardinality(ItemsOf(u)) - 1
            /\ LET moved == {s \in ItemsOf(u) : rank[s] # order[s]} IN
               Begin(q, "reorder_items", u, Nobody, Nobody, [s \in moved |-> rank[s]])
      BY <1>1 DEF BeginReorder
    <2>2. PICK moved : moved = {s \in ItemsOf(u) : rank[s] # order[s]}
      OBVIOUS
    <2>3. PICK ranks : ranks = [s \in moved |-> rank[s]]
      OBVIOUS
    <2>4. moved \subseteq Stocks /\ ranks \in [moved -> 0 .. MaxItems] /\ ItemsOf(u) = RowsOf(item, u)
      BY <2>2, <2>3 DEF ItemsOf, RowsOf
    <2>5. ranks \in Ranks
      BY <2>4 DEF Ranks
    <2>6. NumbersAfter(u, item, order, ranks) = {rank[s] : s \in ItemsOf(u)}
      BY <2>2, <2>3, <2>4 DEF NumbersAfter
    <2>7. Relies([op |-> "reorder_items", u |-> u, s |-> Nobody, g |-> Nobody, ranks |-> ranks], item, order, position)
      BY <2>1, <2>4, <2>6 DEF Relies
    <2> QED BY <2>1, <2>2, <2>3, <2>5, <2>7, BeginKeepsLists
  <1>2. ASSUME NEW s \in Stocks, BeginStock(q, u, s) PROVE ListInv'
    <2>1. CASE BeginAddItem(q, u, s)
      <3>1. PICK n : n = Cardinality(ItemsOf(u))
        OBVIOUS
      <3>2. PICK ranks : ranks = [r \in {s} |-> n]
        OBVIOUS
      <3>3. n \in Nat /\ n < MaxItems /\ n = Cardinality(RowsOf(item, u))
        BY <2>1, <3>1, FS_CardinalityType DEF BeginAddItem, ListInv, IsList, ItemsOf, RowsOf
      <3>4. n \in 0 .. MaxItems
        BY <3>3, WatchlistAssumption
      <3>5. ranks \in Ranks
        BY <3>2, <3>4 DEF Ranks
      <3>6. Relies([op |-> "add_item", u |-> u, s |-> s, g |-> Nobody, ranks |-> ranks], item, order, position)
        BY <3>2, <3>3 DEF Relies
      <3> QED BY <2>1, <3>1, <3>2, <3>5, <3>6, BeginKeepsLists DEF BeginAddItem
    <2>2. CASE BeginAddPosition(q, u, s)
      <3>1. Relies([op |-> "add_position", u |-> u, s |-> s, g |-> Nobody, ranks |-> NoRanks], item, order, position)
        BY <2>2 DEF Relies, BeginAddPosition, PositionsOf, RowsOf
      <3> QED BY <1>0, <2>2, <3>1, BeginKeepsLists DEF BeginAddPosition
    <2>3. \A g, op : op \in {"remove_item", "update_position", "delete_position", "add_member", "remove_member"} =>
            Relies([op |-> op, u |-> u, s |-> s, g |-> g, ranks |-> NoRanks], item, order, position)
      BY DEF Relies
    <2>4. CASE BeginRemoveItem(q, u, s)
      BY <1>0, <2>3, <2>4, BeginKeepsLists DEF BeginRemoveItem
    <2>5. CASE BeginUpdatePosition(q, u, s)
      BY <1>0, <2>3, <2>5, BeginKeepsLists DEF BeginUpdatePosition
    <2>6. CASE BeginDeletePosition(q, u, s)
      BY <1>0, <2>3, <2>6, BeginKeepsLists DEF BeginDeletePosition
    <2>7. ASSUME NEW g \in Groups, BeginAddMember(q, u, g, s) PROVE ListInv'
      BY <1>0, <2>3, <2>7, BeginKeepsLists DEF BeginAddMember
    <2>8. ASSUME NEW g \in Groups, BeginRemoveMember(q, u, g, s) PROVE ListInv'
      BY <1>0, <2>3, <2>8, BeginKeepsLists DEF BeginRemoveMember
    <2> QED BY <1>2, <2>1, <2>2, <2>4, <2>5, <2>6, <2>7, <2>8 DEF BeginStock
  <1>3. ASSUME NEW g \in Groups, BeginDeleteGroup(q, u, g) PROVE ListInv'
    <2>1. Relies([op |-> "delete_group", u |-> u, s |-> Nobody, g |-> g, ranks |-> NoRanks], item, order, position)
      BY DEF Relies
    <2> QED BY <1>0, <1>3, <2>1, BeginKeepsLists DEF BeginDeleteGroup
  <1> QED BY <1>1, <1>2, <1>3

-----------------------------------------------------------------------------
(* The commits that change a list.                                         *)

LEMMA AddItemKeepsLists == ASSUME ListInv, WatchInv', NEW q \in Requests, AddItem(q) PROVE ListInv'
  <1> DEFINE s == req[q].s
             u == req[q].u
  <1>1. /\ End(q, "add_item") /\ s \in Stocks /\ u \in Users
        /\ UNCHANGED <<position, booked, deleted>>
    <2>1. End(q, "add_item") /\ UNCHANGED <<position, booked, deleted>>
      BY DEF AddItem, positions, groups
    <2> QED BY <2>1 DEF End, ListInv, WatchInv, Shape
  <1>2. IsList(u, item, order, position) /\ Relies(req[q], item, order, position)
    BY <1>1 DEF ListInv
  <1>3. PICK n : n = Cardinality(RowsOf(item, u))
    OBVIOUS
  <1>4. n \in Nat /\ n < MaxItems /\ req[q].ranks[s] = n /\ n \in 0 .. MaxItems
    BY <1>1, <1>2, <1>3, FS_CardinalityType, WatchlistAssumption DEF IsList, Relies, End
  <1>5. CASE UNCHANGED <<item, order>>
    <2>1. IsList(u, item', order', position')
      BY <1>1, <1>2, <1>5
    <2>2. /\ order' \in [Stocks -> 0 .. MaxItems] /\ booked' \in [Stocks -> Users \cup {Nobody}] /\ deleted' \subseteq Groups
      BY <1>1, <1>5 DEF ListInv, TypeOK
    <2> QED BY <1>1, <1>5, <2>1, <2>2, CommitKeepsLists
  <1>6. CASE /\ item[s] = Nobody /\ item' = [item EXCEPT ![s] = u]
             /\ order' = [order EXCEPT ![s] = n]
    <2>1. RowsOf(item', u) = RowsOf(item, u) \cup {s} /\ s \notin RowsOf(item, u)
      BY <1>1, <1>6, WatchlistAssumption DEF RowsOf, ListInv, TypeOK
    <2>2. IsFiniteSet(RowsOf(item', u)) /\ Cardinality(RowsOf(item', u)) = n + 1
      BY <1>2, <1>3, <2>1, FS_AddElement DEF IsList
    <2>3. {order'[t] : t \in RowsOf(item', u)} = {order[t] : t \in RowsOf(item, u)} \cup {n}
      <3>1. order'[s] = n /\ \A t \in RowsOf(item, u) : order'[t] = order[t]
        BY <1>1, <1>6, <2>1 DEF ListInv, TypeOK, RowsOf
      <3> QED BY <2>1, <3>1
    <2>4. {order[t] : t \in RowsOf(item, u)} = 0 .. n - 1
      BY <1>2, <1>3 DEF IsList
    <2>5. (0 .. n - 1) \cup {n} = 0 .. (n + 1) - 1
      BY <1>4
    <2>6. n + 1 <= MaxItems
      BY <1>4, WatchlistAssumption
    <2>7. IsList(u, item', order', position')
      BY <1>1, <1>2, <2>2, <2>3, <2>4, <2>5, <2>6 DEF IsList
    <2>8. /\ order' \in [Stocks -> 0 .. MaxItems] /\ booked' \in [Stocks -> Users \cup {Nobody}] /\ deleted' \subseteq Groups
      BY <1>1, <1>4, <1>6 DEF ListInv, TypeOK
    <2>9. /\ \A t \in Stocks : item[t] \in Users => item'[t] = item[t] /\ order'[t] = order[t]
          /\ \A t \in Stocks : item'[t] # u => item[t] = item'[t]
      BY <1>1, <1>6, WatchlistAssumption DEF ListInv, TypeOK
    <2> QED BY <1>1, <2>7, <2>8, <2>9, CommitKeepsLists
  <1>7. UNCHANGED <<item, order>> \/ (item[s] = Nobody /\ item' = [item EXCEPT ![s] = u] /\ order' = [order EXCEPT ![s] = n])
    BY <1>4 DEF AddItem, items
  <1> QED BY <1>5, <1>6, <1>7

LEMMA RemoveItemKeepsLists == ASSUME ListInv, WatchInv', NEW q \in Requests, RemoveItem(q) PROVE ListInv'
  <1> DEFINE s == req[q].s
             u == req[q].u
             rest == ItemsOf(u) \ {s}
  <1>1. End(q, "remove_item") /\ UNCHANGED <<position, booked, deleted>> /\ item' = [item EXCEPT ![s] = Nobody]
    BY DEF RemoveItem, positions, groups
  <1>2. s \in Stocks /\ u \in Users /\ item[s] = u
    BY <1>1 DEF End, ListInv, WatchInv, Shape, ReadsHold, ItemReaders
  <1>3. PICK rank \in Renumbered(rest) : order' = [r \in Stocks |-> IF r \in rest THEN rank[r] ELSE IF r = s THEN 0 ELSE order[r]]
    BY DEF RemoveItem
  <1>4. rank \in [rest -> 0 .. MaxItems] /\ {rank[r] : r \in rest} = 0 .. Cardinality(rest) - 1
    BY <1>3 DEF Renumbered
  <1>5. RowsOf(item', u) = rest /\ rest \subseteq RowsOf(item, u) /\ rest \subseteq Stocks
    BY <1>1, <1>2, WatchlistAssumption DEF RowsOf, ItemsOf, ListInv, TypeOK
  <1>6. IsList(u, item, order, position)
    BY <1>2 DEF ListInv
  <1>7. IsList(u, item', order', position')
    <2>1. IsFiniteSet(rest) /\ Cardinality(rest) <= Cardinality(RowsOf(item, u)) /\ Cardinality(rest) \in Nat
          /\ Cardinality(RowsOf(item, u)) \in Nat
      <3> HIDE DEF rest
      <3> QED BY <1>5, <1>6, FS_Subset, FS_CardinalityType DEF IsList
    <2>2. {order'[r] : r \in rest} = {rank[r] : r \in rest}
      <3>1. \A r \in rest : order'[r] = rank[r]
        BY <1>3, <1>5
      <3> HIDE DEF rest
      <3> QED BY <3>1
    <2>3. Cardinality(rest) <= MaxItems
      <3> HIDE DEF rest
      <3> QED BY <1>6, <2>1, WatchlistAssumption DEF IsList
    <2> HIDE DEF rest
    <2> QED BY <1>1, <1>4, <1>5, <1>6, <2>1, <2>2, <2>3 DEF IsList
  <1>8. /\ order' \in [Stocks -> 0 .. MaxItems] /\ booked' \in [Stocks -> Users \cup {Nobody}] /\ deleted' \subseteq Groups
    <2>1. 0 \in 0 .. MaxItems
      BY WatchlistAssumption
    <2> QED BY <1>1, <1>3, <1>4, <2>1 DEF ListInv, TypeOK
  <1>9. /\ \A t \in Stocks : item[t] # u => item'[t] = item[t] /\ order'[t] = order[t]
        /\ \A t \in Stocks : item'[t] \in Users => item[t] = item'[t]
    BY <1>1, <1>2, <1>3, WatchlistAssumption DEF ItemsOf, ListInv, TypeOK
  <1> QED BY <1>1, <1>7, <1>8, <1>9, CommitKeepsLists

LEMMA ReorderKeepsLists == ASSUME ListInv, WatchInv', NEW q \in Requests, Reorder(q) PROVE ListInv'
  <1> DEFINE u == req[q].u
             ranks == req[q].ranks
  <1>1. End(q, "reorder_items") /\ UNCHANGED <<item, position, booked, deleted>> /\ req[q].op = "reorder_items"
    BY DEF Reorder, positions, groups, End
  <1>2. u \in Users /\ \A s \in DOMAIN ranks : s \in Stocks /\ item[s] = u
    BY <1>1 DEF ListInv, WatchInv, Shape, ReadsHold
  <1>3. order' = [s \in Stocks |-> IF s \in DOMAIN ranks THEN ranks[s] ELSE order[s]]
    <2>1. {s \in DOMAIN ranks : item[s] # Nobody} = DOMAIN ranks
      BY <1>2, WatchlistAssumption
    <2> QED BY <2>1 DEF Reorder
  <1>4. ranks \in [DOMAIN ranks -> 0 .. MaxItems]
    BY DEF ListInv, TypeOK, RequestRec, Ranks
  <1>5. {order'[s] : s \in RowsOf(item, u)} = NumbersAfter(u, item, order, ranks)
    BY <1>3 DEF NumbersAfter, RowsOf
  <1>6. NumbersAfter(u, item, order, ranks) = 0 .. Cardinality(RowsOf(item, u)) - 1
    BY <1>1 DEF ListInv, Relies
  <1>7. IsList(u, item', order', position')
    BY <1>1, <1>2, <1>5, <1>6 DEF IsList, ListInv
  <1>8. /\ order' \in [Stocks -> 0 .. MaxItems] /\ booked' \in [Stocks -> Users \cup {Nobody}] /\ deleted' \subseteq Groups
    BY <1>1, <1>3, <1>4 DEF ListInv, TypeOK
  <1>9. \A t \in Stocks : item[t] # u => order'[t] = order[t]
    BY <1>2, <1>3
  <1> QED BY <1>1, <1>7, <1>8, <1>9, CommitKeepsLists

LEMMA PositionKeepsLists ==
  ASSUME ListInv, WatchInv', NEW q \in Requests, AddPosition(q) \/ UpdatePosition(q) \/ DeletePosition(q)
  PROVE  ListInv'
  <1> DEFINE s == req[q].s
             u == req[q].u
  <1>1. PICK op \in {"add_position", "update_position", "delete_position"} : End(q, op)
    BY DEF AddPosition, UpdatePosition, DeletePosition
  <1>2. s \in Stocks /\ u \in Users /\ UNCHANGED <<item, order, deleted>>
    <2>1. UNCHANGED <<item, order, deleted>>
      BY DEF AddPosition, UpdatePosition, DeletePosition, items, groups
    <2> QED BY <1>1, <2>1 DEF End, ListInv, WatchInv, Shape
  <1>3. \/ UNCHANGED position
        \/ req[q].op = "add_position" /\ position[s] = Nobody /\ position' = [position EXCEPT ![s] = u]
        \/ position[s] = u /\ position' = [position EXCEPT ![s] = Nobody]
    BY DEF AddPosition, UpdatePosition, DeletePosition, End, ListInv, WatchInv, ReadsHold, PositionReaders, positions
  <1>4. booked' \in [Stocks -> Users \cup {Nobody}]
    BY <1>2 DEF AddPosition, UpdatePosition, DeletePosition, ListInv, TypeOK, positions
  <1>5. IsList(u, item, order, position) /\ Relies(req[q], item, order, position)
    BY <1>2 DEF ListInv
  <1>6. IsFiniteSet(RowsOf(position', u)) /\ Cardinality(RowsOf(position', u)) <= MaxPositions
    <2>1. CASE UNCHANGED position
      BY <1>5, <2>1 DEF IsList
    <2>2. CASE req[q].op = "add_position" /\ position[s] = Nobody /\ position' = [position EXCEPT ![s] = u]
      <3>1. RowsOf(position', u) = RowsOf(position, u) \cup {s} /\ s \notin RowsOf(position, u)
        BY <1>2, <2>2, WatchlistAssumption DEF RowsOf, ListInv, TypeOK
      <3>2. IsFiniteSet(RowsOf(position', u)) /\ Cardinality(RowsOf(position', u)) = Cardinality(RowsOf(position, u)) + 1
        BY <1>5, <3>1, FS_AddElement DEF IsList
      <3>3. Cardinality(RowsOf(position, u)) < MaxPositions /\ Cardinality(RowsOf(position, u)) \in Nat
        BY <1>5, <2>2, FS_CardinalityType DEF IsList, Relies
      <3> QED BY <3>2, <3>3, WatchlistAssumption
    <2>3. CASE position[s] = u /\ position' = [position EXCEPT ![s] = Nobody]
      <3>1. RowsOf(position', u) \subseteq RowsOf(position, u)
        BY <1>2, <2>3, WatchlistAssumption DEF RowsOf, ListInv, TypeOK
      <3>2. /\ IsFiniteSet(RowsOf(position', u)) /\ Cardinality(RowsOf(position', u)) <= Cardinality(RowsOf(position, u))
            /\ Cardinality(RowsOf(position', u)) \in Nat /\ Cardinality(RowsOf(position, u)) \in Nat
        BY <1>5, <3>1, FS_Subset, FS_CardinalityType DEF IsList
      <3> QED BY <1>5, <3>2, WatchlistAssumption DEF IsList
    <2> QED BY <1>3, <2>1, <2>2, <2>3
  <1>7. IsList(u, item', order', position')
    BY <1>2, <1>5, <1>6 DEF IsList
  <1>8. /\ \A t \in Stocks : position[t] \in Users /\ position[t] # u => position'[t] = position[t]
        /\ \A t \in Stocks : position'[t] \in Users /\ position'[t] # u => position[t] = position'[t]
    BY <1>2, <1>3, WatchlistAssumption DEF ListInv, TypeOK
  <1>9. order' \in [Stocks -> 0 .. MaxItems] /\ deleted' \subseteq Groups
    BY <1>2 DEF ListInv, TypeOK
  <1> QED BY <1>1, <1>2, <1>4, <1>7, <1>8, <1>9, CommitKeepsLists

LEMMA GroupKeepsLists ==
  ASSUME ListInv, WatchInv', NEW q \in Requests, DeleteGroup(q) \/ AddMember(q) \/ RemoveMember(q)
  PROVE  ListInv'
  <1>1. PICK op \in {"delete_group", "add_member", "remove_member"} : End(q, op)
    BY DEF DeleteGroup, AddMember, RemoveMember
  <1>2. UNCHANGED <<item, order, position, booked>>
    BY DEF DeleteGroup, AddMember, RemoveMember, items, positions
  <1>3. req[q].u \in Users /\ deleted' \subseteq Groups
    BY <1>1 DEF DeleteGroup, AddMember, RemoveMember, End, groups, ListInv, TypeOK, WatchInv, Shape, GroupReaders
  <1>4. IsList(req[q].u, item', order', position')
    BY <1>2, <1>3 DEF ListInv
  <1>5. order' \in [Stocks -> 0 .. MaxItems] /\ booked' \in [Stocks -> Users \cup {Nobody}]
    BY <1>2 DEF ListInv, TypeOK
  <1> QED BY <1>1, <1>2, <1>3, <1>4, <1>5, CommitKeepsLists

\* A user's list is one that the page can show (ListIsInOrder): full at most,
\* and numbered without gaps and repeats, so that a new item goes last
\* (repository.py 86, 105-107, 122-124), as long as no user has two requests
\* in flight.
THEOREM ListsAreInOrder == ASSUME OneAtATime PROVE Spec => []ListIsInOrder
  <1>1. Init => ListInv
    <2> SUFFICES ASSUME Init PROVE ListInv
      OBVIOUS
    <2>1. WatchInv
      BY InvInit
    <2>2. TypeOK
      <3>1. 0 \in 0 .. MaxItems
        BY WatchlistAssumption
      <3> QED BY <3>1, FreeIsTyped DEF Init, TypeOK
    <2>3. \A u \in Users : RowsOf(item, u) = {} /\ RowsOf(position, u) = {}
      BY WatchlistAssumption DEF Init, RowsOf
    <2>4. \A u \in Users : IsList(u, item, order, position)
      BY <2>3, FS_EmptySet, WatchlistAssumption DEF IsList
    <2>5. \A q \in Requests : Relies(req[q], item, order, position)
      BY DEF Init, Free, Relies
    <2> QED BY <2>1, <2>2, <2>4, <2>5 DEF ListInv
  <1>2. ListInv /\ [Next]_vars => ListInv'
    <2> SUFFICES ASSUME ListInv, [Next]_vars PROVE ListInv'
      OBVIOUS
    <2>1. WatchInv'
      BY InvStep DEF ListInv
    <2>2. ASSUME NEW q \in Requests, Commit(q) PROVE ListInv'
      BY <2>1, <2>2, AddItemKeepsLists, RemoveItemKeepsLists, ReorderKeepsLists, PositionKeepsLists, GroupKeepsLists DEF Commit
    <2>3. ASSUME NEW u \in Users, NEW g \in Groups, CreateGroup(u, g) PROVE ListInv'
      BY <2>1, <2>3 DEF CreateGroup, ListInv, TypeOK, items, positions
    <2>4. CASE UNCHANGED vars
      BY <2>1, <2>4 DEF vars, ListInv, TypeOK
    <2> QED BY <2>1, <2>2, <2>3, <2>4, BeginListStep DEF Next
  <1>3. ListInv => ListIsInOrder
    <2> SUFFICES ASSUME ListInv PROVE ListIsInOrder
      OBVIOUS
    <2>1. \A u : ItemsOf(u) = RowsOf(item, u) /\ PositionsOf(u) = RowsOf(position, u)
      BY DEF ItemsOf, PositionsOf, RowsOf
    <2> QED BY <2>1 DEF ListInv, IsList, ListIsInOrder, WithinLimits, DenseOrder
  <1> QED BY <1>1, <1>2, <1>3, PTL DEF Spec

-----------------------------------------------------------------------------
(* CtaStrategies: every share is sold once, some day after the one it was   *)
(* bought on, for every volume, lot and signal, when every sell order is    *)
(* filled. What is held is what is on the books or on order.                *)

\* What is held, what is on the books and what the order at work is for are
\* counted in shares.
CtaTypes ==
    /\ pos \in Nat /\ old \in Nat /\ fresh \in Nat
    /\ working.qty \in Nat

CtaInv == CtaTypes /\ SoldOnceAndLater

\* Whole lots of a volume are no more than the volume.
LEMMA WholeLots ==
    ASSUME NEW v \in Nat
    PROVE  RoundVolume(v) \in Nat /\ RoundVolume(v) <= v
<1>1. PICK n \in Nat \ {0} : n = Lot
  BY CtaAssumption
<1>2. PICK k \in Nat : k = v \div n
  BY <1>1
<1>3. k * n <= v /\ k * n \in Nat
  BY ONLY v \in Nat, n \in Nat \ {0}, k \in Nat, k = v \div n
<1>4. RoundVolume(v) = k * n
  BY <1>1, <1>2 DEF RoundVolume
<1> QED BY <1>3, <1>4

LEMMA SellsNoMore ==
    ASSUME NEW held \in Nat, NEW before \in Nat, NEW today
    PROVE  Sellable(held, before, today) \in Nat /\ Sellable(held, before, today) <= before
<1>1. RoundVolume(held) \in Nat
  BY WholeLots
<1>2. LesserOf(RoundVolume(held), before) \in Nat /\ LesserOf(RoundVolume(held), before) <= before
  BY <1>1 DEF LesserOf
<1> QED BY <1>2, WholeLots DEF Sellable

LEMMA DayKeeps == ASSUME CtaInv, SellsFill, NEW b \in BarShapes, NewBar(b) PROVE CtaInv'
<1> DEFINE bought == IF working.side = "buy" /\ b.low <= working.price THEN working.qty ELSE 0
           sold == IF working.side = "sell" THEN working.qty ELSE 0
           held == pos + bought - sold
           before == old + fresh
<1>1. /\ bought \in Nat /\ sold \in Nat /\ before \in Nat /\ held = before + bought
  BY DEF CtaInv, CtaTypes, SoldOnceAndLater
<1>2. PICK qty, side, volume, price :
          /\ pos' = held /\ fresh' = bought /\ old' = before - qty
          /\ qty \in {0, Sellable(held, before, bought)} /\ volume = RoundVolume(TradeVolume)
          /\ \/ qty > 0 /\ working' = [side |-> "sell", price |-> price, qty |-> qty]
             \/ ~ (qty > 0) /\ working' = [side |-> "buy", price |-> price, qty |-> volume]
             \/ ~ (qty > 0) /\ working' = [side |-> "none", price |-> price, qty |-> 0]
  BY DEF NewBar, NoOrder, Booked
<1>3. qty \in Nat /\ qty <= before /\ volume \in Nat
  BY <1>1, <1>2, SellsNoMore, WholeLots, CtaAssumption
<1> HIDE DEF bought, sold, held, before
<1> QED BY <1>1, <1>2, <1>3 DEF CtaInv, CtaTypes, SoldOnceAndLater

\* Every share is sold once, on a later day than it was bought (ashare_template.py
\* sell_stock and on_trade), as long as every sell order is filled.
THEOREM LotsAreSoldOnce == SellsFill => (CtaSpec => []SoldOnceAndLater)
<1> SUFFICES ASSUME SellsFill PROVE CtaSpec => []SoldOnceAndLater
  OBVIOUS
<1>1. CtaInit => CtaInv
  BY DEF CtaInit, CtaInv, CtaTypes, SoldOnceAndLater, NoOrder
<1>2. CtaInv /\ [CtaNext]_ctaVars => CtaInv'
  <2>1. CtaInv /\ UNCHANGED ctaVars => CtaInv'
    BY DEF CtaInv, CtaTypes, SoldOnceAndLater, ctaVars
  <2> QED BY <2>1, DayKeeps DEF CtaNext
<1>3. CtaInv => SoldOnceAndLater
  BY DEF CtaInv
<1> QED BY <1>1, <1>2, <1>3, PTL DEF CtaSpec

-----------------------------------------------------------------------------
(* CtaStrategies over SignalRules: the board tells what the aligned         *)
(* strategies do. Both read the same comparisons, in another order: what is *)
(* proved is that no bar is a buy and a sell (CrossIsOneWay,                *)
(* ChannelIsOpen), and that a sum of closes stays as later bars come        *)
(* (SumOfCloses).                                                           *)

BarsAreBars == bars \in Seq(BarShapes)

\* The bars of k are those m begins with.
Begins(k, m) == \A j \in 1..Len(k) : m[j] = k[j]

\* The closes of some bars have a sum, and it does not depend on what comes after them.
LEMMA SumOfCloses ==
  ASSUME NEW k \in Seq(BarShapes), NEW m, Begins(k, m),
         NEW i \in Int, i <= Len(k), NEW n \in Nat, n <= i
  PROVE  /\ SumOver(k, "close", i - n + 1, i) \in Int
         /\ SumOver(m, "close", i - n + 1, i) = SumOver(k, "close", i - n + 1, i)
<1>1. PICK from \in Int : from = i - n + 1
  OBVIOUS
<1>2. FieldTimes(k, m, "close", 1, from, i)
  <2> SUFFICES ASSUME NEW j \in from..i
               PROVE  k[j]["close"] \in Int /\ m[j]["close"] = 1 * k[j]["close"]
    BY DEF FieldTimes
  <2>1. j \in 1..Len(k)
    BY <1>1
  <2>2. k[j] \in BarShapes /\ m[j] = k[j]
    BY <2>1 DEF Begins
  <2>3. k[j].close \in Nat
    BY <2>2, SignalAssumption
  <2> QED BY <2>2, <2>3
<1>3. /\ SumOver(k, "close", from, i) \in Int
      /\ SumOver(m, "close", from, i) = 1 * SumOver(k, "close", from, i)
  <2>1. 1 \in Nat /\ from - 1 <= i
    BY <1>1
  <2> QED BY <1>2, <2>1, SumIsInUnits
<1>4. SumOver(m, "close", from, i) = SumOver(k, "close", from, i)
  BY <1>3
<1> QED BY <1>1, <1>3, <1>4

LEMMA AveragesCompare ==
  ASSUME BarsAreBars, NEW i \in Int, i <= Len(bars), NEW n \in Nat, n <= i, NEW w \in Nat, w <= i
  PROVE  CloseSum(i, n) \in Int /\ Above(i, n, w) \in Int /\ (1 <= i => CloseAbove(i, n) \in Int)
<1>1. CloseSum(i, n) \in Int /\ CloseSum(i, w) \in Int
  <2>1. Begins(bars, bars)
    BY DEF Begins
  <2> QED BY <2>1, SumOfCloses DEF BarsAreBars, CloseSum
<1>2. Above(i, n, w) \in Int
  BY <1>1 DEF Above
<1>3. ASSUME 1 <= i PROVE CloseAbove(i, n) \in Int
  <2>1. bars[i] \in BarShapes
    BY <1>3 DEF BarsAreBars
  <2>2. bars[i].close \in Nat
    BY <2>1, SignalAssumption
  <2> QED BY <1>1, <2>2 DEF CloseAbove
<1> QED BY <1>1, <1>2, <1>3

\* What the windows are.
LEMMA Windows ==
  /\ Window.fast \in Nat \ {0} /\ Window.slow \in Nat \ {0} /\ Window.fast < Window.slow
  /\ Window.entry \in Nat \ {0} /\ Window.exit \in Nat \ {0} /\ Window.exit <= Window.entry
  /\ Window.trend \in Nat \ {0} /\ Window.adx \in Nat \ {0} /\ Window.boll \in Nat \ {0}
BY SignalAssumption DEF WindowNames

\* A cross is a cross in one direction.
LEMMA CrossIsOneWay ==
  ASSUME NEW a \in Int, NEW b \in Int
  PROVE  ~(CrossUp(a, b) /\ CrossDown(a, b)) /\ ~(CrossDown(a, b) /\ b > 0) /\ ~(CrossUp(a, b) /\ b < 0)
BY DEF CrossUp, CrossDown

\* The channel the close has to leave is one: the lowest low of its days is no
\* higher than the highest high.
LEMMA ChannelIsOpen ==
  ASSUME BarsAreBars, Len(bars) >= Window.entry + 1
  PROVE  Upper \in Nat /\ Lower \in Nat /\ Lower <= Upper
<1>1. PICK i \in Nat : i = Len(bars) /\ i >= 2
  BY Windows DEF BarsAreBars
<1>2. PICK u \in Int : u = i - Window.entry /\ 1 <= u /\ u <= i - 1
  BY <1>1, Windows
<1>3. PICK l \in Int : l = i - Window.exit /\ u <= l /\ l <= i - 1
  <2>1. /\ i - Window.exit \in Int /\ i - Window.entry <= i - Window.exit
        /\ i - Window.exit <= i - 1
    BY <1>1, Windows
  <2> QED BY <1>2, <2>1
<1>4. ASSUME NEW j \in u..(i - 1)
      PROVE  bars[j].high \in Nat /\ bars[j].low \in Nat /\ bars[j].low <= bars[j].high
  <2>1. bars[j] \in BarShapes
    BY <1>1, <1>2 DEF BarsAreBars
  <2>2. /\ bars[j].high \in Nat /\ bars[j].low \in Nat /\ bars[j].close \in Nat
        /\ bars[j].low <= bars[j].close /\ bars[j].close <= bars[j].high
    BY <2>1, SignalAssumption
  <2> QED BY <2>2
<1> DEFINE Highs == {bars[j].high : j \in u..(i - 1)}
           Lows == {bars[j].low : j \in l..(i - 1)}
<1>5. Max(Highs) \in Highs /\ \A h \in Highs : h <= Max(Highs)
  <2> DEFINE high == [j \in u..(i - 1) |-> bars[j].high]
  <2>1. \E b \in Nat : \A j \in u..(i - 1) : high[j] <= b
    <3>1. \A j \in u..(i - 1) : high[j] \in Nat
      BY <1>4
    <3>2. u \in Int /\ i - 1 \in Int
      BY <1>1
    <3> HIDE DEF high
    <3> QED BY <3>1, <3>2, NumbersAreBounded
  <2>2. PICK b \in Nat : \A h \in Highs : h <= b
    BY <2>1
  <2>3. Highs \subseteq Nat /\ Highs # {}
    BY <1>1, <1>2, <1>4
  <2> HIDE DEF Highs
  <2> QED BY <2>2, <2>3, MaxIsGreatest
<1>6. Min(Lows) \in Lows /\ \A d \in Lows : Min(Lows) <= d
  <2>1. Lows \subseteq Nat /\ Lows # {}
    BY <1>1, <1>2, <1>3, <1>4
  <2> HIDE DEF Lows
  <2> QED BY <2>1, MinIsLeast
<1>7. i - 1 \in u..(i - 1) /\ i - 1 \in l..(i - 1)
  BY <1>1, <1>2, <1>3
<1>8. Min(Lows) <= bars[i-1].low /\ bars[i-1].low <= bars[i-1].high /\ bars[i-1].high <= Max(Highs)
  <2>1. bars[i-1].low \in Lows /\ bars[i-1].high \in Highs
    BY <1>7
  <2> HIDE DEF Lows, Highs
  <2>2. Min(Lows) <= bars[i-1].low
    BY ONLY <1>6, <2>1
  <2>3. bars[i-1].high <= Max(Highs)
    BY ONLY <1>5, <2>1
  <2>4. bars[i-1].low <= bars[i-1].high
    BY ONLY <1>4, <1>7
  <2> QED BY ONLY <2>2, <2>3, <2>4
<1>9. Highs \subseteq Nat /\ Lows \subseteq Nat
  BY <1>1, <1>2, <1>3, <1>4
<1>10. Upper = Max(Highs) /\ Lower = Min(Lows)
  BY <1>1, <1>2, <1>3 DEF Upper, Lower
<1>11. Upper \in Nat /\ Lower \in Nat /\ bars[i-1].low \in Nat /\ bars[i-1].high \in Nat
  <2> HIDE DEF Highs, Lows
  <2> QED BY <1>4, <1>5, <1>6, <1>7, <1>9, <1>10
<1> HIDE DEF Highs, Lows
<1> QED BY <1>8, <1>10, <1>11

LEMMA BoardAgrees == ASSUME BarsAreBars PROVE BoardIsAligned
<1> SUFFICES ASSUME strategy \in Aligned, Len(bars) >= NeedsBars(strategy)
             PROVE  /\ Snapshot(strategy) = "buy" <=> Buys(strategy, Len(bars))
                    /\ Snapshot(strategy) = "sell" <=> Sells(strategy, Len(bars))
  BY DEF BoardIsAligned
<1>0. PICK i \in Nat : i = Len(bars)
  BY DEF BarsAreBars
<1>6. ASSUME i >= Window.slow + 1
      PROVE  /\ Above(i-1, Window.fast, Window.slow) \in Int /\ Above(i, Window.fast, Window.slow) \in Int
             /\ CloseAbove(i, Window.slow) \in Int
  <2>1. /\ Window.fast \in Nat /\ Window.slow \in Nat /\ Window.fast <= i-1 /\ Window.slow <= i-1 /\ i-1 \in Int
        /\ i-1 <= Len(bars) /\ Window.fast <= i /\ Window.slow <= i /\ i \in Int /\ i <= Len(bars) /\ 1 <= i
    BY <1>0, <1>6, Windows
  <2>2. Above(i-1, Window.fast, Window.slow) \in Int
    BY <2>1, AveragesCompare
  <2>3. Above(i, Window.fast, Window.slow) \in Int /\ CloseAbove(i, Window.slow) \in Int
    BY <2>1, AveragesCompare
  <2> QED BY <2>2, <2>3
<1>7. NeedsBars(strategy) \in Nat
  <2>1. LongerOf(Window.slow, 2 * Window.adx) \in Nat
    BY Windows DEF LongerOf
  <2>2. /\ Window.slow + 1 \in Nat /\ LongerOf(Window.slow, 2 * Window.adx) + 2 \in Nat /\ Window.trend + 2 \in Nat
        /\ Window.entry + 1 \in Nat /\ Window.boll + 2 \in Nat
    BY <2>1, Windows
  <2> QED BY <2>2 DEF Aligned, NeedsBars
<1>8. ~(Len(bars) < NeedsBars(strategy))
  BY <1>0, <1>7
<1>1. CASE strategy = "double_ma"
  <2>1. i >= Window.slow + 1
    BY <1>0, <1>1 DEF NeedsBars
  <2>2. Above(i-1, Window.fast, Window.slow) \in Int /\ Above(i, Window.fast, Window.slow) \in Int
    BY <1>6, <2>1
  <2>3. ~(Over(i) /\ Below(i))
    BY <2>2, CrossIsOneWay DEF Over, Below
  <2>4. Snapshot(strategy) = IF Over(i) THEN "buy" ELSE IF Below(i) THEN "sell" ELSE "hold"
    BY <1>0, <1>1, <1>8 DEF Snapshot, CrossKind, Over, Below
  <2>5. Buys(strategy, i) = Over(i) /\ Sells(strategy, i) = Below(i)
    BY <1>1 DEF Buys, Sells, OnBar, OnBarDoubleMa, Decision
  <2> QED BY <1>0, <2>3, <2>4, <2>5
<1>2. CASE strategy = "trend_ma"
  <2> DEFINE buys == /\ Over(i) /\ bars[i].trending /\ CloseAbove(i, Window.slow) > 0
                     /\ CloseSum(i, Window.slow) >= CloseSum(i-1, Window.slow)
             sells == Below(i) \/ CloseAbove(i, Window.slow) < 0
  <2>1. i >= Window.slow + 2
    BY <1>0, <1>2, Windows DEF NeedsBars, LongerOf
  <2>2. Above(i-1, Window.fast, Window.slow) \in Int /\ Above(i, Window.fast, Window.slow) \in Int
        /\ CloseAbove(i, Window.slow) \in Int
    BY <1>6, <2>1, Windows
  <2>3. ~(Over(i) /\ Below(i)) /\ ~(CloseAbove(i, Window.slow) > 0 /\ CloseAbove(i, Window.slow) < 0)
    BY <2>2, CrossIsOneWay DEF Over, Below
  <2>4. Snapshot(strategy) = IF buys THEN "buy" ELSE IF sells THEN "sell" ELSE "hold"
    <3>1. CrossKind(i, Window.fast, Window.slow) = IF Over(i) THEN "buy" ELSE IF Below(i) THEN "sell" ELSE "hold"
      BY DEF CrossKind, Over, Below
    <3>2. Snapshot(strategy) = TrendMa(i)
      BY <1>0, <1>2, <1>8 DEF Snapshot
    <3>3. bars[i].trending \in BOOLEAN
      <4>1. bars[i] \in BarShapes
        BY <1>0, <2>1, Windows DEF BarsAreBars
      <4> QED BY <4>1, SignalAssumption
    <3> QED BY <2>3, <3>1, <3>2 DEF TrendMa, Pick
  <2>5. Buys(strategy, i) = buys /\ Sells(strategy, i) = sells
    BY <1>2 DEF Buys, Sells, OnBar, OnBarTrendMa, Decision
  <2> QED BY <1>0, <2>3, <2>4, <2>5
<1>3. CASE strategy = "medium_swing"
  <2> DEFINE up == CrossUp(bars[i-1].macd, bars[i].macd)
             down == CrossDown(bars[i-1].macd, bars[i].macd)
             away == CloseAbove(i, Window.trend)
  <2>1. i >= Window.trend + 2
    BY <1>0, <1>3 DEF NeedsBars
  <2>2. away \in Int
    <3>1. i \in Int /\ i <= Len(bars) /\ Window.trend \in Nat /\ Window.trend <= i /\ 1 <= i
      BY <1>0, <2>1, Windows
    <3> QED BY <3>1, AveragesCompare
  <2>3. ~(up /\ down) /\ ~(away > 0 /\ away < 0)
    <3>1. bars[i-1] \in BarShapes /\ bars[i] \in BarShapes
      BY <1>0, <2>1, Windows DEF BarsAreBars
    <3>2. bars[i-1].macd \in Int /\ bars[i].macd \in Int
      BY <3>1, SignalAssumption
    <3> QED BY <2>2, <3>2, CrossIsOneWay
  <2>4. Snapshot(strategy) = IF up /\ away > 0 THEN "buy" ELSE IF down \/ away < 0 THEN "sell" ELSE "hold"
    BY <1>0, <1>3, <1>8 DEF Snapshot, MediumSwing, Pick
  <2>5. Buys(strategy, i) = (up /\ away > 0) /\ Sells(strategy, i) = (down \/ away < 0)
    BY <1>3 DEF Buys, Sells, OnBar, OnBarMediumSwing, Decision
  <2> QED BY <1>0, <2>3, <2>4, <2>5
<1>4. CASE strategy = "donchian"
  <2>1. i >= Window.entry + 1
    BY <1>0, <1>4 DEF NeedsBars
  <2>2. Upper \in Nat /\ Lower \in Nat /\ Lower <= Upper
    BY <1>0, <2>1, ChannelIsOpen
  <2>3. bars[i].close \in Nat
    <3>1. bars[i] \in BarShapes
      BY <1>0, <2>1, Windows DEF BarsAreBars
    <3> QED BY <3>1, SignalAssumption
  <2>4. ~(bars[i].close < Lower /\ bars[i].close > Upper)
    BY <2>2, <2>3
  <2>5. Snapshot(strategy) = IF bars[i].close < Lower THEN "sell" ELSE IF bars[i].close > Upper THEN "buy" ELSE "hold"
    BY <1>0, <1>4, <1>8 DEF Snapshot, Donchian, Pick
  <2>6. Buys(strategy, i) = (bars[i].close > Upper) /\ Sells(strategy, i) = (bars[i].close < Lower)
    BY <1>4 DEF Buys, Sells, OnBar, OnBarDonchian, Decision
  <2> QED BY <1>0, <2>4, <2>5, <2>6
<1>5. CASE strategy = "bollinger"
  <2>1. Snapshot(strategy) = IF OutOfBand(i) = 1 THEN "sell" ELSE IF OutOfBand(i) = -1 THEN "buy" ELSE "hold"
    BY <1>0, <1>5, <1>8 DEF Snapshot, Bollinger, Pick
  <2>2. Buys(strategy, i) = (OutOfBand(i) = -1) /\ Sells(strategy, i) = (OutOfBand(i) = 1)
    BY <1>5 DEF Buys, Sells, OnBar, OnBarBollinger, Decision
  <2>3. ~(OutOfBand(i) = 1 /\ OutOfBand(i) = -1)
    OBVIOUS
  <2> QED BY <1>0, <2>1, <2>2, <2>3
<1> QED BY <1>1, <1>2, <1>3, <1>4, <1>5 DEF Aligned

\* The step a bar makes.
HeuristicStep ==
  LET heuristic == Snapshot("heuristic_v2")'
      crossed == Snapshot("double_ma")
  IN  heuristic \in {"buy", "sell"} => heuristic = crossed /\ Snapshot("double_ma")' = "hold"

LEMMA HeuristicWaits == ASSUME BarsAreBars, NEW b \in BarShapes, bars' = Append(bars, b) PROVE HeuristicStep
<1>1. PICK i \in Nat : i = Len(bars) /\ Len(bars') = i + 1
  BY DEF BarsAreBars
<1> SUFFICES ASSUME Snapshot("heuristic_v2")' \in {"buy", "sell"}
             PROVE  Snapshot("heuristic_v2")' = Snapshot("double_ma") /\ Snapshot("double_ma")' = "hold"
  BY DEF HeuristicStep
<1>2. i + 1 >= Window.slow + 2 /\ Snapshot("heuristic_v2")' = Heuristic(i + 1)'
  BY <1>1, Windows DEF Snapshot, NeedsBars
<1>3. Snapshot("double_ma") = CrossKind(i, Window.fast, Window.slow)
  BY <1>1, <1>2, Windows DEF Snapshot, NeedsBars
<1>4. Snapshot("double_ma")' = CrossKind(i + 1, Window.fast, Window.slow)'
  BY <1>1, <1>2, Windows DEF Snapshot, NeedsBars
<1>5. CrossKind(i, Window.fast, Window.slow)' = CrossKind(i, Window.fast, Window.slow)
  <2>1. Begins(bars, bars')
    BY DEF BarsAreBars, Begins
  <2>2. ASSUME NEW d \in {i-1, i}, NEW n \in {Window.fast, Window.slow} PROVE CloseSum(d, n)' = CloseSum(d, n)
    <3>1. d \in Int /\ d <= Len(bars) /\ n \in Nat /\ n <= d
      BY <1>1, <1>2, Windows
    <3>2. SumOver(bars', "close", d - n + 1, d) = SumOver(bars, "close", d - n + 1, d)
      <4>1. PICK m : m = bars'
        OBVIOUS
      <4>2. bars \in Seq(BarShapes) /\ Begins(bars, m)
        BY <2>1, <4>1 DEF BarsAreBars
      <4>3. SumOver(m, "close", d - n + 1, d) = SumOver(bars, "close", d - n + 1, d)
        <5>1. PICK k \in Seq(BarShapes) : k = bars
          BY <4>2
        <5>2. d \in Int /\ n \in Nat /\ n <= d /\ Begins(k, m) /\ d <= Len(k)
          BY <3>1, <4>2, <5>1
        <5>3. SumOver(m, "close", d - n + 1, d) = SumOver(k, "close", d - n + 1, d)
          BY ONLY <5>2, k \in Seq(BarShapes), SumOfCloses
        <5> QED BY <5>1, <5>3
      <4> QED BY <4>1, <4>3
    <3> QED BY <3>2 DEF CloseSum
  <2>3. ASSUME NEW d \in {i-1, i} PROVE Above(d, Window.fast, Window.slow)' = Above(d, Window.fast, Window.slow)
    <3>1. CloseSum(d, Window.fast)' = CloseSum(d, Window.fast) /\ CloseSum(d, Window.slow)' = CloseSum(d, Window.slow)
      BY <2>2
    <3> QED BY <3>1 DEF Above
  <2> QED BY <2>3 DEF CrossKind
<1>6. Heuristic(i + 1)' =
        IF CrossKind(i + 1, Window.fast, Window.slow)' # "hold" THEN "hold"
        ELSE IF CrossKind(i, Window.fast, Window.slow)' = "buy" /\ Above(i + 1, Window.fast, Window.slow)' > 0 THEN "buy"
        ELSE IF CrossKind(i, Window.fast, Window.slow)' = "sell" /\ Above(i + 1, Window.fast, Window.slow)' < 0 THEN "sell"
        ELSE "hold"
  <2>1. (i + 1) - 1 = i
    OBVIOUS
  <2> QED BY <2>1 DEF Heuristic, Pick
<1> QED BY <1>2, <1>3, <1>4, <1>5, <1>6

LEMMA BarsStep == ASSUME BarsAreBars, CtaNext PROVE BarsAreBars' /\ HeuristicStep
<1>1. PICK b \in BarShapes : NewBar(b)
  BY DEF CtaNext
<1>2. bars' = Append(bars, b)
  BY <1>1 DEF NewBar
<1>3. HeuristicStep
  BY <1>2, HeuristicWaits
<1>4. BarsAreBars'
  BY <1>2 DEF BarsAreBars
<1> QED BY <1>3, <1>4

\* BoardFollowsBars, for all bars, windows and volumes: on every bar the board tells a
\* trader what the aligned strategy of the same name would do (_compute_snapshot and
\* on_bar read the same comparisons, and no bar is both a buy and a sell), and the
\* heuristic mode repeats yesterday's cross of double_ma, never today's.
THEOREM BoardFollows == CtaSpec => BoardFollowsBars
<1>1. CtaInit => BarsAreBars
  BY DEF CtaInit, BarsAreBars
<1>2. BarsAreBars /\ [CtaNext]_ctaVars => BarsAreBars' /\ [HeuristicStep]_bars
  <2>1. ASSUME BarsAreBars, UNCHANGED ctaVars PROVE BarsAreBars' /\ UNCHANGED bars
    BY <2>1 DEF ctaVars, BarsAreBars
  <2> QED BY <2>1, BarsStep
<1>3. BarsAreBars => BoardIsAligned
  BY BoardAgrees
<1> QED BY <1>1, <1>2, <1>3, PTL DEF CtaSpec, BoardFollowsBars, HeuristicFollows, HeuristicStep

-----------------------------------------------------------------------------
(* PatternRules: a pattern is a matter of shape. The sums, extremes and     *)
(* ratios a matcher compares are all in the units of the series             *)
(* (SumIsInUnits, UnitKeepsExtremes, RatioInUnits), and a comparison of two *)
(* such amounts is the same in every unit (UnitKeepsComparison).            *)

\* Signs and orders are the same in every unit.
LEMMA UnitKeepsOrder ==
  ASSUME NEW c \in Nat \ {0}
  PROVE  /\ \A a, b \in Int : c * a <= c * b <=> a <= b
         /\ \A a, b \in Int : c * a < c * b <=> a < b
<1>1. \A a \in Int : a > 0 => c * a > 0
  OBVIOUS
<1>2. \A a, b \in Int : c * b - c * a = c * (b - a)
  OBVIOUS
<1>3. ASSUME NEW a \in Int, NEW b \in Int PROVE a < b => c * a < c * b
  <2>1. CASE a < b
    <3>1. b - a \in Int /\ b - a > 0
      BY <2>1
    <3>2. c * (b - a) > 0
      BY <1>1, <3>1
    <3>3. c * a \in Int /\ c * b \in Int /\ c * b - c * a > 0
      BY <1>2, <3>2
    <3> QED BY <3>3
  <2> QED BY <2>1
<1>4. ASSUME NEW a \in Int, NEW b \in Int PROVE (c * a <= c * b <=> a <= b) /\ (c * a < c * b <=> a < b)
  <2>1. c * a \in Int /\ c * b \in Int /\ (a = b => c * a = c * b)
    OBVIOUS
  <2>2. (a < b => c * a < c * b) /\ (b < a => c * b < c * a)
    BY <1>3
  <2>3. a < b \/ a = b \/ b < a
    OBVIOUS
  <2> QED BY <2>1, <2>2, <2>3
<1> QED BY <1>4

\* A comparison of two amounts, each times a number, is the same in every unit.
LEMMA UnitKeepsComparison ==
  ASSUME NEW c \in Nat \ {0}, NEW a \in Int, NEW b \in Int, NEW f \in Int, NEW g \in Int
  PROVE  /\ (c * a) * f <= (c * b) * g <=> a * f <= b * g
         /\ (c * a) * f < (c * b) * g <=> a * f < b * g
<1>1. (c * a) * f = c * (a * f) /\ (c * b) * g = c * (b * g)
  OBVIOUS
<1>2. a * f \in Int /\ b * g \in Int
  OBVIOUS
<1> QED BY <1>1, <1>2, UnitKeepsOrder

\* The values of a function on an interval, and another's that are c times them.
ValuesOf(x, from, to) == {x[j] : j \in from..to}
ValuesTimes(x, y, c, from, to) == \A j \in from..to : x[j] \in Nat /\ y[j] = c * x[j]

\* The greatest and the least of some numbers are so in every unit.
LEMMA UnitKeepsExtremes ==
  ASSUME NEW c \in Nat \ {0}, NEW from \in Int, NEW to \in Int, from <= to, NEW x, NEW y,
         ValuesTimes(x, y, c, from, to)
  PROVE  /\ Max(ValuesOf(x, from, to)) \in Nat /\ Min(ValuesOf(x, from, to)) \in Nat
         /\ Max(ValuesOf(y, from, to)) = c * Max(ValuesOf(x, from, to))
         /\ Min(ValuesOf(y, from, to)) = c * Min(ValuesOf(x, from, to))
<1> DEFINE X == ValuesOf(x, from, to)
           Y == ValuesOf(y, from, to)
<1>9. X = {x[j] : j \in from..to} /\ Y = {y[j] : j \in from..to}
  BY DEF ValuesOf
<1>10. \A j \in from..to : x[j] \in Nat /\ y[j] = c * x[j]
  BY DEF ValuesTimes
<1> HIDE DEF X, Y
<1>0. PICK b \in Nat : \A j \in from..to : x[j] <= b
  BY <1>10, NumbersAreBounded
<1>1. X \subseteq Nat /\ X # {} /\ \A s \in X : s <= b
  <2>1. from \in from..to
    OBVIOUS
  <2> QED BY <1>0, <1>9, <1>10, <2>1
<1>2. Y = {c * s : s \in X}
  BY <1>9, <1>10
<1>3. \A s \in X : c * s \in Nat
  BY <1>1
<1>4. Max(X) \in X /\ \A s \in X : s <= Max(X)
  <2> QED BY <1>0, <1>1, MaxIsGreatest
<1>5. Min(X) \in X /\ \A s \in X : Min(X) <= s
  <2> QED BY <1>1, MinIsLeast
<1>8. \A s \in X : s \in Int
  BY <1>1
<1>6. Max(Y) = c * Max(X)
  <2>1. \A s \in X : c * s <= c * Max(X)
    <3>1. Max(X) \in Int
      BY <1>4, <1>8
    <3> QED BY <1>4, <1>8, <3>1, UnitKeepsOrder
  <2>2. c * Max(X) \in Y /\ \A t \in Y : c * Max(X) >= t
    BY <1>2, <1>4, <2>1
  <2>3. Max(Y) \in Y /\ \A t \in Y : Max(Y) >= t
    BY <2>2 DEF Max
  <2>4. Y \subseteq Nat
    BY <1>2, <1>3
  <2>5. Max(Y) >= c * Max(X) /\ c * Max(X) >= Max(Y)
    BY <2>2, <2>3
  <2>6. Max(Y) \in Int /\ c * Max(X) \in Int
    <3>1. \A t \in Y : t \in Int
      BY <2>4
    <3> QED BY <2>2, <2>3, <3>1
  <2> QED BY <2>5, <2>6
<1>7. Min(Y) = c * Min(X)
  <2>1. \A s \in X : c * Min(X) <= c * s
    <3>1. Min(X) \in Int
      BY <1>5, <1>8
    <3> QED BY <1>5, <1>8, <3>1, UnitKeepsOrder
  <2>2. c * Min(X) \in Y /\ \A t \in Y : c * Min(X) <= t
    BY <1>2, <1>5, <2>1
  <2>3. Min(Y) \in Y /\ \A t \in Y : Min(Y) <= t
    BY <2>2 DEF Min
  <2>4. Y \subseteq Nat
    BY <1>2, <1>3
  <2>5. Min(Y) <= c * Min(X) /\ c * Min(X) <= Min(Y)
    BY <2>2, <2>3
  <2>6. Min(Y) \in Int /\ c * Min(X) \in Int
    <3>1. \A t \in Y : t \in Int
      BY <2>4
    <3> QED BY <2>2, <2>3, <3>1
  <2> QED BY <2>5, <2>6
<1> QED BY <1>1, <1>4, <1>5, <1>6, <1>7 DEF X, Y

-----------------------------------------------------------------------------
\* The series m is k, both of numbers, with the prices times p and the volumes times v.
Scaled(k, m, p, v) ==
  /\ Len(k) \in Nat /\ Len(m) = Len(k)
  /\ \A i \in 1..Len(k) :
       /\ k[i].high \in Nat /\ k[i].low \in Nat /\ k[i].close \in Nat /\ k[i].volume \in Nat
       /\ m[i].high = p * k[i].high /\ m[i].low = p * k[i].low /\ m[i].close = p * k[i].close
       /\ m[i].volume = v * k[i].volume

\* The windows are numbers and the longer ones are longer.
LEMMA SpanNumbers == \A name \in SpanNames : Span[name] \in Nat /\ Span[name] > 0
BY SpanAssumption

LEMMA SpanFields ==
  /\ Span.ma5 \in Nat /\ Span.ma10 \in Nat /\ Span.ma20 \in Nat /\ Span.ma60 \in Nat
  /\ Span.recent \in Nat /\ Span.base \in Nat /\ Span.minBars \in Nat /\ Span.duckBars \in Nat
  /\ Span.w \in Nat /\ Span.radius \in Nat /\ Span.gap \in Nat /\ Span.crossed \in Nat
  /\ Span.ahead \in Nat /\ Span.pulled \in Nat /\ Span.platform \in Nat /\ Span.touch \in Nat
  /\ Span.ma5 > 0 /\ Span.recent > 0 /\ Span.base > 0 /\ Span.gap > 0 /\ Span.pulled > 0 /\ Span.platform > 0
  /\ Span.touch > 0 /\ Span.ahead > 0 /\ Span.crossed > 0
  /\ Span.ma5 < Span.ma10 /\ Span.ma10 < Span.ma20 /\ Span.ma20 < Span.ma60
  /\ Span.ma20 <= Span.minBars /\ Span.ma60 <= Span.duckBars
BY SpanNumbers, SpanAssumption DEF SpanNames

LEMMA Averages ==
  ASSUME NEW n \in Nat, n >= Span.ma60
  PROVE  n \in 1..n /\ Span.ma5 \in 1..n /\ Span.ma10 \in 1..n /\ Span.ma20 \in 1..n /\ Span.ma60 \in 1..n
<1>1. /\ Span.ma5 \in Nat /\ Span.ma10 \in Nat /\ Span.ma20 \in Nat /\ Span.ma60 \in Nat
      /\ Span.ma5 > 0 /\ Span.ma5 < Span.ma10 /\ Span.ma10 < Span.ma20 /\ Span.ma20 < Span.ma60
  BY SpanFields
<1>2. \A a, b, c, d \in Nat : a > 0 /\ a < b /\ b < c /\ c < d /\ n >= d
        => n \in 1..n /\ a \in 1..n /\ b \in 1..n /\ c \in 1..n /\ d \in 1..n
  OBVIOUS
<1> QED BY <1>1, <1>2

LEMMA ClosesInUnits ==
  ASSUME NEW k, NEW m, NEW p \in Nat \ {0}, NEW v \in Nat \ {0}, Scaled(k, m, p, v),
         NEW i \in 1..Len(k), NEW n \in 1..i
  PROVE  Closes(k, i, n) \in Int /\ Closes(m, i, n) = p * Closes(k, i, n)
<1>1. i \in Int /\ n \in Nat /\ \A j \in (i - n + 1)..i : j \in 1..Len(k)
  BY DEF Scaled
<1>2. \A j \in (i - n + 1)..i : k[j]["close"] \in Int /\ m[j]["close"] = p * k[j]["close"]
  <2>1. \A j \in 1..Len(k) : k[j].close \in Nat /\ m[j].close = p * k[j].close
    BY DEF Scaled
  <2> QED BY <1>1, <2>1
<1>3. FieldTimes(k, m, "close", p, i - n + 1, i)
  BY <1>2 DEF FieldTimes
<1>4. i - n + 1 \in Int /\ (i - n + 1) - 1 <= i /\ p \in Nat
  BY <1>1
<1> QED BY <1>1, <1>3, <1>4, SumIsInUnits DEF Closes

LEMMA AboveInUnits ==
  ASSUME NEW k, NEW m, NEW p \in Nat \ {0}, NEW v \in Nat \ {0}, Scaled(k, m, p, v),
         NEW i \in 1..Len(k), NEW a \in 1..i, NEW b \in 1..i
  PROVE  /\ AboveBy(k, i, a, b) \in Int
         /\ AboveBy(m, i, a, b) > 0 <=> AboveBy(k, i, a, b) > 0
         /\ AboveBy(m, i, a, b) <= 0 <=> AboveBy(k, i, a, b) <= 0
         /\ AboveBy(m, i, a, b) < 0 <=> AboveBy(k, i, a, b) < 0
<1>1. PICK x \in Int : x = Closes(k, i, a) /\ Closes(m, i, a) = p * x
  <2>1. Closes(k, i, a) \in Int /\ Closes(m, i, a) = p * Closes(k, i, a)
    BY ClosesInUnits
  <2> QED BY <2>1
<1>2. PICK y \in Int : y = Closes(k, i, b) /\ Closes(m, i, b) = p * y
  <2>1. Closes(k, i, b) \in Int /\ Closes(m, i, b) = p * Closes(k, i, b)
    BY ClosesInUnits
  <2> QED BY <2>1
<1>3. AboveBy(k, i, a, b) = x * b - y * a /\ AboveBy(m, i, a, b) = (p * x) * b - (p * y) * a
  BY <1>1, <1>2 DEF AboveBy
<1>4. /\ (p * x) * b <= (p * y) * a <=> x * b <= y * a
      /\ (p * x) * b < (p * y) * a <=> x * b < y * a
  BY UnitKeepsComparison
<1>5. x * b \in Int /\ y * a \in Int /\ (p * x) * b \in Int /\ (p * y) * a \in Int
  OBVIOUS
<1>6. \A c, d \in Int : (c - d > 0 <=> ~(c <= d)) /\ (c - d <= 0 <=> c <= d) /\ (c - d < 0 <=> c < d) /\ c - d \in Int
  OBVIOUS
<1> QED BY ONLY <1>3, <1>4, <1>5, <1>6

\* The volume ratio is none or is the same in every unit.
LEMMA RatioInUnits ==
  ASSUME NEW k, NEW m, NEW p \in Nat \ {0}, NEW v \in Nat \ {0}, Scaled(k, m, p, v)
  PROVE  /\ HasRatio(k) => Recent(k) \in Int /\ Base(k) \in Int
         /\ \A percent \in Nat : RatioAtLeast(m, percent) <=> RatioAtLeast(k, percent)
         /\ \A percent \in Nat : RatioAtMost(m, percent) <=> RatioAtMost(k, percent)
<1> DEFINE n == Len(k)
<1>0. n \in Nat /\ Len(m) = n
  BY DEF Scaled
<1>1. CASE ~(n >= Span.recent + Span.base)
  BY <1>0, <1>1 DEF HasRatio, RatioAtLeast, RatioAtMost
<1>2. CASE n >= Span.recent + Span.base
  <2> DEFINE a == n - Span.recent + 1
             b == n - Span.recent - Span.base + 1
             c == n - Span.recent
  <2>1. /\ a \in Int /\ b \in Int /\ c \in Int /\ n \in Int /\ a - 1 <= n /\ b - 1 <= c
        /\ \A j \in a..n : j \in 1..n
        /\ \A j \in b..c : j \in 1..n
    <3>1. \A r, s, t \in Nat : t > 0 /\ s > 0 /\ r >= t + s =>
            /\ r - t + 1 \in Int /\ r - t - s + 1 \in Int /\ r - t \in Int /\ r - t + 1 - 1 <= r /\ r - t - s + 1 - 1 <= r - t
            /\ \A j \in (r - t + 1)..r : j \in 1..r
            /\ \A j \in (r - t - s + 1)..(r - t) : j \in 1..r
      OBVIOUS
    <3>2. Span.recent \in Nat /\ Span.base \in Nat /\ Span.recent > 0 /\ Span.base > 0
      BY SpanFields
    <3> HIDE DEF n
    <3>3. \A r, s, t \in Nat : r = n /\ t = Span.recent /\ s = Span.base => n - Span.recent = r - t
      OBVIOUS
    <3> QED BY ONLY <1>0, <1>2, <3>1, <3>2
  <2>2. \A j \in 1..n : k[j]["volume"] \in Int /\ m[j]["volume"] = v * k[j]["volume"]
    <3>1. \A j \in 1..n : k[j].volume \in Nat /\ m[j].volume = v * k[j].volume
      BY DEF Scaled
    <3> QED BY <3>1
  <2> HIDE DEF a, b, c, n
  <2>3. PICK x \in Int : SumOver(k, "volume", a, n) = x /\ SumOver(m, "volume", a, n) = v * x
    <3>1. FieldTimes(k, m, "volume", v, a, n)
      BY <2>1, <2>2 DEF FieldTimes
    <3>2. SumOver(k, "volume", a, n) \in Int /\ SumOver(m, "volume", a, n) = v * SumOver(k, "volume", a, n)
      BY <2>1, <3>1, SumIsInUnits
    <3> QED BY <3>2
  <2>4. PICK y \in Int : SumOver(k, "volume", b, c) = y /\ SumOver(m, "volume", b, c) = v * y
    <3>1. FieldTimes(k, m, "volume", v, b, c)
      BY <2>1, <2>2 DEF FieldTimes
    <3>2. SumOver(k, "volume", b, c) \in Int /\ SumOver(m, "volume", b, c) = v * SumOver(k, "volume", b, c)
      BY <2>1, <3>1, SumIsInUnits
    <3> QED BY <3>2
  <2>5. Recent(k) = x * Span.base /\ Recent(m) = (v * x) * Span.base
    BY <1>0, <2>3 DEF Recent, a, n
  <2>6. Base(k) = y * Span.recent /\ Base(m) = (v * y) * Span.recent
    BY <1>0, <2>4 DEF Base, b, c, n
  <2>7. PICK r \in Int : r = x * Span.base /\ (v * x) * Span.base = v * r
    BY SpanFields
  <2>8. PICK s \in Int : s = y * Span.recent /\ (v * y) * Span.recent = v * s
    BY SpanFields
  <2>9. Recent(k) = r /\ Recent(m) = v * r /\ Base(k) = s /\ Base(m) = v * s
    BY <2>5, <2>6, <2>7, <2>8
  <2>10. /\ 0 < v * s <=> 0 < s
         /\ \A percent \in Nat : (v * s) * percent <= (v * r) * 100 <=> s * percent <= r * 100
         /\ \A percent \in Nat : (v * r) * 100 <= (v * s) * percent <=> r * 100 <= s * percent
    BY UnitKeepsOrder, UnitKeepsComparison
  <2>11. v * s \in Int /\ v * r \in Int
    OBVIOUS
  <2>12. HasRatio(k) <=> 0 < s
    BY <1>2, <2>9 DEF HasRatio, n
  <2>13. HasRatio(m) <=> 0 < v * s
    BY <1>0, <1>2, <2>9, <2>11 DEF HasRatio, n
  <2>14. ASSUME NEW percent \in Nat
         PROVE  /\ RatioAtLeast(m, percent) <=> RatioAtLeast(k, percent)
                /\ RatioAtMost(m, percent) <=> RatioAtMost(k, percent)
    <3>1. /\ RatioAtLeast(k, percent) <=> HasRatio(k) /\ r * 100 >= s * percent
          /\ RatioAtMost(k, percent) <=> HasRatio(k) /\ r * 100 <= s * percent
          /\ RatioAtLeast(m, percent) <=> HasRatio(m) /\ (v * r) * 100 >= (v * s) * percent
          /\ RatioAtMost(m, percent) <=> HasRatio(m) /\ (v * r) * 100 <= (v * s) * percent
      BY <2>9 DEF RatioAtLeast, RatioAtMost
    <3>2. r * 100 \in Int /\ s * percent \in Int /\ (v * r) * 100 \in Int /\ (v * s) * percent \in Int
      BY <2>11
    <3>3. (r * 100 >= s * percent <=> s * percent <= r * 100) /\ ((v * r) * 100 >= (v * s) * percent <=> (v * s) * percent <= (v * r) * 100)
      BY <3>2
    <3> QED BY ONLY <2>10, <2>12, <2>13, <3>1, <3>3, percent \in Nat
  <2> QED BY <2>9, <2>14
<1> QED BY <1>1, <1>2

\* Some bars of a series; a number that is c times another.
Within(k, from, to) == from \in Int /\ to \in Int /\ 1 <= from /\ from <= to /\ to <= Len(k)
Times(c, a, b) == a \in Int /\ b = c * a

LEMMA ExtremesInUnits ==
  ASSUME NEW k, NEW m, NEW p \in Nat \ {0}, NEW v \in Nat \ {0}, Scaled(k, m, p, v),
         NEW from, NEW to, Within(k, from, to)
  PROVE  /\ Times(p, Highest(k, from, to), Highest(m, from, to))
         /\ Times(p, Lowest(k, "low", from, to), Lowest(m, "low", from, to))
         /\ Times(p, Lowest(k, "close", from, to), Lowest(m, "close", from, to))
<1>0. from \in Int /\ to \in Int /\ from <= to /\ \A j \in from..to : j \in 1..Len(k)
  BY DEF Scaled, Within
<1>1. Highest(k, from, to) \in Nat /\ Highest(m, from, to) = p * Highest(k, from, to)
  <2> DEFINE x == [j \in from..to |-> k[j].high]
             y == [j \in from..to |-> m[j].high]
  <2>1. \A j \in from..to : x[j] \in Nat /\ y[j] = p * x[j]
    BY <1>0 DEF Scaled
  <2>2. {k[j].high : j \in from..to} = ValuesOf(x, from, to) /\ {m[j].high : j \in from..to} = ValuesOf(y, from, to)
    BY DEF ValuesOf
  <2> HIDE DEF x, y
  <2>3. ValuesTimes(x, y, p, from, to)
    BY <2>1 DEF ValuesTimes
  <2>4. Highest(k, from, to) = Max(ValuesOf(x, from, to)) /\ Highest(m, from, to) = Max(ValuesOf(y, from, to))
    BY <2>2 DEF Highest
  <2> QED BY <1>0, <2>3, <2>4, UnitKeepsExtremes
<1>2. Lowest(k, "low", from, to) \in Nat /\ Lowest(m, "low", from, to) = p * Lowest(k, "low", from, to)
  <2> DEFINE x == [j \in from..to |-> k[j]["low"]]
             y == [j \in from..to |-> m[j]["low"]]
  <2>1. \A j \in from..to : x[j] \in Nat /\ y[j] = p * x[j]
    BY <1>0 DEF Scaled
  <2>2. {k[j]["low"] : j \in from..to} = ValuesOf(x, from, to) /\ {m[j]["low"] : j \in from..to} = ValuesOf(y, from, to)
    BY DEF ValuesOf
  <2> HIDE DEF x, y
  <2>3. ValuesTimes(x, y, p, from, to)
    BY <2>1 DEF ValuesTimes
  <2>4. Lowest(k, "low", from, to) = Min(ValuesOf(x, from, to)) /\ Lowest(m, "low", from, to) = Min(ValuesOf(y, from, to))
    BY <2>2 DEF Lowest
  <2> QED BY <1>0, <2>3, <2>4, UnitKeepsExtremes
<1>3. Lowest(k, "close", from, to) \in Nat /\ Lowest(m, "close", from, to) = p * Lowest(k, "close", from, to)
  <2> DEFINE x == [j \in from..to |-> k[j]["close"]]
             y == [j \in from..to |-> m[j]["close"]]
  <2>1. \A j \in from..to : x[j] \in Nat /\ y[j] = p * x[j]
    BY <1>0 DEF Scaled
  <2>2. {k[j]["close"] : j \in from..to} = ValuesOf(x, from, to) /\ {m[j]["close"] : j \in from..to} = ValuesOf(y, from, to)
    BY DEF ValuesOf
  <2> HIDE DEF x, y
  <2>3. ValuesTimes(x, y, p, from, to)
    BY <2>1 DEF ValuesTimes
  <2>4. Lowest(k, "close", from, to) = Min(ValuesOf(x, from, to)) /\ Lowest(m, "close", from, to) = Min(ValuesOf(y, from, to))
    BY <2>2 DEF Lowest
  <2> QED BY <1>0, <2>3, <2>4, UnitKeepsExtremes
<1> QED BY <1>1, <1>2, <1>3 DEF Times

\* A close against an average is the same in every unit.
LEMMA CloseInUnits ==
  ASSUME NEW k, NEW m, NEW p \in Nat \ {0}, NEW v \in Nat \ {0}, Scaled(k, m, p, v),
         NEW i \in 1..Len(k), NEW n \in 1..i
  PROVE  m[i].close * n >= Closes(m, i, n) <=> k[i].close * n >= Closes(k, i, n)
<1>1. PICK x \in Int : x = Closes(k, i, n) /\ Closes(m, i, n) = p * x
  <2>1. Closes(k, i, n) \in Int /\ Closes(m, i, n) = p * Closes(k, i, n)
    BY ClosesInUnits
  <2> QED BY <2>1
<1>2. PICK c \in Nat : c = k[i].close /\ m[i].close = p * c
  BY DEF Scaled
<1>3. n \in Nat
  BY DEF Scaled
<1>4. PICK y \in Int : y = c * n /\ (p * c) * n = p * y
  BY <1>3
<1>5. p * x <= p * y <=> x <= y
  BY UnitKeepsOrder
<1>6. p * x \in Int /\ p * y \in Int
  OBVIOUS
<1>7. (y >= x <=> x <= y) /\ (p * y >= p * x <=> p * x <= p * y)
  BY <1>6
<1> QED BY <1>1, <1>2, <1>4, <1>5, <1>7

-----------------------------------------------------------------------------
LEMMA MaBullInUnits ==
  ASSUME NEW k, NEW m, NEW p \in Nat \ {0}, NEW v \in Nat \ {0}, Scaled(k, m, p, v)
  PROVE  MaBull(m) <=> MaBull(k)
<1> DEFINE n == Len(k)
<1>0. n \in Nat /\ Len(m) = n
  BY DEF Scaled
<1>1. CASE n >= Span.ma60
  <2>1. n \in 1..Len(k) /\ Span.ma5 \in 1..n /\ Span.ma10 \in 1..n /\ Span.ma20 \in 1..n /\ Span.ma60 \in 1..n
    <3> HIDE DEF n
    <3>1. n \in 1..n /\ Span.ma5 \in 1..n /\ Span.ma10 \in 1..n /\ Span.ma20 \in 1..n /\ Span.ma60 \in 1..n
      BY <1>0, <1>1, Averages
    <3> QED BY <3>1 DEF n
  <2> HIDE DEF n
  <2>2. AboveBy(m, n, Span.ma5, Span.ma10) > 0 <=> AboveBy(k, n, Span.ma5, Span.ma10) > 0
    BY <2>1, AboveInUnits
  <2>3. AboveBy(m, n, Span.ma10, Span.ma20) > 0 <=> AboveBy(k, n, Span.ma10, Span.ma20) > 0
    BY <2>1, AboveInUnits
  <2>4. AboveBy(m, n, Span.ma20, Span.ma60) > 0 <=> AboveBy(k, n, Span.ma20, Span.ma60) > 0
    BY <2>1, AboveInUnits
  <2>5. m[n].close * Span.ma20 >= Closes(m, n, Span.ma20) <=> k[n].close * Span.ma20 >= Closes(k, n, Span.ma20)
    BY <2>1, CloseInUnits
  <2> QED BY <1>0, <2>2, <2>3, <2>4, <2>5 DEF MaBull, n
<1>2. CASE ~(n >= Span.ma60)
  BY <1>0, <1>2 DEF MaBull
<1> QED BY <1>1, <1>2

LEMMA BottomsInUnits ==
  ASSUME NEW k, NEW m, NEW p \in Nat \ {0}, NEW v \in Nat \ {0}, Scaled(k, m, p, v), Len(k) >= Span.w
  PROVE  Bottoms(m) = Bottoms(k) /\ Bottoms(k) \subseteq 1..Len(k)
<1> DEFINE Reach == (Len(k) - Span.w + 1 + Span.radius)..(Len(k) - Span.radius)
<1>1. Len(k) \in Nat /\ Len(m) = Len(k) /\ Span.w \in Nat /\ Span.radius \in Nat
  BY SpanFields DEF Scaled
<1>2. \A i \in Reach : i \in 1..Len(k) /\ \A j \in (i - Span.radius)..(i + Span.radius) : j \in 1..Len(k)
  BY <1>1
<1>3. \A i, j \in 1..Len(k) : m[i].low <= m[j].low <=> k[i].low <= k[j].low
  <2> SUFFICES ASSUME NEW i \in 1..Len(k), NEW j \in 1..Len(k) PROVE m[i].low <= m[j].low <=> k[i].low <= k[j].low
    OBVIOUS
  <2>1. k[i].low \in Int /\ k[j].low \in Int /\ m[i].low = p * k[i].low /\ m[j].low = p * k[j].low
    BY DEF Scaled
  <2> QED BY <2>1, UnitKeepsOrder
<1>4. Bottoms(k) = {i \in Reach : \A j \in (i - Span.radius)..(i + Span.radius) : k[i].low <= k[j].low}
  BY DEF Bottoms
<1>5. Bottoms(m) = {i \in Reach : \A j \in (i - Span.radius)..(i + Span.radius) : m[i].low <= m[j].low}
  BY <1>1 DEF Bottoms
<1> HIDE DEF Reach
<1> QED BY <1>2, <1>3, <1>4, <1>5

LEMMA ApartInUnits ==
  ASSUME NEW c \in Nat \ {0}, NEW a \in Int, NEW b \in Int
  PROVE  Apart(a, b) \in Int /\ Apart(c * a, c * b) = c * Apart(a, b)
<1>1. c * a \in Int /\ c * b \in Int /\ (c * a < c * b <=> a < b)
  BY UnitKeepsOrder
<1>2. c * b - c * a = c * (b - a) /\ c * a - c * b = c * (a - b)
  OBVIOUS
<1> QED BY <1>1, <1>2 DEF Apart

LEMMA WBottomInUnits ==
  ASSUME NEW k, NEW m, NEW p \in Nat \ {0}, NEW v \in Nat \ {0}, Scaled(k, m, p, v)
  PROVE  WBottom(m) <=> WBottom(k)
<1> DEFINE n == Len(k)
           Pair(s, i, j) ==
             /\ j - i >= Span.gap /\ ~ \E x \in Bottoms(s) : i < x /\ x < j
             /\ Apart(s[i].low, s[j].low) * 100 <= 6 * s[i].low
             /\ s[Len(s)].close * 100 >= Highest(s, i, j) * 99
<1>0. n \in Nat /\ Len(m) = n
  BY DEF Scaled
<1>1. CASE n >= Span.w
  <2>1. Bottoms(m) = Bottoms(k) /\ Bottoms(k) \subseteq 1..n
    BY <1>1, BottomsInUnits
  <2>2. ASSUME NEW i \in Bottoms(k), NEW j \in Bottoms(k), j - i >= Span.gap
        PROVE  Pair(m, i, j) <=> Pair(k, i, j)
    <3>1. i \in 1..n /\ j \in 1..n /\ i \in Int /\ j \in Int /\ n \in 1..n
      BY <1>0, <2>1
    <3>2. 1 <= i /\ i <= j /\ j <= n
      BY <1>0, <2>2, <3>1, SpanFields
    <3>3. PICK a \in Int : k[i].low = a /\ m[i].low = p * a
      BY <3>1 DEF Scaled
    <3>4. PICK b \in Int : k[j].low = b /\ m[j].low = p * b
      BY <3>1 DEF Scaled
    <3>5. PICK d \in Int : Apart(a, b) = d /\ Apart(p * a, p * b) = p * d
      <4>1. Apart(a, b) \in Int /\ Apart(p * a, p * b) = p * Apart(a, b)
        BY ApartInUnits
      <4> QED BY <4>1
    <3>6. PICK h \in Int : Highest(k, i, j) = h /\ Highest(m, i, j) = p * h
      <4>1. Within(k, i, j)
        BY <3>1, <3>2 DEF Within
      <4>2. Times(p, Highest(k, i, j), Highest(m, i, j))
        BY <4>1, ExtremesInUnits
      <4> QED BY <4>2 DEF Times
    <3>7. PICK c \in Int : k[n].close = c /\ m[n].close = p * c
      BY <3>1 DEF Scaled
    <3>8. (p * d) * 100 <= (p * a) * 6 <=> d * 100 <= a * 6
      BY UnitKeepsComparison
    <3>9. (p * h) * 99 <= (p * c) * 100 <=> h * 99 <= c * 100
      BY UnitKeepsComparison
    <3>10. \A x \in Int : x * 6 = 6 * x
      OBVIOUS
    <3>11. p * a \in Int /\ p * h \in Int /\ p * c \in Int
      OBVIOUS
    <3>12. (p * c) * 100 >= (p * h) * 99 <=> c * 100 >= h * 99
      BY <3>9, <3>11
    <3>13. (p * d) * 100 <= 6 * (p * a) <=> d * 100 <= 6 * a
      BY <3>8, <3>10, <3>11
    <3>14. Apart(m[i].low, m[j].low) * 100 <= 6 * m[i].low <=> Apart(k[i].low, k[j].low) * 100 <= 6 * k[i].low
      BY <3>3, <3>4, <3>5, <3>13
    <3>15. m[n].close * 100 >= Highest(m, i, j) * 99 <=> k[n].close * 100 >= Highest(k, i, j) * 99
      BY <3>6, <3>7, <3>12
    <3> HIDE DEF n
    <3> QED BY <1>0, <2>1, <3>14, <3>15 DEF n
  <2>3. WBottom(k) <=> \E i, j \in Bottoms(k) : Pair(k, i, j)
    BY <1>1 DEF WBottom
  <2>4. WBottom(m) <=> \E i, j \in Bottoms(m) : Pair(m, i, j)
    BY <1>0, <1>1 DEF WBottom
  <2>5. \A s, i, j : Pair(s, i, j) => j - i >= Span.gap
    OBVIOUS
  <2> HIDE DEF Pair
  <2> QED BY <2>1, <2>2, <2>3, <2>4, <2>5
<1>2. CASE ~(n >= Span.w)
  BY <1>0, <1>2 DEF WBottom
<1> QED BY <1>1, <1>2

\* Where ma10 can be read ma5 is above it, or below it, in every unit.
LEMMA DuckInUnits ==
  ASSUME NEW k, NEW m, NEW p \in Nat \ {0}, NEW v \in Nat \ {0}, Scaled(k, m, p, v),
         NEW i \in Int, Span.ma10 <= i, i <= Len(k)
  PROVE  /\ AboveBy(m, i, Span.ma5, Span.ma10) > 0 <=> AboveBy(k, i, Span.ma5, Span.ma10) > 0
         /\ AboveBy(m, i, Span.ma5, Span.ma10) <= 0 <=> AboveBy(k, i, Span.ma5, Span.ma10) <= 0
         /\ AboveBy(m, i, Span.ma5, Span.ma10) < 0 <=> AboveBy(k, i, Span.ma5, Span.ma10) < 0
<1>1. Len(k) \in Nat /\ Span.ma5 \in Nat /\ Span.ma10 \in Nat /\ Span.ma5 > 0 /\ Span.ma5 < Span.ma10
  BY SpanFields DEF Scaled
<1>2. i \in 1..Len(k) /\ Span.ma5 \in 1..i /\ Span.ma10 \in 1..i
  BY <1>1
<1> QED BY <1>2, AboveInUnits

LEMMA CrossesInUnits ==
  ASSUME NEW k, NEW m, NEW p \in Nat \ {0}, NEW v \in Nat \ {0}, Scaled(k, m, p, v), Len(k) >= Span.duckBars
  PROVE  /\ DuckFirst(m) = DuckFirst(k) /\ DuckFirst(k) \in Int /\ DuckFirst(k) >= 1
         /\ Crosses(m) = Crosses(k)
         /\ \A i \in Crosses(k) : i \in Nat /\ i <= Len(k) /\ i - Span.ma10 >= DuckFirst(k)
<1> DEFINE Days == (Len(k) - Span.crossed + 1)..Len(k)
           Crosser(s, i) == AboveBy(s, i - 1, Span.ma5, Span.ma10) <= 0 /\ AboveBy(s, i, Span.ma5, Span.ma10) > 0
<1>1. /\ Len(k) \in Nat /\ Len(m) = Len(k) /\ Span.crossed \in Nat /\ Span.duckBars \in Nat /\ Span.ma10 \in Nat
      /\ Span.ma10 > 0
  BY SpanFields DEF Scaled
<1>2. DuckFirst(m) = DuckFirst(k) /\ DuckFirst(k) \in Int /\ DuckFirst(k) >= 1
  BY <1>1 DEF DuckFirst
<1>3. ASSUME NEW i \in Days, i - Span.ma10 >= DuckFirst(k) PROVE Crosser(m, i) <=> Crosser(k, i)
  <2>1. i \in Int /\ i - 1 \in Int /\ Span.ma10 <= i - 1 /\ Span.ma10 <= i /\ i <= Len(k) /\ i - 1 <= Len(k)
    BY <1>1, <1>2, <1>3
  <2>2. AboveBy(m, i, Span.ma5, Span.ma10) > 0 <=> AboveBy(k, i, Span.ma5, Span.ma10) > 0
    BY <2>1, DuckInUnits
  <2>3. AboveBy(m, i - 1, Span.ma5, Span.ma10) <= 0 <=> AboveBy(k, i - 1, Span.ma5, Span.ma10) <= 0
    BY <2>1, DuckInUnits
  <2> QED BY <2>2, <2>3
<1>4. Crosses(k) = {i \in Days : i - Span.ma10 >= DuckFirst(k) /\ Crosser(k, i)}
  BY DEF Crosses
<1>5. Crosses(m) = {i \in Days : i - Span.ma10 >= DuckFirst(k) /\ Crosser(m, i)}
  BY <1>1, <1>2 DEF Crosses
<1>6. \A i \in Days : i \in Int /\ i <= Len(k)
  BY <1>1
<1> HIDE DEF Days, Crosser
<1>7. Crosses(m) = Crosses(k)
  BY <1>3, <1>4, <1>5
<1>8. ASSUME NEW i \in Crosses(k) PROVE i \in Nat /\ i <= Len(k) /\ i - Span.ma10 >= DuckFirst(k)
  <2>1. i \in Int /\ i <= Len(k) /\ i - Span.ma10 >= DuckFirst(k)
    BY <1>4, <1>6
  <2> QED BY <1>1, <1>2, <2>1
<1> QED BY <1>2, <1>7, <1>8

\* What the duck's head is, given where its cross is.
DuckHead(s, cross, first) ==
  /\ cross - Span.ahead - first >= Span.ahead
  /\ \E i \in (cross - Span.ahead - Span.ahead)..(cross - Span.ahead - 1) :
        i - Span.ma10 + 1 >= first /\ AboveBy(s, i, Span.ma5, Span.ma10) < 0
  /\ Lowest(s, "close", IF cross - Span.pulled > first THEN cross - Span.pulled ELSE first, cross - 1) * 100 * Span.ma60
        >= Closes(s, Len(s), Span.ma60) * 97

LEMMA HeadInUnits ==
  ASSUME NEW k, NEW m, NEW p \in Nat \ {0}, NEW v \in Nat \ {0}, Scaled(k, m, p, v), Len(k) >= Span.duckBars,
         NEW cross \in Nat, NEW first \in Int, 1 <= first, cross <= Len(k), cross - Span.ma10 >= first
  PROVE  DuckHead(m, cross, first) <=> DuckHead(k, cross, first)
<1> DEFINE n == Len(k)
           start == IF cross - Span.pulled > first THEN cross - Span.pulled ELSE first
           Days == (cross - Span.ahead - Span.ahead)..(cross - Span.ahead - 1)
<1>1. /\ n \in Nat /\ Len(m) = n /\ n >= Span.ma60
      /\ Span.ahead \in Nat /\ Span.pulled \in Nat /\ Span.ma10 \in Nat /\ Span.ma60 \in Nat
      /\ Span.ma10 > 0 /\ Span.pulled > 0
  <2>1. n \in Nat /\ Len(m) = n
    BY DEF Scaled
  <2>2. Span.duckBars \in Nat /\ Span.ma60 \in Nat /\ Span.ma60 <= Span.duckBars
    BY SpanFields
  <2>3. n >= Span.ma60
    BY <2>1, <2>2
  <2> QED BY <2>1, <2>2, <2>3, SpanFields
<1>2. \A i \in Days : i \in Int /\ i <= n /\ (i - Span.ma10 + 1 >= first => Span.ma10 <= i)
  BY <1>1
<1>3. ASSUME NEW i \in Days, i - Span.ma10 + 1 >= first
      PROVE  AboveBy(m, i, Span.ma5, Span.ma10) < 0 <=> AboveBy(k, i, Span.ma5, Span.ma10) < 0
  <2> HIDE DEF Days
  <2>1. i \in Int /\ i <= Len(k) /\ Span.ma10 <= i
    BY <1>2, <1>3
  <2> QED BY <2>1, DuckInUnits
<1>4. start \in Int /\ cross - 1 \in Int /\ 1 <= start /\ start <= cross - 1 /\ cross - 1 <= Len(k)
  BY <1>1
<1> HIDE DEF start, Days
<1>5. PICK low \in Int : Lowest(k, "close", start, cross - 1) = low /\ Lowest(m, "close", start, cross - 1) = p * low
  <2>1. Lowest(k, "close", start, cross - 1) \in Int /\ Lowest(m, "close", start, cross - 1) = p * Lowest(k, "close", start, cross - 1)
    <3>1. Within(k, start, cross - 1)
      BY <1>4 DEF Within
    <3>2. Times(p, Lowest(k, "close", start, cross - 1), Lowest(m, "close", start, cross - 1))
      BY <3>1, ExtremesInUnits
    <3> QED BY <3>2 DEF Times
  <2> QED BY <2>1
<1>6. PICK sum \in Int : Closes(k, n, Span.ma60) = sum /\ Closes(m, n, Span.ma60) = p * sum
  <2>1. n \in 1..Len(k) /\ Span.ma60 \in 1..n
    BY <1>1, Averages
  <2>2. Closes(k, n, Span.ma60) \in Int /\ Closes(m, n, Span.ma60) = p * Closes(k, n, Span.ma60)
    BY <2>1, ClosesInUnits
  <2> QED BY <2>2
<1>7. (p * low) * 100 * Span.ma60 >= (p * sum) * 97 <=> low * 100 * Span.ma60 >= sum * 97
  <2>1. PICK f \in Int : f = 100 * Span.ma60
    BY <1>1
  <2>2. \A x \in Int : x * 100 * Span.ma60 = x * f
    BY <1>1, <2>1
  <2>3. p * low \in Int /\ p * sum \in Int
    OBVIOUS
  <2>4. (p * sum) * 97 <= (p * low) * f <=> sum * 97 <= low * f
    BY UnitKeepsComparison
  <2>5. (p * low) * 100 * Span.ma60 = (p * low) * f /\ low * 100 * Span.ma60 = low * f
    BY <2>2, <2>3
  <2>6. (p * low) * f \in Int /\ low * f \in Int /\ (p * sum) * 97 \in Int /\ sum * 97 \in Int
    BY <2>3
  <2>7. \A a, b \in Int : a >= b <=> b <= a
    OBVIOUS
  <2> QED BY <2>4, <2>5, <2>6, <2>7
<1>8. DuckHead(k, cross, first) <=>
        /\ cross - Span.ahead - first >= Span.ahead
        /\ \E i \in Days : i - Span.ma10 + 1 >= first /\ AboveBy(k, i, Span.ma5, Span.ma10) < 0
        /\ low * 100 * Span.ma60 >= sum * 97
  BY <1>5, <1>6 DEF DuckHead, start, Days
<1>9. DuckHead(m, cross, first) <=>
        /\ cross - Span.ahead - first >= Span.ahead
        /\ \E i \in Days : i - Span.ma10 + 1 >= first /\ AboveBy(m, i, Span.ma5, Span.ma10) < 0
        /\ (p * low) * 100 * Span.ma60 >= (p * sum) * 97
  BY <1>1, <1>5, <1>6 DEF DuckHead, start, Days
<1> QED BY <1>3, <1>7, <1>8, <1>9

LEMMA OldDuckInUnits ==
  ASSUME NEW k, NEW m, NEW p \in Nat \ {0}, NEW v \in Nat \ {0}, Scaled(k, m, p, v)
  PROVE  OldDuck(m) <=> OldDuck(k)
<1> DEFINE n == Len(k)
<1>0. n \in Nat /\ Len(m) = n
  BY DEF Scaled
<1>1. CASE n >= Span.duckBars
  <2>1. n >= Span.ma60
    BY <1>0, <1>1, SpanFields
  <2>2. n \in 1..Len(k) /\ Span.ma5 \in 1..n /\ Span.ma10 \in 1..n /\ Span.ma20 \in 1..n /\ Span.ma60 \in 1..n
    BY <1>0, <2>1, Averages
  <2> HIDE DEF n
  <2>3. AboveBy(m, n, Span.ma10, Span.ma20) > 0 <=> AboveBy(k, n, Span.ma10, Span.ma20) > 0
    BY <2>2, AboveInUnits
  <2>4. AboveBy(m, n, Span.ma20, Span.ma60) > 0 <=> AboveBy(k, n, Span.ma20, Span.ma60) > 0
    BY <2>2, AboveInUnits
  <2>5. m[n].close * Span.ma5 >= Closes(m, n, Span.ma5) <=> k[n].close * Span.ma5 >= Closes(k, n, Span.ma5)
    BY <2>2, CloseInUnits
  <2>6. RatioAtLeast(m, 105) <=> RatioAtLeast(k, 105)
    BY RatioInUnits
  <2>7. /\ DuckFirst(m) = DuckFirst(k) /\ DuckFirst(k) \in Int /\ DuckFirst(k) >= 1
        /\ Crosses(m) = Crosses(k)
        /\ \A i \in Crosses(k) : i \in Nat /\ i <= Len(k) /\ i - Span.ma10 >= DuckFirst(k)
    BY <1>1, CrossesInUnits DEF n
  <2>8. ASSUME Crosses(k) # {}
        PROVE  DuckHead(m, Min(Crosses(k)), DuckFirst(k)) <=> DuckHead(k, Min(Crosses(k)), DuckFirst(k))
    <3>1. Crosses(k) \subseteq Nat
      BY <2>7
    <3>2. Min(Crosses(k)) \in Crosses(k)
      BY <2>8, <3>1, MinIsLeast
    <3>3. PICK cross \in Nat : cross = Min(Crosses(k)) /\ cross <= Len(k) /\ cross - Span.ma10 >= DuckFirst(k)
      BY <2>7, <3>2
    <3>4. PICK first \in Int : first = DuckFirst(k) /\ 1 <= first
      BY <2>7
    <3>5. DuckHead(m, cross, first) <=> DuckHead(k, cross, first)
      BY <1>1, <3>3, <3>4, HeadInUnits DEF n
    <3> QED BY <3>3, <3>4, <3>5
  <2>9. OldDuck(k) <=>
          /\ n >= Span.duckBars
          /\ AboveBy(k, n, Span.ma10, Span.ma20) > 0 /\ AboveBy(k, n, Span.ma20, Span.ma60) > 0
          /\ Crosses(k) # {} /\ DuckHead(k, Min(Crosses(k)), DuckFirst(k))
          /\ RatioAtLeast(k, 105) /\ k[n].close * Span.ma5 >= Closes(k, n, Span.ma5)
    BY DEF OldDuck, DuckHead, n
  <2>10. OldDuck(m) <=>
          /\ n >= Span.duckBars
          /\ AboveBy(m, n, Span.ma10, Span.ma20) > 0 /\ AboveBy(m, n, Span.ma20, Span.ma60) > 0
          /\ Crosses(m) # {} /\ DuckHead(m, Min(Crosses(m)), DuckFirst(m))
          /\ RatioAtLeast(m, 105) /\ m[n].close * Span.ma5 >= Closes(m, n, Span.ma5)
    BY <1>0 DEF OldDuck, DuckHead
  <2> QED BY <2>3, <2>4, <2>5, <2>6, <2>7, <2>8, <2>9, <2>10
<1>2. CASE ~(n >= Span.duckBars)
  BY <1>0, <1>2 DEF OldDuck
<1> QED BY <1>1, <1>2

LEMMA PlatformBreakInUnits ==
  ASSUME NEW k, NEW m, NEW p \in Nat \ {0}, NEW v \in Nat \ {0}, Scaled(k, m, p, v)
  PROVE  PlatformBreak(m) <=> PlatformBreak(k)
<1> DEFINE n == Len(k)
           from == n - Span.platform - 1
<1>0. n \in Nat /\ Len(m) = n
  BY DEF Scaled
<1>1. CASE n >= Span.platform + 2
  <2>1. Within(k, from, n - 2) /\ n \in 1..Len(k)
    <3>1. Span.platform \in Nat /\ Span.platform > 0
      BY SpanFields
    <3> QED BY <1>0, <1>1, <3>1 DEF Within
  <2> HIDE DEF n, from
  <2>2. PICK top \in Int : Highest(k, from, n - 2) = top /\ Highest(m, from, n - 2) = p * top
    <3>1. Times(p, Highest(k, from, n - 2), Highest(m, from, n - 2))
      BY <2>1, ExtremesInUnits
    <3> QED BY <3>1 DEF Times
  <2>3. PICK floor \in Int : Lowest(k, "low", from, n - 2) = floor /\ Lowest(m, "low", from, n - 2) = p * floor
    <3>1. Times(p, Lowest(k, "low", from, n - 2), Lowest(m, "low", from, n - 2))
      BY <2>1, ExtremesInUnits
    <3> QED BY <3>1 DEF Times
  <2>4. PICK c \in Int : k[n].close = c /\ m[n].close = p * c
    BY <2>1 DEF Scaled
  <2>5. RatioAtLeast(m, 120) <=> RatioAtLeast(k, 120)
    BY RatioInUnits
  <2>6. p * c > p * top <=> c > top
    <3>1. p * top < p * c <=> top < c
      BY UnitKeepsOrder
    <3>2. p * top \in Int /\ p * c \in Int
      OBVIOUS
    <3> QED BY <3>1, <3>2
  <2>7. (p * top - p * floor) * 100 <= 8 * (p * floor) <=> (top - floor) * 100 <= 8 * floor
    <3>1. PICK d \in Int : d = top - floor
      OBVIOUS
    <3>2. p * top - p * floor = p * d
      BY <3>1
    <3>3. (p * d) * 100 <= (p * floor) * 8 <=> d * 100 <= floor * 8
      BY UnitKeepsComparison
    <3>4. (p * floor) * 8 = 8 * (p * floor) /\ floor * 8 = 8 * floor
      OBVIOUS
    <3> QED BY <3>1, <3>2, <3>3, <3>4
  <2>8. PlatformBreak(k) <=>
          /\ n >= Span.minBars /\ n >= Span.platform + 2
          /\ (top - floor) * 100 <= 8 * floor /\ c > top /\ RatioAtLeast(k, 120)
    BY <2>2, <2>3, <2>4 DEF PlatformBreak, n, from
  <2>9. PlatformBreak(m) <=>
          /\ n >= Span.minBars /\ n >= Span.platform + 2
          /\ (p * top - p * floor) * 100 <= 8 * (p * floor) /\ p * c > p * top /\ RatioAtLeast(m, 120)
    BY <1>0, <2>2, <2>3, <2>4 DEF PlatformBreak, from
  <2> QED BY <2>5, <2>6, <2>7, <2>8, <2>9
<1>2. CASE ~(n >= Span.platform + 2)
  BY <1>0, <1>2 DEF PlatformBreak
<1> QED BY <1>1, <1>2

LEMMA NearInUnits ==
  ASSUME NEW p \in Nat \ {0}, NEW low \in Int, NEW sum \in Int
  PROVE  NearMa20(p * low, p * sum) <=> NearMa20(low, sum)
<1>1. PICK x \in Int : x = low * Span.ma20 /\ (p * low) * Span.ma20 = p * x
  BY SpanFields
<1>2. PICK d \in Int : Apart(x, sum) = d /\ Apart(p * x, p * sum) = p * d
  <2>1. Apart(x, sum) \in Int /\ Apart(p * x, p * sum) = p * Apart(x, sum)
    BY ApartInUnits
  <2> QED BY <2>1
<1>3. (p * d) * 100 <= (p * sum) * 2 <=> d * 100 <= sum * 2
  BY UnitKeepsComparison
<1>4. (p * sum) * 2 = 2 * (p * sum) /\ sum * 2 = 2 * sum
  OBVIOUS
<1> QED BY <1>1, <1>2, <1>3, <1>4 DEF NearMa20

LEMMA PullbackInUnits ==
  ASSUME NEW k, NEW m, NEW p \in Nat \ {0}, NEW v \in Nat \ {0}, Scaled(k, m, p, v)
  PROVE  Pullback(m) <=> Pullback(k)
<1> DEFINE n == Len(k)
           from == IF n > Span.touch THEN n - Span.touch + 1 ELSE 1
<1>0. n \in Nat /\ Len(m) = n
  BY DEF Scaled
<1>1. CASE n >= Span.minBars
  <2>1. n \in 1..Len(k) /\ n-1 \in 1..Len(k) /\ Span.ma20 \in 1..n /\ \A j \in from..n : j \in 1..Len(k)
    <3>1. /\ Span.minBars \in Nat /\ Span.touch \in Nat /\ Span.ma5 \in Nat /\ Span.ma10 \in Nat /\ Span.ma20 \in Nat
          /\ Span.ma5 > 0 /\ Span.ma5 < Span.ma10 /\ Span.ma10 < Span.ma20 /\ Span.ma20 <= Span.minBars
      BY SpanFields
    <3>2. Span.ma20 >= 2 /\ n >= Span.ma20 /\ n >= 2
      BY <1>0, <1>1, <3>1
    <3> QED BY <1>0, <3>1, <3>2
  <2> HIDE DEF n, from
  <2>2. n >= Span.ma60 => (AboveBy(m, n, Span.ma20, Span.ma60) > 0 <=> AboveBy(k, n, Span.ma20, Span.ma60) > 0)
    <3> SUFFICES ASSUME n >= Span.ma60
                 PROVE  AboveBy(m, n, Span.ma20, Span.ma60) > 0 <=> AboveBy(k, n, Span.ma20, Span.ma60) > 0
      OBVIOUS
    <3>1. Span.ma20 \in 1..n /\ Span.ma60 \in 1..n
      BY <1>0, Averages
    <3> QED BY <2>1, <3>1, AboveInUnits
  <2>3. m[n].close >= m[n-1].close <=> k[n].close >= k[n-1].close
    <3>1. PICK a \in Int : k[n].close = a /\ m[n].close = p * a
      BY <2>1 DEF Scaled
    <3>2. PICK b \in Int : k[n-1].close = b /\ m[n-1].close = p * b
      <4>1. \A i \in 1..Len(k) : k[i].close \in Nat /\ m[i].close = p * k[i].close
        BY DEF Scaled
      <4>2. PICK j \in 1..Len(k) : j = n-1
        BY <2>1
      <4>3. k[j].close \in Nat /\ m[j].close = p * k[j].close
        BY <4>1
      <4> QED BY <4>2, <4>3
    <3>3. p * b <= p * a <=> b <= a
      BY UnitKeepsOrder
    <3>4. p * a \in Int /\ p * b \in Int
      OBVIOUS
    <3>5. (p * a >= p * b <=> p * b <= p * a) /\ (a >= b <=> b <= a)
      BY <3>4
    <3> QED BY <3>1, <3>2, <3>3, <3>5
  <2>4. Dry(m) <=> Dry(k)
    BY RatioInUnits DEF Dry
  <2>5. PICK sum \in Int : Closes(k, n, Span.ma20) = sum /\ Closes(m, n, Span.ma20) = p * sum
    <3>1. Closes(k, n, Span.ma20) \in Int /\ Closes(m, n, Span.ma20) = p * Closes(k, n, Span.ma20)
      BY <2>1, ClosesInUnits
    <3> QED BY <3>1
  <2>6. \A j \in from..n : NearMa20(m[j].low, p * sum) <=> NearMa20(k[j].low, sum)
    <3> SUFFICES ASSUME NEW j \in from..n PROVE NearMa20(m[j].low, p * sum) <=> NearMa20(k[j].low, sum)
      OBVIOUS
    <3>1. PICK low \in Int : k[j].low = low /\ m[j].low = p * low
      <4>1. \A i \in 1..Len(k) : k[i].low \in Nat /\ m[i].low = p * k[i].low
        BY DEF Scaled
      <4>2. PICK i \in 1..Len(k) : i = j
        BY <2>1
      <4>3. k[i].low \in Nat /\ m[i].low = p * k[i].low
        BY <4>1
      <4> QED BY <4>2, <4>3
    <3> QED BY <3>1, NearInUnits
  <2>7. Pullback(k) <=>
          /\ n >= Span.minBars /\ (n >= Span.ma60 => AboveBy(k, n, Span.ma20, Span.ma60) > 0)
          /\ k[n].close >= k[n-1].close /\ Dry(k) /\ \E j \in from..n : NearMa20(k[j].low, sum)
    BY <2>5 DEF Pullback, n, from
  <2>8. Pullback(m) <=>
          /\ n >= Span.minBars /\ (n >= Span.ma60 => AboveBy(m, n, Span.ma20, Span.ma60) > 0)
          /\ m[n].close >= m[n-1].close /\ Dry(m) /\ \E j \in from..n : NearMa20(m[j].low, p * sum)
    BY <1>0, <2>5 DEF Pullback, from
  <2> QED BY <2>2, <2>3, <2>4, <2>6, <2>7, <2>8
<1>2. CASE ~(n >= Span.minBars)
  BY <1>0, <1>2 DEF Pullback
<1> QED BY <1>1, <1>2

\* Every pattern is a matter of shape.
LEMMA MatchesInUnits ==
  ASSUME NEW k, NEW m, NEW p \in Nat \ {0}, NEW v \in Nat \ {0}, Scaled(k, m, p, v), NEW pattern \in Patterns
  PROVE  Matches(pattern, m) <=> Matches(pattern, k)
<1>1. /\ MaBull(m) <=> MaBull(k)
      /\ WBottom(m) <=> WBottom(k)
      /\ OldDuck(m) <=> OldDuck(k)
      /\ PlatformBreak(m) <=> PlatformBreak(k)
      /\ Pullback(m) <=> Pullback(k)
  BY MaBullInUnits, WBottomInUnits, OldDuckInUnits, PlatformBreakInUnits, PullbackInUnits
<1>2. CASE pattern = "ma_bull"
  BY <1>1, <1>2 DEF Matches
<1>3. CASE pattern = "w_bottom"
  BY <1>1, <1>3 DEF Matches
<1>4. CASE pattern = "old_duck"
  BY <1>1, <1>4 DEF Matches
<1>5. CASE pattern = "platform_break"
  BY <1>1, <1>5 DEF Matches
<1>6. CASE pattern = "pullback_ma20"
  BY <1>1, <1>6 DEF Matches
<1> QED BY <1>2, <1>3, <1>4, <1>5, <1>6 DEF Patterns

\* The series in other units is one of numbers, as it is itself.
LEMMA UnitsAreScaled ==
  ASSUME klines \in Seq(KlineShapes), NEW p \in Nat \ {0}, NEW v \in Nat \ {0}
  PROVE  Scaled(klines, InUnits(p, v), p, v)
<1>1. Len(klines) \in Nat /\ DOMAIN klines = 1..Len(klines) /\ \A i \in 1..Len(klines) : klines[i] \in KlineShapes
  OBVIOUS
<1>2. ASSUME NEW i \in 1..Len(klines)
      PROVE  klines[i].high \in Nat /\ klines[i].low \in Nat /\ klines[i].close \in Nat /\ klines[i].volume \in Nat
  BY <1>1, SpanAssumption
<1>3. Len(InUnits(p, v)) = Len(klines)
  BY <1>1 DEF InUnits
<1>4. ASSUME NEW i \in 1..Len(klines)
      PROVE  /\ InUnits(p, v)[i].high = p * klines[i].high /\ InUnits(p, v)[i].low = p * klines[i].low
             /\ InUnits(p, v)[i].close = p * klines[i].close /\ InUnits(p, v)[i].volume = v * klines[i].volume
  BY <1>1 DEF InUnits
<1> QED BY <1>1, <1>2, <1>3, <1>4 DEF Scaled

LEMMA RatioIsOneOrTheOther ==
  ASSUME NEW k, NEW m, NEW p \in Nat \ {0}, NEW v \in Nat \ {0}, Scaled(k, m, p, v),
         NEW more \in Nat, NEW less \in Nat, less < more
  PROVE  ~(RatioAtLeast(k, more) /\ RatioAtMost(k, less))
<1> SUFFICES ASSUME RatioAtLeast(k, more), RatioAtMost(k, less) PROVE FALSE
  OBVIOUS
<1>1. HasRatio(k) /\ Base(k) > 0
  BY DEF RatioAtLeast, HasRatio
<1>2. PICK r \in Int, b \in Int : r = Recent(k) /\ b = Base(k)
  BY <1>1, RatioInUnits
<1>3. b > 0 /\ r * 100 >= b * more /\ r * 100 <= b * less
  BY <1>1, <1>2 DEF RatioAtLeast, RatioAtMost
<1>4. b * less < b * more
  <2>1. b \in Nat \ {0}
    BY <1>3
  <2> QED BY <2>1, UnitKeepsOrder
<1>5. b * less \in Int /\ b * more \in Int /\ r * 100 \in Int
  OBVIOUS
<1> QED BY <1>3, <1>4, <1>5

LEMMA PatternsAreRight ==
  ASSUME klines \in Seq(KlineShapes)
  PROVE  /\ \A pattern \in Patterns : \A p, v \in Nat \ {0} : Matches(pattern, InUnits(p, v)) <=> Matches(pattern, klines)
         /\ BreakoutIsNoPullback
<1>1. \A pattern \in Patterns : \A p, v \in Nat \ {0} : Matches(pattern, InUnits(p, v)) <=> Matches(pattern, klines)
  BY UnitsAreScaled, MatchesInUnits
<1>2. ~(RatioAtLeast(klines, 120) /\ RatioAtMost(klines, 90)) /\ ~(RatioAtLeast(klines, 105) /\ RatioAtMost(klines, 90))
  <2>1. 1 \in Nat \ {0} /\ 120 \in Nat /\ 105 \in Nat /\ 90 \in Nat /\ 90 < 120 /\ 90 < 105
    OBVIOUS
  <2> QED BY <2>1, UnitsAreScaled, RatioIsOneOrTheOther
<1>3. /\ Matches("platform_break", klines) => RatioAtLeast(klines, 120)
      /\ Matches("old_duck", klines) => RatioAtLeast(klines, 105)
      /\ Matches("pullback_ma20", klines) => RatioAtMost(klines, 90)
  BY DEF Matches, PlatformBreak, OldDuck, Pullback, Dry
<1> QED BY <1>1, <1>2, <1>3 DEF BreakoutIsNoPullback

AnyUnit == \A pattern \in Patterns : \A p, v \in Nat \ {0} : Matches(pattern, InUnits(p, v)) <=> Matches(pattern, klines)

LEMMA PatternsKeep ==
  /\ PatternInit => klines \in Seq(KlineShapes)
  /\ klines \in Seq(KlineShapes) /\ [NextKline]_klines => (klines \in Seq(KlineShapes))'
<1>1. PatternInit => klines \in Seq(KlineShapes)
  BY DEF PatternInit
<1>2. klines \in Seq(KlineShapes) /\ [NextKline]_klines => (klines \in Seq(KlineShapes))'
  BY DEF NextKline
<1> QED BY <1>1, <1>2

\* A pattern is a matter of shape and never of units: the matchers say the same of a
\* series in whatever units of price and volume (domains/screener/pattern_rules.py).
THEOREM UnitsDoNotMatter == PatternSpec => []AnyUnit
<1>1. klines \in Seq(KlineShapes) => AnyUnit
  BY PatternsAreRight DEF AnyUnit
<1> QED BY <1>1, PatternsKeep, PTL DEF PatternSpec

\* No match is made or broken by a split or a count in lots, and nothing breaks out of
\* a platform, or rises as a duck's head, while it falls back to its average on no
\* volume (domains/screener/pattern_rules.py), for any windows and any series.
THEOREM PatternsHold == PatternSpec => []PatternsAreShapes
<1>1. klines \in Seq(KlineShapes) => PatternsAreShapes
  <2> SUFFICES ASSUME klines \in Seq(KlineShapes) PROVE PatternsAreShapes
    OBVIOUS
  <2>1. AnyUnit /\ BreakoutIsNoPullback
    BY PatternsAreRight DEF AnyUnit
  <2>2. 1 \in Nat \ {0} /\ 3 \in Nat \ {0} /\ 100 \in Nat \ {0}
    OBVIOUS
  <2>3. ShapeOnly
    BY <2>1, <2>2 DEF AnyUnit, ShapeOnly
  <2> QED BY <2>1, <2>3 DEF PatternsAreShapes
<1> QED BY <1>1, PatternsKeep, PTL DEF PatternSpec

-----------------------------------------------------------------------------
(* LiveRanks: a ranking is one of the quotes beside it, for every set of    *)
(* stocks and of factors. What a writer has not ranked yet is already in    *)
(* the hashes, and whoever meets another writer loses the right to say so.  *)

Writers == [pc : {"rest", "hset", "zadd"}, todo : SUBSET LiveStocks, values : UNION {[S -> Factors] : S \in SUBSET LiveStocks}]

LiveTypes ==
    /\ quoted \in [LiveStocks -> Factors \cup {NoQuote}]
    /\ scored \in [LiveStocks -> Nat]
    /\ round \in Writers /\ patch \in Writers
    /\ alone \in BOOLEAN /\ fetchedEver \subseteq LiveStocks

\* What a writer that meets no other one has done so far.
Written(writer) ==
    /\ \A s \in DOMAIN writer.values \ writer.todo : quoted[s] = writer.values[s]
    /\ writer.pc = "zadd" => writer.todo = {} /\ scored = Nobody0

WriterAlone ==
    alone => /\ ~(Busy(round) /\ Busy(patch))
             /\ Busy(round) => Written(round)
             /\ Busy(patch) => Written(patch)

\* What either writer is about to write, it has been fetched for.
WritesFetched ==
    /\ DOMAIN round.values \subseteq fetchedEver
    /\ DOMAIN patch.values \ patch.todo \subseteq fetchedEver
    /\ patch.pc = "zadd" => patch.todo = {}
    /\ round.todo \subseteq DOMAIN round.values /\ patch.todo \subseteq DOMAIN patch.values

LiveInv == LiveTypes /\ WriterAlone /\ WritesFetched /\ RankingIsOfQuotes

-----------------------------------------------------------------------------
LEMMA AnswerTypes ==
    ASSUME NEW values \in Answers
    PROVE  values \in [DOMAIN values -> Factors] /\ DOMAIN values \subseteq LiveStocks
BY DEF Answers

LEMMA WriterTypes ==
    ASSUME NEW w \in Writers
    PROVE  /\ w.pc \in {"rest", "hset", "zadd"} /\ w.todo \subseteq LiveStocks
           /\ w.values \in [DOMAIN w.values -> Factors] /\ DOMAIN w.values \subseteq LiveStocks
BY DEF Writers

\* A writer's record is one of three places, its stocks still to do and its values.
LEMMA RestingWriter == Resting \in Writers /\ ~Busy(Resting) /\ DOMAIN Resting.values = {} /\ Resting.todo = {}
<1>1. [s \in {} |-> 0] \in [{} -> Factors]
  OBVIOUS
<1>2. [s \in {} |-> 0] \in UNION {[S -> Factors] : S \in SUBSET LiveStocks}
  BY <1>1
<1> QED BY <1>2 DEF Resting, Writers, Busy

\* What a writer adds to the ranking is a number.
LEMMA RankedTypes ==
    ASSUME NEW values, values \in [DOMAIN values -> Factors], scored \in [LiveStocks -> Nat]
    PROVE  /\ Ranked(values) \in [LiveStocks -> Nat]
           /\ \A s \in LiveStocks : Ranked(values)[s] > 0 /\ ~(s \in DOMAIN values /\ Ranked(values)[s] = values[s]) => Ranked(values)[s] = scored[s]
BY LiveAssumption DEF Ranked

-----------------------------------------------------------------------------
LEMMA LiveStart == LiveInit => LiveInv
<1> SUFFICES ASSUME LiveInit PROVE LiveInv
  OBVIOUS
<1>1. LiveTypes
  BY RestingWriter DEF LiveInit, LiveTypes
<1>2. WriterAlone /\ WritesFetched
  BY RestingWriter DEF LiveInit, WriterAlone, WritesFetched, Resting
<1>3. RankingIsOfQuotes
  BY LiveAssumption DEF LiveInit, RankingIsOfQuotes, ScoresAreTheQuotes, OnlyQuotedAreRanked
<1> QED BY <1>1, <1>2, <1>3 DEF LiveInv

LEMMA RoundStep ==
    ASSUME LiveInv, RoundBegins \/ RoundDropsRanking \/ RoundRanks \/ \E s \in LiveStocks : RoundWritesQuote(s)
    PROVE  LiveInv'
<1> USE DEF LiveInv
<1>1. CASE RoundBegins
  <2>1. PICK values \in Answers : /\ round' = [pc |-> "hset", todo |-> DOMAIN values, values |-> values]
                                  /\ fetchedEver' = fetchedEver \cup DOMAIN values
    BY <1>1 DEF RoundBegins
  <2>2. values \in [DOMAIN values -> Factors] /\ DOMAIN values \subseteq LiveStocks
    BY AnswerTypes
  <2>3. round' \in Writers
    BY <2>1, <2>2 DEF Writers
  <2>4. LiveTypes'
    BY <1>1, <2>1, <2>2, <2>3 DEF RoundBegins, LiveTypes
  <2>5. WriterAlone'
    BY <1>1, <2>1 DEF RoundBegins, WriterAlone, Written, Busy
  <2>6. WritesFetched'
    BY <1>1, <2>1 DEF RoundBegins, WritesFetched
  <2>7. ScoresAreTheQuotes'
    BY <2>1 DEF ScoresAreTheQuotes, Busy
  <2>8. OnlyQuotedAreRanked'
    BY <1>1, <2>1 DEF RoundBegins, RankingIsOfQuotes, OnlyQuotedAreRanked
  <2> QED BY <2>4, <2>5, <2>6, <2>7, <2>8 DEF RankingIsOfQuotes
<1>2. ASSUME NEW s \in LiveStocks, RoundWritesQuote(s) PROVE LiveInv'
  <2>1. s \in DOMAIN round.values /\ round.values[s] \in Factors
    BY <1>2, WriterTypes DEF RoundWritesQuote, LiveTypes, WritesFetched
  <2>2. quoted' \in [LiveStocks -> Factors \cup {NoQuote}] /\ quoted'[s] = round.values[s] /\ \A t \in LiveStocks \ {s} : quoted'[t] = quoted[t]
    BY <1>2, <2>1 DEF RoundWritesQuote, LiveTypes
  <2>3. round' \in Writers /\ round'.pc = "hset" /\ round'.values = round.values /\ round'.todo = round.todo \ {s}
    BY <1>2 DEF RoundWritesQuote, LiveTypes, Writers
  <2>4. LiveTypes'
    BY <1>2, <2>2, <2>3 DEF RoundWritesQuote, LiveTypes
  <2>5. WriterAlone'
    <3>1. alone /\ Busy(round) => Written(round) /\ ~Busy(patch)
      BY DEF WriterAlone
    <3>2. DOMAIN round.values \subseteq LiveStocks
      BY WriterTypes DEF LiveTypes
    <3> QED BY <1>2, <2>2, <2>3, <3>1, <3>2 DEF RoundWritesQuote, WriterAlone, Written, Busy
  <2>6. WritesFetched'
    BY <1>2, <2>3 DEF RoundWritesQuote, WritesFetched
  <2>7. ScoresAreTheQuotes'
    BY <2>3 DEF ScoresAreTheQuotes, Busy
  <2>8. OnlyQuotedAreRanked'
    BY <1>2, <2>1, <2>2 DEF RoundWritesQuote, RankingIsOfQuotes, OnlyQuotedAreRanked, WritesFetched
  <2> QED BY <2>4, <2>5, <2>6, <2>7, <2>8 DEF RankingIsOfQuotes
<1>3. CASE RoundDropsRanking
  <2>1. round' \in Writers /\ round'.pc = "zadd" /\ round'.values = round.values /\ round'.todo = {}
    BY <1>3 DEF RoundDropsRanking, LiveTypes, Writers
  <2>2. scored' = Nobody0 /\ scored' \in [LiveStocks -> Nat]
    BY <1>3 DEF RoundDropsRanking, Nobody0
  <2>3. LiveTypes'
    BY <1>3, <2>1, <2>2 DEF RoundDropsRanking, LiveTypes
  <2>4. WriterAlone'
    BY <1>3, <2>1, <2>2 DEF RoundDropsRanking, WriterAlone, Written, Busy, Nobody0
  <2>5. WritesFetched'
    BY <1>3, <2>1 DEF RoundDropsRanking, WritesFetched
  <2>6. ScoresAreTheQuotes'
    BY <2>1 DEF ScoresAreTheQuotes, Busy
  <2>7. OnlyQuotedAreRanked'
    BY <1>3, <2>2 DEF RoundDropsRanking, RankingIsOfQuotes, OnlyQuotedAreRanked, Nobody0
  <2> QED BY <2>3, <2>4, <2>5, <2>6, <2>7 DEF RankingIsOfQuotes
<1>4. CASE RoundRanks
  <2> DEFINE values == round.values
  <2>1. values \in [DOMAIN values -> Factors] /\ DOMAIN values \subseteq LiveStocks
    BY WriterTypes DEF LiveTypes
  <2>2. scored' = Ranked(values) /\ scored' \in [LiveStocks -> Nat]
    BY <1>4, <2>1, RankedTypes DEF RoundRanks, LiveTypes
  <2>3. round' = Resting
    BY <1>4 DEF RoundRanks
  <2>4. LiveTypes'
    BY <1>4, <2>2, <2>3, RestingWriter DEF RoundRanks, LiveTypes
  <2>5. WriterAlone'
    <3>1. ~Busy(round)'
      BY <2>3, RestingWriter
    <3>2. alone => ~Busy(patch)
      BY <1>4 DEF RoundRanks, WriterAlone, Busy
    <3> QED BY <1>4, <3>1, <3>2 DEF RoundRanks, WriterAlone, Busy
  <2>6. WritesFetched'
    BY <1>4, <2>3, RestingWriter DEF RoundRanks, WritesFetched
  <2>7. ScoresAreTheQuotes'
    <3> SUFFICES ASSUME alone, NEW s \in LiveStocks, scored'[s] > 0 PROVE scored'[s] = quoted[s]
      BY <1>4 DEF RoundRanks, ScoresAreTheQuotes
    <3>1. Written(round) /\ round.todo = {} /\ scored[s] = 0
      BY <1>4 DEF RoundRanks, WriterAlone, Written, Busy, Nobody0
    <3>2. s \in DOMAIN values /\ scored'[s] = values[s]
      BY <2>1, <2>2, <3>1, RankedTypes DEF LiveTypes
    <3> QED BY <3>1, <3>2 DEF Written
  <2>8. OnlyQuotedAreRanked'
    BY <1>4, <2>1, <2>2, RankedTypes DEF RoundRanks, RankingIsOfQuotes, OnlyQuotedAreRanked, WritesFetched, LiveTypes
  <2> QED BY <2>4, <2>5, <2>6, <2>7, <2>8 DEF RankingIsOfQuotes
<1> QED BY <1>1, <1>2, <1>3, <1>4

\* A stock that is passed over leaves the writer's values.
LEMMA PassedOver ==
    ASSUME NEW s \in LiveStocks, NEW D \in SUBSET LiveStocks, NEW values \in [D -> Factors]
    PROVE  /\ Without(values, s) \in UNION {[S -> Factors] : S \in SUBSET LiveStocks}
           /\ DOMAIN Without(values, s) = DOMAIN values \ {s}
           /\ \A t \in DOMAIN values \ {s} : Without(values, s)[t] = values[t]
<1>1. Without(values, s) \in [D \ {s} -> Factors]
  BY DEF Without
<1>2. Without(values, s) \in UNION {[S -> Factors] : S \in SUBSET LiveStocks}
  BY <1>1
<1> QED BY <1>1, <1>2 DEF Without

LEMMA PatchStep ==
    ASSUME LiveInv, PatchBegins \/ PatchDropsRanking \/ PatchRanks \/ \E s \in LiveStocks : PatchesStock(s)
    PROVE  LiveInv'
<1> USE DEF LiveInv
<1>1. CASE PatchBegins
  <2>1. PICK values \in Answers : patch' = [pc |-> "hset", todo |-> DOMAIN values, values |-> values]
    BY <1>1 DEF PatchBegins
  <2>2. values \in [DOMAIN values -> Factors] /\ DOMAIN values \subseteq LiveStocks
    BY AnswerTypes
  <2>3. patch' \in Writers
    BY <2>1, <2>2 DEF Writers
  <2>4. LiveTypes'
    BY <1>1, <2>3 DEF PatchBegins, LiveTypes
  <2>5. WriterAlone'
    BY <1>1, <2>1 DEF PatchBegins, WriterAlone, Written, Busy
  <2>6. WritesFetched'
    BY <1>1, <2>1 DEF PatchBegins, WritesFetched
  <2>7. ScoresAreTheQuotes'
    BY <2>1 DEF ScoresAreTheQuotes, Busy
  <2>8. OnlyQuotedAreRanked'
    BY <1>1 DEF PatchBegins, RankingIsOfQuotes, OnlyQuotedAreRanked
  <2> QED BY <2>4, <2>5, <2>6, <2>7, <2>8 DEF RankingIsOfQuotes
<1>2. ASSUME NEW s \in LiveStocks, PatchesStock(s) PROVE LiveInv'
  <2> USE DEF PatchesStock
  <2>1. s \in DOMAIN patch.values /\ patch.values[s] \in Factors /\ patch.pc = "hset" /\ s \in patch.todo
    BY <1>2, WriterTypes DEF LiveTypes, WritesFetched
  <2>2. alone => ~Busy(round) /\ Written(patch)
    BY <2>1 DEF WriterAlone, Busy
  <2>3. CASE quoted[s] /= NoQuote
    <3>1. quoted' \in [LiveStocks -> Factors \cup {NoQuote}] /\ quoted'[s] = patch.values[s] /\ \A t \in LiveStocks \ {s} : quoted'[t] = quoted[t]
      BY <1>2, <2>1, <2>3 DEF LiveTypes
    <3>2. patch' \in Writers /\ patch'.pc = "hset" /\ patch'.values = patch.values /\ patch'.todo = patch.todo \ {s}
      <4>1. patch' = [patch EXCEPT !.todo = patch.todo \ {s}]
        BY <1>2, <2>3
      <4> QED BY <2>1, <4>1 DEF LiveTypes, Writers
    <3>3. s \in fetchedEver
      BY <2>3 DEF RankingIsOfQuotes, OnlyQuotedAreRanked
    <3>4. LiveTypes'
      BY <1>2, <3>1, <3>2 DEF LiveTypes
    <3>5. WriterAlone'
      <4>1. DOMAIN patch.values \subseteq LiveStocks
        BY WriterTypes DEF LiveTypes
      <4> QED BY <1>2, <2>2, <3>1, <3>2, <4>1 DEF WriterAlone, Written, Busy
    <3>6. WritesFetched'
      BY <1>2, <3>2, <3>3 DEF WritesFetched
    <3>7. ScoresAreTheQuotes'
      BY <3>2 DEF ScoresAreTheQuotes, Busy
    <3>8. OnlyQuotedAreRanked'
      BY <1>2, <3>1, <3>3 DEF RankingIsOfQuotes, OnlyQuotedAreRanked
    <3> QED BY <3>4, <3>5, <3>6, <3>7, <3>8 DEF RankingIsOfQuotes
  <2>4. CASE quoted[s] = NoQuote
    <3>1. patch' = [patch EXCEPT !.todo = patch.todo \ {s}, !.values = Without(patch.values, s)] /\ quoted' = quoted
      BY <1>2, <2>4
    <3>2. /\ patch' \in Writers /\ patch'.pc = "hset" /\ patch'.todo = patch.todo \ {s}
          /\ DOMAIN patch'.values = DOMAIN patch.values \ {s}
          /\ \A t \in DOMAIN patch'.values : patch'.values[t] = patch.values[t]
      <4>1. patch \in Writers
        BY DEF LiveTypes
      <4>2. /\ Without(patch.values, s) \in UNION {[S -> Factors] : S \in SUBSET LiveStocks}
            /\ DOMAIN Without(patch.values, s) = DOMAIN patch.values \ {s}
            /\ \A t \in DOMAIN patch.values \ {s} : Without(patch.values, s)[t] = patch.values[t]
        <5>1. patch.values \in [DOMAIN patch.values -> Factors] /\ DOMAIN patch.values \in SUBSET LiveStocks
          BY <4>1, WriterTypes
        <5> HIDE DEF PatchesStock, LiveInv
        <5> QED BY <5>1, PassedOver
      <4>3. patch' \in Writers /\ patch'.pc = "hset" /\ patch'.todo = patch.todo \ {s} /\ patch'.values = Without(patch.values, s)
        BY <2>1, <3>1, <4>1, <4>2 DEF Writers
      <4> QED BY <4>2, <4>3
    <3>3. LiveTypes'
      BY <1>2, <3>1, <3>2 DEF LiveTypes
    <3>4. WriterAlone'
      BY <1>2, <2>2, <3>1, <3>2 DEF WriterAlone, Written, Busy
    <3>5. WritesFetched'
      BY <1>2, <3>2 DEF WritesFetched
    <3>6. ScoresAreTheQuotes'
      BY <3>2 DEF ScoresAreTheQuotes, Busy
    <3>7. OnlyQuotedAreRanked'
      BY <1>2, <3>1 DEF RankingIsOfQuotes, OnlyQuotedAreRanked
    <3> QED BY <3>3, <3>4, <3>5, <3>6, <3>7 DEF RankingIsOfQuotes
  <2> QED BY <2>3, <2>4
<1>3. CASE PatchDropsRanking
  <2> USE DEF PatchDropsRanking
  <2>1. CASE DOMAIN patch.values = {}
    <3>1. patch' = Resting /\ alone' = FALSE /\ UNCHANGED <<scored, quoted, round, fetchedEver>>
      BY <1>3, <2>1
    <3>2. LiveTypes' /\ WritesFetched'
      BY <3>1, RestingWriter DEF LiveTypes, WritesFetched, Resting
    <3>3. WriterAlone' /\ ScoresAreTheQuotes' /\ OnlyQuotedAreRanked'
      BY <3>1 DEF WriterAlone, ScoresAreTheQuotes, RankingIsOfQuotes, OnlyQuotedAreRanked
    <3> QED BY <3>2, <3>3 DEF RankingIsOfQuotes
  <2>2. CASE DOMAIN patch.values /= {}
    <3>1. patch' \in Writers /\ patch'.pc = "zadd" /\ patch'.values = patch.values /\ patch'.todo = {}
      BY <1>3, <2>2 DEF LiveTypes, Writers
    <3>2. scored' = Nobody0 /\ scored' \in [LiveStocks -> Nat] /\ alone' = alone
      BY <1>3, <2>2 DEF Nobody0
    <3>3. LiveTypes'
      BY <1>3, <3>1, <3>2 DEF LiveTypes
    <3>4. WriterAlone'
      BY <1>3, <3>1, <3>2 DEF WriterAlone, Written, Busy, Nobody0
    <3>5. WritesFetched'
      BY <1>3, <3>1 DEF WritesFetched
    <3>6. ScoresAreTheQuotes'
      BY <3>1 DEF ScoresAreTheQuotes, Busy
    <3>7. OnlyQuotedAreRanked'
      BY <1>3, <3>2 DEF RankingIsOfQuotes, OnlyQuotedAreRanked, Nobody0
    <3> QED BY <3>3, <3>4, <3>5, <3>6, <3>7 DEF RankingIsOfQuotes
  <2> QED BY <2>1, <2>2
<1>4. CASE PatchRanks
  <2> DEFINE values == patch.values
  <2>1. values \in [DOMAIN values -> Factors] /\ DOMAIN values \subseteq LiveStocks
    BY WriterTypes DEF LiveTypes
  <2>2. scored' = Ranked(values) /\ scored' \in [LiveStocks -> Nat]
    BY <1>4, <2>1, RankedTypes DEF PatchRanks, LiveTypes
  <2>3. patch' = Resting
    BY <1>4 DEF PatchRanks
  <2>4. LiveTypes'
    BY <1>4, <2>2, <2>3, RestingWriter DEF PatchRanks, LiveTypes
  <2>5. WriterAlone'
    <3>1. ~Busy(patch)'
      BY <2>3, RestingWriter
    <3>2. alone => ~Busy(round)
      BY <1>4 DEF PatchRanks, WriterAlone, Busy
    <3> QED BY <1>4, <3>1, <3>2 DEF PatchRanks, WriterAlone, Busy
  <2>6. WritesFetched'
    BY <1>4, <2>3, RestingWriter DEF PatchRanks, WritesFetched
  <2>7. ScoresAreTheQuotes'
    <3> SUFFICES ASSUME alone, NEW s \in LiveStocks, scored'[s] > 0 PROVE scored'[s] = quoted[s]
      BY <1>4 DEF PatchRanks, ScoresAreTheQuotes
    <3>1. Written(patch) /\ patch.todo = {} /\ scored[s] = 0
      BY <1>4 DEF PatchRanks, WriterAlone, Written, Busy, Nobody0
    <3>2. s \in DOMAIN values /\ scored'[s] = values[s]
      BY <2>1, <2>2, <3>1, RankedTypes DEF LiveTypes
    <3> QED BY <3>1, <3>2 DEF Written
  <2>8. OnlyQuotedAreRanked'
    BY <1>4, <2>1, <2>2, RankedTypes DEF PatchRanks, RankingIsOfQuotes, OnlyQuotedAreRanked, WritesFetched, LiveTypes
  <2> QED BY <2>4, <2>5, <2>6, <2>7, <2>8 DEF RankingIsOfQuotes
<1> QED BY <1>1, <1>2, <1>3, <1>4

LEMMA DeathStep == ASSUME LiveInv, WriterDies PROVE LiveInv'
<1> USE DEF LiveInv
<1>1. alone' = FALSE /\ UNCHANGED <<quoted, scored, fetchedEver>>
  BY DEF WriterDies
<1>2. (patch' = Resting /\ round' = round) \/ (round' = Resting /\ patch' = patch)
  BY DEF WriterDies
<1>3. LiveTypes' /\ WritesFetched'
  BY <1>1, <1>2, RestingWriter DEF LiveTypes, WritesFetched, Resting
<1>4. WriterAlone' /\ ScoresAreTheQuotes' /\ OnlyQuotedAreRanked'
  BY <1>1 DEF WriterAlone, ScoresAreTheQuotes, RankingIsOfQuotes, OnlyQuotedAreRanked
<1> QED BY <1>3, <1>4 DEF RankingIsOfQuotes

LEMMA LiveStutter == ASSUME LiveInv, UNCHANGED liveVars PROVE LiveInv'
BY DEF LiveInv, liveVars, LiveTypes, WriterAlone, WritesFetched, Written, Busy, RankingIsOfQuotes, ScoresAreTheQuotes, OnlyQuotedAreRanked

-----------------------------------------------------------------------------
\* The ranking in Redis is one of the quotes beside it, for any stocks and
\* factors: a writer that met no other one leaves scores that are the quotes, and
\* neither the collector nor the patch ranks a stock nobody has a price of
\* (write_quotes, apply_factor_patches).
THEOREM RankingHolds == LiveSpec => []RankingIsOfQuotes
<1>1. LiveInit => LiveInv
  BY LiveStart
<1>2. LiveInv /\ [LiveNext]_liveVars => LiveInv'
  <2> SUFFICES ASSUME LiveInv, [LiveNext]_liveVars PROVE LiveInv'
    OBVIOUS
  <2>1. CASE UNCHANGED liveVars
    BY <2>1, LiveStutter
  <2>2. CASE LiveNext
    BY <2>2, RoundStep, PatchStep, DeathStep DEF LiveNext
  <2> QED BY <2>1, <2>2
<1>3. LiveInv => RankingIsOfQuotes
  BY DEF LiveInv
<1> QED BY <1>1, <1>2, <1>3, PTL DEF LiveSpec

-----------------------------------------------------------------------------
(* ClosingRanks: a move shown did happen, however the fill writes between   *)
(* the queries of a page. The invariant says of each query what of it still *)
(* holds when the next one is made (DatesAdjoin, BarsStay).                 *)

RankCloses == [1..RankDays -> [RankStocks -> Nat]]
CacheRows == [1..RankDays -> [stored : BOOLEAN, stocks : SUBSET RankStocks]]
Readings ==
    [pc : {"idle", "dates", "bars", "prev", "factors", "shown"}, latest : 0..RankDays, prev : 0..RankDays,
     now : SUBSET (RankStocks \X Nat), before : SUBSET (RankStocks \X Nat), factors : SUBSET RankStocks]

RankTypes ==
    /\ day \in 1..RankDays /\ closes \in RankCloses /\ cached \in CacheRows
    /\ reading \in Readings /\ prefetched \in BOOLEAN

\* What is not written yet, and what is never written.
TablesGrow ==
    /\ \A d \in 1..RankDays : d > day => \A s \in RankStocks : closes[d][s] = 0
    /\ \A d \in 1..RankDays : cached[d].stored => cached[d].stocks /= {}
    /\ prefetched => StoredDays /= {}

\* The dates a request goes on with: no day between them has a bar, nor will.
DatesAdjoin ==
    reading.pc \in {"bars", "prev", "factors", "shown"} /\ reading.latest > 0 =>
        /\ reading.latest <= day /\ reading.prev < reading.latest
        /\ \A e \in 1..RankDays : reading.prev < e /\ e < reading.latest => \A s \in RankStocks : closes[e][s] = 0

\* What a request holds of a date is in the table as long as it holds it.
BarsStay ==
    reading.pc \in {"prev", "factors", "shown"} /\ reading.latest > 0 =>
        /\ \A b \in reading.now : b[2] > 0 /\ closes[reading.latest][b[1]] = b[2]
        /\ reading.pc \in {"factors", "shown"} =>
               \A b \in reading.before : reading.prev > 0 /\ b[2] > 0 /\ closes[reading.prev][b[1]] = b[2]

RankInv == RankTypes /\ TablesGrow /\ DatesAdjoin /\ BarsStay /\ FactorsStay

-----------------------------------------------------------------------------
\* Newest: 0 of no day, otherwise a day of the set and none of it is later.
LEMMA NewestDay ==
    ASSUME NEW days, days \subseteq 1..RankDays
    PROVE  /\ Newest(days) \in 0..RankDays
           /\ days = {} => Newest(days) = 0
           /\ days /= {} => Newest(days) \in days /\ Newest(days) > 0
           /\ \A d \in days : d <= Newest(days)
<1>1. CASE days = {}
  BY <1>1, RankAssumption DEF Newest
<1>2. CASE days /= {}
  <2>1. days \subseteq Nat /\ RankDays \in Nat /\ \A d \in days : d <= RankDays
    BY RankAssumption
  <2>2. Max(days) \in days /\ \A d \in days : d <= Max(days)
    BY <1>2, <2>1, MaxIsGreatest
  <2>3. Newest(days) = Max(days)
    BY <1>2 DEF Newest
  <2>4. Newest(days) \in 1..RankDays
    BY <2>2, <2>3
  <2> QED BY <1>2, <2>2, <2>3, <2>4, RankAssumption
<1> QED BY <1>1, <1>2

\* The answer to a query is pairs of a stock and what is stored of it.
LEMMA BarsAreStored ==
    ASSUME closes \in RankCloses, NEW d \in 0..RankDays
    PROVE  /\ BarsOf(d) \in SUBSET (RankStocks \X Nat)
           /\ \A b \in BarsOf(d) : d > 0 /\ b[2] > 0 /\ closes[d][b[1]] = b[2]
<1>1. CASE d = 0
  BY <1>1 DEF BarsOf
<1>2. CASE d > 0
  <2>1. closes[d] \in [RankStocks -> Nat]
    BY <1>2, RankAssumption DEF RankCloses
  <2>2. \A s \in RankStocks : closes[d][s] \in Nat
    BY <2>1
  <2> QED BY <1>2, <2>2 DEF BarsOf
<1> QED BY <1>1, <1>2, RankAssumption

LEMMA RankStarts == RankInit => RankInv
<1> SUFFICES ASSUME RankInit PROVE RankInv
  OBVIOUS
<1>1. RankTypes
  <2>1. day \in 1..RankDays
    BY RankAssumption DEF RankInit
  <2>4. prefetched \in BOOLEAN
    BY DEF RankInit
  <2>2. closes \in RankCloses /\ cached \in CacheRows
    BY DEF RankInit, RankCloses, CacheRows, NoCacheRow
  <2>3. reading \in Readings
    BY RankAssumption DEF RankInit, NoReading, Readings
  <2> QED BY <2>1, <2>2, <2>3, <2>4 DEF RankTypes
<1>2. TablesGrow
  BY DEF RankInit, TablesGrow, NoCacheRow
<1>3. DatesAdjoin /\ BarsStay /\ FactorsStay
  BY DEF RankInit, DatesAdjoin, BarsStay, FactorsStay, NoReading
<1> QED BY <1>1, <1>2, <1>3 DEF RankInv

\* The jobs add to the tables and take nothing away: a bar of today that was
\* not there, factors where there may have been others.
LEMMA JobsAdd ==
    ASSUME RankInv, NextDay \/ PrefetchTushare \/ \E s \in RankStocks : StoreBar(s)
    PROVE  /\ RankTypes' /\ TablesGrow' /\ UNCHANGED <<reading, prefetched>>
           /\ day' \in 1..RankDays /\ day <= day'
           /\ \A d \in 1..RankDays, s \in RankStocks :
                  closes'[d][s] = closes[d][s] \/ (d = day /\ closes[d][s] = 0)
<1> USE RankAssumption
<1>0. RankTypes /\ TablesGrow
  BY DEF RankInv
<1>1. CASE NextDay
  BY <1>0, <1>1 DEF NextDay, RankTypes, TablesGrow, StoredDays
<1>2. CASE PrefetchTushare
  <2>1. PICK answer \in Payloads : cached' = Stores(answer)
    BY <1>2 DEF PrefetchTushare
  <2>2. UNCHANGED <<day, closes, reading, prefetched>>
    BY <1>2 DEF PrefetchTushare
  <2>3. CASE answer = {}
    BY <1>0, <2>1, <2>2, <2>3 DEF Stores, RankTypes, TablesGrow, StoredDays
  <2>4. CASE answer /= {}
    <3>1. cached' = [cached EXCEPT ![day] = CacheRow(answer)]
      BY <2>1, <2>4 DEF Stores
    <3>2. CacheRow(answer) \in [stored : BOOLEAN, stocks : SUBSET RankStocks] /\ CacheRow(answer).stored /\ CacheRow(answer).stocks /= {}
      BY <2>4 DEF CacheRow
    <3>3. cached' \in CacheRows
      BY <1>0, <3>1, <3>2 DEF RankTypes, CacheRows
    <3>4. \A d \in 1..RankDays : cached'[d] = IF d = day THEN CacheRow(answer) ELSE cached[d]
      BY <1>0, <3>1 DEF RankTypes, CacheRows
    <3>5. StoredDays \subseteq StoredDays'
      BY <3>2, <3>4 DEF StoredDays
    <3> QED BY <1>0, <2>2, <3>2, <3>3, <3>4, <3>5 DEF RankTypes, TablesGrow
  <2> QED BY <2>3, <2>4
<1>3. ASSUME NEW s \in RankStocks, StoreBar(s)
      PROVE  /\ RankTypes' /\ TablesGrow' /\ UNCHANGED <<reading, prefetched>>
             /\ day' \in 1..RankDays /\ day <= day'
             /\ \A d \in 1..RankDays, t \in RankStocks :
                    closes'[d][t] = closes[d][t] \/ (d = day /\ closes[d][t] = 0)
  <2>1. PICK p \in ClosePrices : closes' = [closes EXCEPT ![day][s] = p]
    BY <1>3 DEF StoreBar
  <2>2. closes[day][s] = 0 /\ UNCHANGED <<day, cached, reading, prefetched>>
    BY <1>3 DEF StoreBar
  <2>3. closes' \in RankCloses
    BY <1>0, <2>1 DEF RankTypes, RankCloses
  <2>4. \A d \in 1..RankDays, t \in RankStocks :
            closes'[d][t] = IF d = day /\ t = s THEN p ELSE closes[d][t]
    BY <1>0, <2>1 DEF RankTypes, RankCloses
  <2>5. TablesGrow'
    BY <1>0, <2>2, <2>4 DEF TablesGrow, RankTypes, StoredDays
  <2> QED BY <1>0, <2>2, <2>3, <2>4, <2>5 DEF RankTypes
<1> QED BY <1>1, <1>2, <1>3

\* What a request holds stays true while the jobs write.
LEMMA JobsKeepTheRequest ==
    ASSUME RankInv, NextDay \/ PrefetchTushare \/ \E s \in RankStocks : StoreBar(s)
    PROVE  RankInv'
<1> USE RankAssumption
<1>1. /\ RankTypes' /\ TablesGrow' /\ UNCHANGED <<reading, prefetched>>
      /\ day' \in 1..RankDays /\ day <= day'
      /\ \A d \in 1..RankDays, s \in RankStocks :
             closes'[d][s] = closes[d][s] \/ (d = day /\ closes[d][s] = 0)
  BY JobsAdd
<1>2. RankTypes /\ DatesAdjoin /\ BarsStay /\ FactorsStay
  BY DEF RankInv
<1>3. reading.latest \in 0..RankDays /\ reading.prev \in 0..RankDays /\ day \in 1..RankDays
  BY <1>2 DEF RankTypes, Readings
<1>4. DatesAdjoin'
  BY <1>1, <1>2, <1>3 DEF DatesAdjoin
<1>5. \A b \in reading.now \cup reading.before : b[1] \in RankStocks
  BY <1>2 DEF RankTypes, Readings
<1>6. BarsStay'
  <2> SUFFICES ASSUME reading.pc \in {"prev", "factors", "shown"}, reading.latest > 0
               PROVE  /\ \A b \in reading.now : b[2] > 0 /\ closes'[reading.latest][b[1]] = b[2]
                      /\ reading.pc \in {"factors", "shown"} =>
                             \A b \in reading.before : reading.prev > 0 /\ b[2] > 0 /\ closes'[reading.prev][b[1]] = b[2]
    BY <1>1 DEF BarsStay
  <2>1. reading.latest \in 1..RankDays
    BY <1>3
  <2>2. ASSUME NEW b \in reading.now PROVE b[2] > 0 /\ closes'[reading.latest][b[1]] = b[2]
    <3>1. b[2] > 0 /\ closes[reading.latest][b[1]] = b[2]
      BY <1>2 DEF BarsStay
    <3>2. b[1] \in RankStocks
      BY <1>5
    <3>3. closes[reading.latest][b[1]] # 0
      BY <3>1
    <3> QED BY <1>1, <2>1, <3>1, <3>2, <3>3
  <2>3. ASSUME reading.pc \in {"factors", "shown"}, NEW b \in reading.before
        PROVE  reading.prev > 0 /\ b[2] > 0 /\ closes'[reading.prev][b[1]] = b[2]
    <3>1. reading.prev > 0 /\ b[2] > 0 /\ closes[reading.prev][b[1]] = b[2]
      BY <1>2, <2>3 DEF BarsStay
    <3>2. b[1] \in RankStocks /\ reading.prev \in 1..RankDays
      BY <1>3, <1>5, <3>1
    <3>3. closes[reading.prev][b[1]] # 0
      BY <3>1
    <3> QED BY <1>1, <3>1, <3>2, <3>3
  <2> QED BY <2>2, <2>3
<1>7. FactorsStay'
  BY <1>1, <1>2 DEF FactorsStay
<1> QED BY <1>1, <1>4, <1>6, <1>7 DEF RankInv

\* A request that begins holds nothing; it has seen a prefetch if there was one.
LEMMA AskKeeps == ASSUME RankInv, AskRanks PROVE RankInv'
<1>1. reading' = [NoReading EXCEPT !.pc = "dates"] /\ UNCHANGED <<day, closes, cached>>
  BY DEF AskRanks
<1>2. reading' \in Readings /\ reading'.pc = "dates"
  BY <1>1, RankAssumption DEF NoReading, Readings
<1>3. prefetched' \in BOOLEAN /\ (prefetched' => StoredDays' /= {})
  BY <1>1 DEF AskRanks, StoredDays
<1> QED BY <1>1, <1>2, <1>3 DEF RankInv, RankTypes, TablesGrow, DatesAdjoin, BarsStay, FactorsStay

\* The dates read adjoin: the newest with a bar, and the newest of the others.
LEMMA DatesKeep == ASSUME RankInv, ReadDates PROVE RankInv'
<1> DEFINE latest == Newest(BarDates)
           prev == Newest(BarDates \ {latest})
<1>0. RankTypes /\ TablesGrow
  BY DEF RankInv
<1>1. /\ reading' = [reading EXCEPT !.pc = IF latest = 0 THEN "shown" ELSE "bars", !.latest = latest, !.prev = prev]
      /\ UNCHANGED <<day, closes, cached, prefetched>>
  BY DEF ReadDates
<1>2. BarDates \subseteq 1..RankDays
  BY DEF BarDates
<1>3. /\ latest \in 0..RankDays /\ prev \in 0..RankDays
      /\ BarDates = {} => latest = 0
      /\ BarDates /= {} => latest \in BarDates
      /\ \A d \in BarDates : d <= latest
      /\ BarDates \ {latest} = {} => prev = 0
      /\ BarDates \ {latest} /= {} => prev \in BarDates \ {latest}
      /\ \A d \in BarDates \ {latest} : d <= prev
  <2>1. BarDates \ {latest} \subseteq 1..RankDays
    BY <1>2
  <2> HIDE DEF latest
  <2>2. /\ prev \in 0..RankDays
        /\ BarDates \ {latest} = {} => prev = 0
        /\ BarDates \ {latest} /= {} => prev \in BarDates \ {latest}
        /\ \A d \in BarDates \ {latest} : d <= prev
    BY <2>1, NewestDay
  <2>3. /\ latest \in 0..RankDays
        /\ BarDates = {} => latest = 0
        /\ BarDates /= {} => latest \in BarDates
        /\ \A d \in BarDates : d <= latest
    BY <1>2, NewestDay DEF latest
  <2> QED BY <2>2, <2>3
<1> HIDE DEF latest, prev
<1>4. reading' \in Readings /\ reading'.latest = latest /\ reading'.prev = prev
      /\ reading'.pc = IF latest = 0 THEN "shown" ELSE "bars"
  BY <1>0, <1>1, <1>3 DEF RankTypes, Readings
<1>5. ASSUME latest > 0
      PROVE  /\ latest <= day /\ prev < latest
             /\ \A e \in 1..RankDays : prev < e /\ e < latest => \A s \in RankStocks : closes[e][s] = 0
  <2>1. latest \in BarDates /\ latest \in 1..RankDays
    BY <1>2, <1>3, <1>5
  <2>2. latest <= day
    BY <1>0, <2>1 DEF BarDates, TablesGrow, RankTypes
  <2>3. prev < latest
    BY <1>2, <1>3, <2>1
  <2>4. ASSUME NEW e \in 1..RankDays, prev < e, e < latest, NEW s \in RankStocks PROVE closes[e][s] = 0
    <3>1. e \notin BarDates
      BY <1>3, <2>4
    <3>2. closes[e][s] \in Nat
      BY <1>0 DEF RankTypes, RankCloses
    <3> QED BY <3>1, <3>2 DEF BarDates
  <2> QED BY <2>2, <2>3, <2>4
<1>6. RankTypes' /\ TablesGrow'
  BY <1>0, <1>1, <1>4 DEF RankTypes, TablesGrow, StoredDays
<1>7. DatesAdjoin'
  BY <1>1, <1>4, <1>5 DEF DatesAdjoin
<1>8. BarsStay' /\ FactorsStay'
  BY <1>3, <1>4 DEF BarsStay, FactorsStay
<1> QED BY <1>6, <1>7, <1>8 DEF RankInv

\* The two queries for bars and the one for factors.
LEMMA ReadsKeep == ASSUME RankInv, ReadBars \/ ReadPrevCloses \/ ReadFactors PROVE RankInv'
<1>0. RankTypes /\ TablesGrow /\ DatesAdjoin /\ BarsStay
  BY DEF RankInv
<1>1. UNCHANGED <<day, closes, cached, prefetched>>
  BY DEF ReadBars, ReadPrevCloses, ReadFactors
<1>2. TablesGrow'
  BY <1>0, <1>1 DEF TablesGrow, StoredDays
<1>3. closes \in RankCloses /\ reading \in Readings /\ reading.latest \in 0..RankDays /\ reading.prev \in 0..RankDays
  BY <1>0 DEF RankTypes, Readings
<1>4. CASE ReadBars
  <2>1. reading.pc = "bars" /\ reading' = [reading EXCEPT !.pc = "prev", !.now = BarsOf(reading.latest)]
    BY <1>4 DEF ReadBars
  <2>2. /\ BarsOf(reading.latest) \in SUBSET (RankStocks \X Nat)
        /\ \A b \in BarsOf(reading.latest) : b[2] > 0 /\ closes[reading.latest][b[1]] = b[2]
    BY <1>3, BarsAreStored
  <2>3. /\ reading' \in Readings /\ reading'.pc = "prev" /\ reading'.now = BarsOf(reading.latest)
        /\ reading'.latest = reading.latest /\ reading'.prev = reading.prev
    BY <1>3, <2>1, <2>2 DEF Readings
  <2>4. RankTypes' /\ DatesAdjoin' /\ FactorsStay'
    BY <1>0, <1>1, <2>1, <2>3 DEF RankTypes, DatesAdjoin, FactorsStay
  <2>5. BarsStay'
    BY <1>1, <2>2, <2>3 DEF BarsStay
  <2> QED BY <1>2, <2>4, <2>5 DEF RankInv
<1>5. CASE ReadPrevCloses
  <2>1. reading.pc = "prev" /\ reading' = [reading EXCEPT !.pc = "factors", !.before = BarsOf(reading.prev)]
    BY <1>5 DEF ReadPrevCloses
  <2>2. /\ BarsOf(reading.prev) \in SUBSET (RankStocks \X Nat)
        /\ \A b \in BarsOf(reading.prev) : reading.prev > 0 /\ b[2] > 0 /\ closes[reading.prev][b[1]] = b[2]
    BY <1>3, BarsAreStored
  <2>3. /\ reading' \in Readings /\ reading'.pc = "factors" /\ reading'.before = BarsOf(reading.prev)
        /\ reading'.latest = reading.latest /\ reading'.prev = reading.prev /\ reading'.now = reading.now
    BY <1>3, <2>1, <2>2 DEF Readings
  <2>4. RankTypes' /\ DatesAdjoin' /\ FactorsStay'
    BY <1>0, <1>1, <2>1, <2>3 DEF RankTypes, DatesAdjoin, FactorsStay
  <2>5. BarsStay'
    BY <1>0, <1>1, <2>1, <2>2, <2>3 DEF BarsStay
  <2> QED BY <1>2, <2>4, <2>5 DEF RankInv
<1>6. CASE ReadFactors
  <2> DEFINE newest == Newest(StoredDays)
             factors == IF newest = 0 THEN {} ELSE cached[newest].stocks
  <2>1. reading.pc = "factors" /\ reading' = [reading EXCEPT !.pc = "shown", !.factors = factors]
    BY <1>6 DEF ReadFactors
  <2>2. /\ newest \in 0..RankDays
        /\ StoredDays /= {} => newest \in StoredDays /\ newest > 0
    <3>1. StoredDays \subseteq 1..RankDays
      BY DEF StoredDays
    <3> QED BY <3>1, NewestDay
  <2> HIDE DEF newest
  <2>3. factors \in SUBSET RankStocks
    BY <1>0, <2>2 DEF RankTypes, CacheRows
  <2>4. prefetched => factors /= {}
    BY <1>0, <2>2 DEF TablesGrow, StoredDays
  <2> HIDE DEF factors
  <2>5. /\ reading' \in Readings /\ reading'.pc = "shown" /\ reading'.factors = factors
        /\ reading'.latest = reading.latest /\ reading'.prev = reading.prev
        /\ reading'.now = reading.now /\ reading'.before = reading.before
    BY <1>3, <2>1, <2>3 DEF Readings
  <2>6. RankTypes' /\ DatesAdjoin' /\ BarsStay'
    BY <1>0, <1>1, <2>1, <2>5 DEF RankTypes, DatesAdjoin, BarsStay
  <2>7. FactorsStay'
    BY <1>1, <2>4, <2>5 DEF FactorsStay
  <2> QED BY <1>2, <2>6, <2>7 DEF RankInv
<1> QED BY <1>4, <1>5, <1>6

LEMMA RankInductive == RankInv /\ [RankNext]_rankVars => RankInv'
<1> SUFFICES ASSUME RankInv, [RankNext]_rankVars PROVE RankInv'
  OBVIOUS
<1>1. CASE NextDay \/ PrefetchTushare \/ \E s \in RankStocks : StoreBar(s)
  BY <1>1, JobsKeepTheRequest
<1>2. CASE AskRanks
  BY <1>2, AskKeeps
<1>3. CASE ReadDates
  BY <1>3, DatesKeep
<1>4. CASE ReadBars \/ ReadPrevCloses \/ ReadFactors
  BY <1>4, ReadsKeep
<1>5. CASE UNCHANGED rankVars
  BY <1>5 DEF rankVars, RankInv, RankTypes, TablesGrow, StoredDays, DatesAdjoin, BarsStay, FactorsStay
<1> QED BY <1>1, <1>2, <1>3, <1>4, <1>5 DEF RankNext

\* The change a page shows is the one between the two closes it has read, and
\* those are the stock's last close and the one before it.
LEMMA MovesAreReal == RankInv => ShownMoveIsReal
<1> SUFFICES ASSUME RankInv, reading.pc = "shown", reading.latest > 0, NEW s \in RankStocks, ShownChange(s) /= 0
             PROVE  LET q == LastClose(s, reading.latest)
                    IN  q > 0 /\ ShownChange(s) = ((closes[reading.latest][s] - q) * 100) \div q
  BY DEF ShownMoveIsReal
<1> DEFINE now == {b \in reading.now : b[1] = s}
           before == {b \in reading.before : b[1] = s}
           p == (CHOOSE b \in now : TRUE)[2]
           q == (CHOOSE b \in before : TRUE)[2]
<1>0. RankTypes /\ DatesAdjoin /\ BarsStay
  BY DEF RankInv
<1>1. now /= {} /\ before /= {} /\ ShownChange(s) = ((p - q) * 100) \div q
  BY DEF ShownChange
<1>2. p = closes[reading.latest][s]
  <2>1. (CHOOSE b \in now : TRUE) \in now
    BY <1>1
  <2> QED BY <1>0, <2>1 DEF BarsStay
<1>3. reading.prev > 0 /\ q > 0 /\ q = closes[reading.prev][s]
  <2>1. (CHOOSE b \in before : TRUE) \in before
    BY <1>1
  <2> QED BY <1>0, <2>1 DEF BarsStay
<1> HIDE DEF now, before, p, q
<1>4. LastClose(s, reading.latest) = q
  <2> DEFINE days == {e \in 1..(reading.latest - 1) : closes[e][s] > 0}
  <2>1. reading.latest \in 1..RankDays /\ reading.prev \in 1..RankDays /\ reading.prev < reading.latest
    BY <1>0, <1>3 DEF RankTypes, Readings, DatesAdjoin
  <2>2. reading.prev \in days
    BY <1>3, <2>1
  <2>3. \A e \in days : e <= reading.prev
    <3> SUFFICES ASSUME NEW e \in days, e > reading.prev PROVE FALSE
      BY <2>1, RankAssumption
    <3>1. e \in 1..RankDays /\ e < reading.latest /\ closes[e][s] > 0
      BY <2>1, RankAssumption
    <3> QED BY <1>0, <3>1 DEF DatesAdjoin
  <2>4. days \subseteq Nat /\ reading.prev \in Nat
    BY <2>1
  <2> HIDE DEF days
  <2>5. Max(days) \in days /\ \A e \in days : e <= Max(days)
    BY <2>2, <2>3, <2>4, MaxIsGreatest
  <2>6. Max(days) = reading.prev
    <3>1. Max(days) \in Nat /\ Max(days) <= reading.prev /\ reading.prev <= Max(days)
      BY <2>2, <2>3, <2>4, <2>5
    <3> QED BY <3>1, <2>4
  <2> QED BY <1>3, <2>2, <2>6 DEF LastClose, days
<1> QED BY <1>1, <1>2, <1>3, <1>4

\* However the fill and the prefetch write between the four queries of a page,
\* for every number of days, of stocks and of prices: a stock shown as risen or
\* fallen did so by that much, and factors once prefetched are never gone
\* (market rankings from the database).
THEOREM PageHolds == RankSpec => []PageIsReal
<1>1. RankInv => PageIsReal
  BY MovesAreReal DEF PageIsReal, RankInv
<1> QED BY RankStarts, RankInductive, <1>1, PTL DEF RankSpec
=============================================================================
