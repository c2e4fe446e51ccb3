-------------------------- MODULE FavoritesProofs --------------------------
(***************************************************************************)
(* Proofs about Favorites for any number of users, holes and handlers and  *)
(* any limit on groups.  IInv is inductive: each counter follows its rows  *)
(* step by step, and the history names the steps where it does not.        *)
(***************************************************************************)
EXTENDS Favorites, FiniteSetTheorems, TLAPS

LEMMA FiniteSets ==
    /\ IsFiniteSet(GroupIds) /\ Default \in GroupIds
    /\ \A S \in SUBSET GroupIds : IsFiniteSet(S)
    /\ \A S \in SUBSET Holes : IsFiniteSet(S)
    /\ \A S \in SUBSET Deleters : IsFiniteSet(S)
    /\ \A S \in SUBSET (Users \X GroupIds) : IsFiniteSet(S)
<1>1. IsFiniteSet(GroupIds) /\ Default \in GroupIds
  BY GroupsAssumption, FS_Interval DEF GroupIds, Default
<1>2. IsFiniteSet(Users \X GroupIds)
  BY <1>1, FiniteAssumption, FS_Product
<1> QED
  BY <1>1, <1>2, FiniteAssumption, FS_Subset

LEMMA CardinalityInt == \A S : IsFiniteSet(S) => Cardinality(S) \in Nat
BY FS_CardinalityType

\* The sets that are counted are finite.
LEMMA CountedSets ==
    ASSUME TypeOK, NEW u \in Users, NEW g \in GroupIds, NEW h
    PROVE  /\ IsFiniteSet(row[u][g]) /\ Cardinality(row[u][g]) \in Nat
           /\ IsFiniteSet(LiveGroups(u)) /\ Cardinality(LiveGroups(u)) \in Nat
           /\ IsFiniteSet(Uncounting(u)) /\ Cardinality(Uncounting(u)) \in Nat
           /\ IsFiniteSet(Collections(h)) /\ Cardinality(Collections(h)) \in Nat
<1>1. row[u][g] \in SUBSET Holes
  BY DEF TypeOK
<1>2. LiveGroups(u) \in SUBSET GroupIds
  BY DEF LiveGroups
<1>3. Uncounting(u) \in SUBSET Deleters
  BY DEF Uncounting
<1>4. Collections(h) \in SUBSET (Users \X GroupIds)
  BY DEF Collections
<1> QED
  BY <1>1, <1>2, <1>3, <1>4, FiniteSets, CardinalityInt

\* Records of the tables.
LEMMA Rows ==
    ASSUME TypeOK, NEW u \in Users, NEW g \in GroupIds
    PROVE  /\ group[u][g] \in Group
           /\ group[u][g].state \in {"absent", "live", "deleted"}
           /\ group[u][g].count \in Int
           /\ row[u][g] \subseteq Holes
BY DEF TypeOK, Group

\* Tables are changed one entry at a time.
SetGroup(gs, u, g, c) == [gs EXCEPT ![u][g] = c]

LEMMA SetGroupType ==
    ASSUME NEW gs \in [Users -> [GroupIds -> Group]], NEW u \in Users,
           NEW g \in GroupIds, NEW c \in Group
    PROVE  /\ SetGroup(gs, u, g, c) \in [Users -> [GroupIds -> Group]]
           /\ SetGroup(gs, u, g, c)[u][g] = c
           /\ \A v \in Users, k \in GroupIds :
                ~ (v = u /\ k = g) => SetGroup(gs, u, g, c)[v][k] = gs[v][k]
BY DEF SetGroup

SetRow(rs, u, g, x) == [rs EXCEPT ![u][g] = x]

LEMMA SetRowType ==
    ASSUME NEW rs \in [Users -> [GroupIds -> SUBSET Holes]], NEW u \in Users,
           NEW g \in GroupIds, NEW x \in SUBSET Holes
    PROVE  /\ SetRow(rs, u, g, x) \in [Users -> [GroupIds -> SUBSET Holes]]
           /\ SetRow(rs, u, g, x)[u][g] = x
           /\ \A v \in Users, k \in GroupIds :
                ~ (v = u /\ k = g) => SetRow(rs, u, g, x)[v][k] = rs[v][k]
BY DEF SetRow

\* A group with another count.
WithCount(c, n) == [c EXCEPT !.count = n]

LEMMA WithCountType ==
    ASSUME NEW c \in Group, NEW n \in Int
    PROVE  /\ WithCount(c, n) \in Group
           /\ WithCount(c, n).state = c.state
           /\ WithCount(c, n).count = n
BY DEF WithCount, Group

\* What counting does to the groups.
Recounted(gs, u, g, n) == [gs EXCEPT ![u][g].count = n]

LEMMA RecountedType ==
    ASSUME NEW gs \in [Users -> [GroupIds -> Group]], NEW u \in Users,
           NEW g \in GroupIds, NEW n \in Int
    PROVE  /\ Recounted(gs, u, g, n) \in [Users -> [GroupIds -> Group]]
           /\ Recounted(gs, u, g, n)[u][g].count = n
           /\ \A v \in Users, k \in GroupIds :
                /\ Recounted(gs, u, g, n)[v][k].state = gs[v][k].state
                /\ ~ (v = u /\ k = g) =>
                     Recounted(gs, u, g, n)[v][k].count = gs[v][k].count
<1> DEFINE c == WithCount(gs[u][g], n)
<1>1. gs[u][g] \in Group
  OBVIOUS
<1>2. c \in Group /\ c.state = gs[u][g].state /\ c.count = n
  BY <1>1, WithCountType
<1>3. Recounted(gs, u, g, n) = SetGroup(gs, u, g, c)
  BY DEF Recounted, SetGroup, WithCount
<1> HIDE DEF c
<1>4. /\ SetGroup(gs, u, g, c) \in [Users -> [GroupIds -> Group]]
      /\ SetGroup(gs, u, g, c)[u][g] = c
      /\ \A v \in Users, k \in GroupIds :
           ~ (v = u /\ k = g) => SetGroup(gs, u, g, c)[v][k] = gs[v][k]
  BY <1>2, SetGroupType
<1> QED
  BY <1>2, <1>3, <1>4

LEMMA InitIInv == Init => IInv
<1> SUFFICES ASSUME Init PROVE IInv
  OBVIOUS
<1> USE DEF Init
<1>1. PICK old \in SUBSET Users :
        /\ group = [u \in Users |-> [g \in GroupIds |->
                      [state |-> IF u \in old /\ g = Default THEN "live" ELSE "absent",
                       count |-> 0]]]
        /\ groupCount = [u \in Users |-> IF u \in old THEN 1 ELSE 0]
  OBVIOUS
<1>2. \A u \in Users, g \in GroupIds :
        /\ row[u][g] = {}
        /\ group[u][g].count = 0
        /\ group[u][g].state = IF u \in old /\ g = Default THEN "live" ELSE "absent"
  BY <1>1
<1>3. TypeOK
  <2>1. group \in [Users -> [GroupIds -> Group]]
    BY <1>1 DEF Group
  <2>2. groupCount \in [Users -> Int]
    BY <1>1
  <2>3. New \in Request /\ NewDeletion \in Deletion
    BY FiniteSets DEF New, Request, NewDeletion, Deletion
  <2>4. req \in [Requests -> Request] /\ del \in [Deleters -> Deletion]
    BY <2>3
  <2> QED
    BY <2>1, <2>2, <2>4 DEF TypeOK
<1>4. LocalsInv
  BY DEF LocalsInv, RequestInv, DeletionInv, New, NewDeletion
<1>5. AbsentInv /\ RowsReachable
  BY <1>2 DEF AbsentInv, RowsReachable
<1>6. GroupsExact
  BY <1>2, FS_EmptySet DEF GroupsExact
<1>7. HolesExact
  <2>1. \A h \in Holes : Collections(h) = {}
    BY <1>2 DEF Collections
  <2> QED
    BY <2>1, FS_EmptySet DEF HolesExact
<1>8. UsersExact
  <2> SUFFICES ASSUME NEW u \in Users
               PROVE  groupCount[u] = Cardinality(LiveGroups(u)) +
                                        Cardinality(Uncounting(u))
    BY DEF UsersExact
  <2>1. Uncounting(u) = {}
    BY DEF Uncounting, NewDeletion
  <2>2. LiveGroups(u) = IF u \in old THEN {Default} ELSE {}
    BY <1>2, FiniteSets DEF LiveGroups, Live
  <2>3. Cardinality(Uncounting(u)) = 0
    BY <2>1, FS_EmptySet
  <2>4. Cardinality(LiveGroups(u)) = IF u \in old THEN 1 ELSE 0
    BY <2>2, FS_EmptySet, FS_Singleton
  <2>5. groupCount[u] = IF u \in old THEN 1 ELSE 0
    BY <1>1
  <2> QED
    BY <2>3, <2>4, <2>5
<1> QED
  BY <1>3, <1>4, <1>5, <1>6, <1>7, <1>8 DEF IInv

-----------------------------------------------------------------------------
(* Checks *)

\* A request that only learns or forgets something leaves the invariant alone.
LEMMA RequestStep ==
    ASSUME IInv, NEW r \in Requests, NEW l \in Request, RequestInv(l),
           req' = [req EXCEPT ![r] = l],
           UNCHANGED <<row, group, groupCount, hole, del, history>>
    PROVE  IInv'
<1> USE DEF IInv, history
<1>1. TypeOK'
  <2>1. req' \in [Requests -> Request]
    BY DEF TypeOK
  <2> QED
    BY <2>1 DEF TypeOK
<1>2. LocalsInv'
  <2>1. \A q \in Requests : req'[q] = IF q = r THEN l ELSE req[q]
    BY DEF TypeOK
  <2> QED
    BY <2>1 DEF LocalsInv, RequestInv, DeletionInv
<1>3. AbsentInv' /\ GroupsExact' /\ RowsReachable'
  BY DEF AbsentInv, GroupsExact, RowsReachable, Live
<1>4. HolesExact' /\ UsersExact'
  BY DEF HolesExact, UsersExact, Collections, LiveGroups, Live, Uncounting
<1> QED
  BY <1>1, <1>2, <1>3, <1>4

LEMMA NewIdType == \A u : NewId(u) \subseteq GroupIds
BY GroupsAssumption DEF NewId, NextId, GroupIds

LEMMA ChecksStep ==
    ASSUME IInv, NEW r \in Requests, NEW u \in Users,
           \/ CheckGroup(r, u) \/ CheckDefault(r, u)
           \/ \E g \in GroupIds :
                \/ \E h \in Holes : CheckAdd(r, u, g, h) \/ CheckDelete(r, u, g, h)
                \/ \E S \in SUBSET Holes :
                     \/ CheckModify(r, u, g, S)
                     \/ \E t \in GroupIds : CheckMove(r, u, g, t, S)
    PROVE  IInv'
<1>1. CASE CheckGroup(r, u)
  <2>1. PICK g \in NewId(u) :
          req' = [req EXCEPT ![r] =
                   [New EXCEPT !.step = "create", !.user = u, !.group = g,
                      !.default = group[u][Default].state = "absent"]]
    BY <1>1 DEF CheckGroup
  <2> DEFINE l == [New EXCEPT !.step = "create", !.user = u, !.group = g,
                      !.default = group[u][Default].state = "absent"]
  <2>2. g \in GroupIds
    BY NewIdType
  <2>3. l \in Request /\ RequestInv(l)
    BY <2>2, FiniteSets DEF New, Request, RequestInv
  <2> QED
    BY <1>1, <2>1, <2>3, RequestStep DEF CheckGroup
<1>2. CASE CheckDefault(r, u)
  <2> DEFINE l == [New EXCEPT !.step = "default", !.user = u, !.default = TRUE]
  <2>1. l \in Request /\ RequestInv(l)
    BY FiniteSets DEF New, Request, RequestInv
  <2> QED
    BY <1>2, <2>1, RequestStep DEF CheckDefault
<1>3. ASSUME NEW g \in GroupIds, NEW h \in Holes, CheckAdd(r, u, g, h)
      PROVE  IInv'
  <2> DEFINE l == [New EXCEPT !.step = "add", !.user = u, !.group = g,
                              !.holes = {h}]
  <2>1. l \in Request /\ RequestInv(l)
    BY <1>3, FiniteSets DEF CheckAdd, Live, New, Request, RequestInv
  <2> QED
    BY <1>3, <2>1, RequestStep DEF CheckAdd
<1>4. ASSUME NEW g \in GroupIds, NEW h \in Holes, CheckDelete(r, u, g, h)
      PROVE  IInv'
  <2> DEFINE l == [New EXCEPT !.step = "delete", !.user = u, !.group = g,
                              !.holes = {h}]
  <2>1. l \in Request /\ RequestInv(l)
    BY <1>4, FiniteSets DEF CheckDelete, Live, New, Request, RequestInv
  <2> QED
    BY <1>4, <2>1, RequestStep DEF CheckDelete
<1>5. ASSUME NEW g \in GroupIds, NEW S \in SUBSET Holes, CheckModify(r, u, g, S)
      PROVE  IInv'
  <2> DEFINE l == [New EXCEPT !.step = "modify", !.user = u, !.group = g,
                              !.holes = S]
  <2>1. l \in Request /\ RequestInv(l)
    BY <1>5, FiniteSets DEF CheckModify, Live, New, Request, RequestInv
  <2> QED
    BY <1>5, <2>1, RequestStep DEF CheckModify
<1>6. ASSUME NEW g \in GroupIds, NEW S \in SUBSET Holes, NEW t \in GroupIds,
             CheckMove(r, u, g, t, S)
      PROVE  IInv'
  <2> DEFINE l == [New EXCEPT !.step = "move", !.user = u, !.group = g,
                              !.to = t, !.holes = S]
  <2>1. l \in Request /\ RequestInv(l)
    BY <1>6, FiniteSets DEF CheckMove, Live, New, Request, RequestInv
  <2> QED
    BY <1>6, <2>1, RequestStep DEF CheckMove
<1> QED
  BY <1>1, <1>2, <1>3, <1>4, <1>5, <1>6

LEMMA Answered == [New EXCEPT !.step = "done"] \in Request
BY FiniteSets DEF New, Request

LEMMA FailStep ==
    ASSUME IInv, NEW r \in Requests, Fail(r)
    PROVE  IInv'
<1>1. RequestInv([New EXCEPT !.step = "done"])
  BY DEF New, RequestInv
<1> QED
  BY <1>1, Answered, RequestStep DEF Fail, Answer

-----------------------------------------------------------------------------
(* What most steps have in common *)

\* Handlers that do not move keep their part of the invariant as long as no
\* group disappears and none that is deleted comes back.
LEMMA OtherHandlers ==
    ASSUME TypeOK, LocalsInv,
           \A u \in Users, g \in GroupIds :
              /\ group[u][g].state # "absent" => group'[u][g].state # "absent"
              /\ group[u][g].state = "deleted" => group'[u][g].state = "deleted"
    PROVE  /\ \A r \in Requests : req'[r] = req[r] => RequestInv(req[r])'
           /\ \A d \in Deleters : del'[d] = del[d] => DeletionInv(del[d])'
<1>1. \A r \in Requests : req[r].group \in GroupIds /\ req[r].to \in GroupIds
  BY DEF TypeOK, Request
<1>2. \A d \in Deleters : del[d].group \in GroupIds
  BY DEF TypeOK, Deletion
<1>3. ASSUME NEW r \in Requests, req'[r] = req[r]
      PROVE  RequestInv(req[r])'
  BY <1>1, <1>3 DEF LocalsInv, RequestInv
<1>4. ASSUME NEW d \in Deleters, del'[d] = del[d]
      PROVE  DeletionInv(del[d])'
  BY <1>2, <1>4 DEF LocalsInv, DeletionInv
<1> QED
  BY <1>3, <1>4

\* The locals after the last step of a request.
LEMMA AnswerLocals ==
    ASSUME TypeOK, LocalsInv, NEW r \in Requests, Answer(r), UNCHANGED del,
           \A u \in Users, g \in GroupIds :
              /\ group[u][g].state # "absent" => group'[u][g].state # "absent"
              /\ group[u][g].state = "deleted" => group'[u][g].state = "deleted"
    PROVE  req' \in [Requests -> Request] /\ LocalsInv'
<1> DEFINE l == [New EXCEPT !.step = "done"]
<1>1. l \in Request /\ l.step = "done"
  BY Answered DEF New
<1> HIDE DEF l
<1>2. req' = [req EXCEPT ![r] = l]
  BY DEF Answer, l
<1>3. req' \in [Requests -> Request]
  BY <1>1, <1>2 DEF TypeOK
<1>4. \A q \in Requests : q # r => req'[q] = req[q]
  BY <1>2 DEF TypeOK
<1>5. RequestInv(req[r])'
  <2>1. req'[r] = l
    BY <1>2 DEF TypeOK
  <2> QED
    BY <1>1, <2>1 DEF RequestInv
<1>6. \A q \in Requests : RequestInv(req[q])'
  BY <1>4, <1>5, OtherHandlers
<1>7. \A d \in Deleters : DeletionInv(del[d])'
  BY OtherHandlers
<1> QED
  BY <1>3, <1>6, <1>7 DEF LocalsInv

-----------------------------------------------------------------------------
(* Favourites *)

\* A favourite that is new is counted once, one that is there makes its group and
\* hole drift.
LEMMA AddStep ==
    ASSUME IInv, NEW r \in Requests, Add(r)
    PROVE  IInv'
<1> USE DEF IInv
<1> DEFINE u == req[r].user
           g == req[r].group
<1>1. req[r] \in Request /\ RequestInv(req[r]) /\ req[r].step = "add"
  BY DEF Add, TypeOK, LocalsInv
<1>2. u \in Users /\ g \in GroupIds /\ group[u][g].state # "absent"
  BY <1>1 DEF Request, RequestInv
<1>3. PICK h \in Holes : req[r].holes = {h}
  BY <1>1 DEF RequestInv
<1> HIDE DEF u, g
<1>4. /\ row' = [row EXCEPT ![u][g] = @ \cup {h}]
      /\ group' = GroupCounted(u, g, 1)
      /\ hole' = HoleCounted(h, 1)
      /\ driftedHole' = IF h \in row[u][g] THEN driftedHole \cup {h}
                        ELSE driftedHole
      /\ driftedGroup' = IF h \in row[u][g] THEN driftedGroup \cup {<<u, g>>}
                         ELSE driftedGroup
      /\ late' = Written(u, g)
      /\ Answer(r)
      /\ UNCHANGED <<groupCount, del, driftedUser>>
  BY <1>3 DEF Add, u, g
<1>5. /\ row'[u][g] = row[u][g] \cup {h}
      /\ \A v \in Users, k \in GroupIds :
           ~ (v = u /\ k = g) => row'[v][k] = row[v][k]
  BY <1>2, <1>4 DEF TypeOK
<1>6. \A v \in Users, k \in GroupIds :
        /\ group'[v][k].state = group[v][k].state
        /\ group'[v][k].count = IF v = u /\ k = g THEN group[v][k].count + 1
                                ELSE group[v][k].count
  BY <1>2, <1>4 DEF TypeOK, Group, GroupCounted
<1>7. \A k \in Holes :
        /\ hole'[k].exists = hole[k].exists
        /\ hole'[k].count = IF k = h /\ hole[k].exists THEN hole[k].count + 1
                            ELSE hole[k].count
  BY <1>4 DEF TypeOK, HoleCounted
<1>8. req' \in [Requests -> Request] /\ LocalsInv'
  BY <1>4, <1>6, AnswerLocals
<1>9. TypeOK'
  <2>1. row' \in [Users -> [GroupIds -> SUBSET Holes]]
    BY <1>4 DEF TypeOK
  <2>2. group' \in [Users -> [GroupIds -> Group]]
    <3> DEFINE n == group[u][g].count + 1
    <3>1. n \in Int
      BY <1>2, Rows
    <3>2. group' = Recounted(group, u, g, n)
      BY <1>4 DEF GroupCounted, Recounted
    <3> HIDE DEF n
    <3> QED
      BY <1>2, <3>1, <3>2, RecountedType DEF TypeOK
  <2>3. hole' \in [Holes -> [exists : BOOLEAN, count : Int]]
    BY <1>4 DEF TypeOK, HoleCounted
  <2>4. /\ driftedGroup' \subseteq Users \X GroupIds
        /\ driftedHole' \subseteq Holes
        /\ late' \subseteq Users \X GroupIds
    BY <1>2, <1>4 DEF TypeOK, Written
  <2> QED
    BY <1>4, <1>8, <2>1, <2>2, <2>3, <2>4 DEF TypeOK
<1>10. AbsentInv'
  BY <1>2, <1>5, <1>6 DEF AbsentInv
<1>11. GroupsExact'
  <2> SUFFICES ASSUME NEW v \in Users, NEW k \in GroupIds, Live(v, k)',
                      <<v, k>> \notin driftedGroup'
               PROVE  group'[v][k].count = Cardinality(row'[v][k])
    BY DEF GroupsExact
  <2>1. Live(v, k) /\ <<v, k>> \notin driftedGroup
    BY <1>4, <1>6 DEF Live
  <2>2. group[v][k].count = Cardinality(row[v][k])
    BY <2>1 DEF GroupsExact
  <2>3. CASE v = u /\ k = g
    <3>1. h \notin row[v][k]
      BY <1>4, <2>3
    <3>2. Cardinality(row[v][k] \cup {h}) = Cardinality(row[v][k]) + 1
      BY <3>1, CountedSets, FS_AddElement
    <3> QED
      BY <1>5, <1>6, <2>2, <2>3, <3>2
  <2>4. CASE ~ (v = u /\ k = g)
    BY <1>5, <1>6, <2>2, <2>4
  <2> QED
    BY <2>3, <2>4
<1>12. HolesExact'
  <2> SUFFICES ASSUME NEW k \in Holes, hole'[k].exists, k \notin driftedHole'
               PROVE  hole'[k].count = Cardinality(Collections(k)')
    BY DEF HolesExact
  <2>1. hole[k].exists /\ hole[k].count = Cardinality(Collections(k))
    BY <1>4, <1>7 DEF HolesExact
  <2>2. CASE k = h
    <3>1. h \notin row[u][g]
      BY <1>4, <2>2
    <3>2. Collections(k)' = Collections(k) \cup {<<u, g>>}
      BY <1>2, <1>5, <2>2 DEF Collections
    <3>3. <<u, g>> \notin Collections(k)
      BY <2>2, <3>1 DEF Collections
    <3>4. Cardinality(Collections(k) \cup {<<u, g>>}) = Cardinality(Collections(k)) + 1
      BY <1>2, <3>3, CountedSets, FS_AddElement
    <3> QED
      BY <1>7, <2>1, <2>2, <3>2, <3>4
  <2>3. CASE k # h
    <3>1. Collections(k)' = Collections(k)
      BY <1>5, <2>3 DEF Collections
    <3> QED
      BY <1>7, <2>1, <2>3, <3>1
  <2> QED
    BY <2>2, <2>3
<1>13. UsersExact'
  BY <1>4, <1>6 DEF UsersExact, LiveGroups, Live, Uncounting
<1>14. RowsReachable'
  BY <1>2, <1>4, <1>5, <1>6 DEF RowsReachable, Live, Written
<1> QED
  BY <1>8, <1>9, <1>10, <1>11, <1>12, <1>13, <1>14

\* A favourite that is still there is uncounted once.
LEMMA DeleteStep ==
    ASSUME IInv, NEW r \in Requests, Delete(r)
    PROVE  IInv'
<1> USE DEF IInv
<1> DEFINE u == req[r].user
           g == req[r].group
<1>1. req[r] \in Request /\ RequestInv(req[r]) /\ req[r].step = "delete"
  BY DEF Delete, TypeOK, LocalsInv
<1>2. u \in Users /\ g \in GroupIds /\ group[u][g].state # "absent"
  BY <1>1 DEF Request, RequestInv
<1>3. PICK h \in Holes : req[r].holes = {h}
  BY <1>1 DEF RequestInv
<1> HIDE DEF u, g
<1>4. /\ row' = [row EXCEPT ![u][g] = @ \ {h}]
      /\ group' = GroupCounted(u, g, -1)
      /\ hole' = HoleCounted(h, -1)
      /\ driftedHole' = IF h \notin row[u][g] THEN driftedHole \cup {h}
                        ELSE driftedHole
      /\ driftedGroup' = IF h \notin row[u][g] THEN driftedGroup \cup {<<u, g>>}
                         ELSE driftedGroup
      /\ Answer(r)
      /\ UNCHANGED <<groupCount, del, driftedUser, late>>
  BY <1>3 DEF Delete, u, g
<1>5. /\ row'[u][g] = row[u][g] \ {h}
      /\ \A v \in Users, k \in GroupIds :
           ~ (v = u /\ k = g) => row'[v][k] = row[v][k]
  BY <1>2, <1>4 DEF TypeOK
<1>6. \A v \in Users, k \in GroupIds :
        /\ group'[v][k].state = group[v][k].state
        /\ group'[v][k].count = IF v = u /\ k = g THEN group[v][k].count - 1
                                ELSE group[v][k].count
  BY <1>2, <1>4 DEF TypeOK, Group, GroupCounted
<1>7. \A k \in Holes :
        /\ hole'[k].exists = hole[k].exists
        /\ hole'[k].count = IF k = h /\ hole[k].exists THEN hole[k].count - 1
                            ELSE hole[k].count
  BY <1>4 DEF TypeOK, HoleCounted
<1>8. req' \in [Requests -> Request] /\ LocalsInv'
  BY <1>4, <1>6, AnswerLocals
<1>9. TypeOK'
  <2>1. row' \in [Users -> [GroupIds -> SUBSET Holes]]
    BY <1>4 DEF TypeOK
  <2>2. group' \in [Users -> [GroupIds -> Group]]
    <3> DEFINE n == group[u][g].count + (-1)
    <3>1. n \in Int
      BY <1>2, Rows
    <3>2. group' = Recounted(group, u, g, n)
      BY <1>4 DEF GroupCounted, Recounted
    <3> HIDE DEF n
    <3> QED
      BY <1>2, <3>1, <3>2, RecountedType DEF TypeOK
  <2>3. hole' \in [Holes -> [exists : BOOLEAN, count : Int]]
    BY <1>4 DEF TypeOK, HoleCounted
  <2>4. /\ driftedGroup' \subseteq Users \X GroupIds
        /\ driftedHole' \subseteq Holes
    BY <1>2, <1>4 DEF TypeOK
  <2> QED
    BY <1>4, <1>8, <2>1, <2>2, <2>3, <2>4 DEF TypeOK
<1>10. AbsentInv'
  BY <1>2, <1>5, <1>6 DEF AbsentInv
<1>11. GroupsExact'
  <2> SUFFICES ASSUME NEW v \in Users, NEW k \in GroupIds, Live(v, k)',
                      <<v, k>> \notin driftedGroup'
               PROVE  group'[v][k].count = Cardinality(row'[v][k])
    BY DEF GroupsExact
  <2>1. Live(v, k) /\ <<v, k>> \notin driftedGroup
    BY <1>4, <1>6 DEF Live
  <2>2. group[v][k].count = Cardinality(row[v][k])
    BY <2>1 DEF GroupsExact
  <2>3. CASE v = u /\ k = g
    <3>1. h \in row[v][k]
      BY <1>4, <2>3
    <3>2. Cardinality(row[v][k] \ {h}) = Cardinality(row[v][k]) - 1
      BY <3>1, CountedSets, FS_RemoveElement
    <3> QED
      BY <1>5, <1>6, <2>2, <2>3, <3>2
  <2>4. CASE ~ (v = u /\ k = g)
    BY <1>5, <1>6, <2>2, <2>4
  <2> QED
    BY <2>3, <2>4
<1>12. HolesExact'
  <2> SUFFICES ASSUME NEW k \in Holes, hole'[k].exists, k \notin driftedHole'
               PROVE  hole'[k].count = Cardinality(Collections(k)')
    BY DEF HolesExact
  <2>1. hole[k].exists /\ hole[k].count = Cardinality(Collections(k))
    BY <1>4, <1>7 DEF HolesExact
  <2>2. CASE k = h
    <3>1. h \in row[u][g]
      BY <1>4, <2>2
    <3>2. Collections(k)' = Collections(k) \ {<<u, g>>}
      BY <1>2, <1>5, <2>2 DEF Collections
    <3>3. <<u, g>> \in Collections(k)
      BY <1>2, <2>2, <3>1 DEF Collections
    <3>4. Cardinality(Collections(k) \ {<<u, g>>}) = Cardinality(Collections(k)) - 1
      BY <1>2, <3>3, CountedSets, FS_RemoveElement
    <3> QED
      BY <1>7, <2>1, <2>2, <3>2, <3>4
  <2>3. CASE k # h
    <3>1. Collections(k)' = Collections(k)
      BY <1>5, <2>3 DEF Collections
    <3> QED
      BY <1>7, <2>1, <2>3, <3>1
  <2> QED
    BY <2>2, <2>3
<1>13. UsersExact'
  BY <1>4, <1>6 DEF UsersExact, LiveGroups, Live, Uncounting
<1>14. RowsReachable'
  BY <1>2, <1>4, <1>5, <1>6 DEF RowsReachable, Live
<1> QED
  BY <1>8, <1>9, <1>10, <1>11, <1>12, <1>13, <1>14

\* The list replaces the rows of its group, whose count is exact again.
LEMMA ModifyStep ==
    ASSUME IInv, NEW r \in Requests, Modify(r)
    PROVE  IInv'
<1> USE DEF IInv
<1> DEFINE u == req[r].user
           g == req[r].group
           S == req[r].holes
<1>1. req[r] \in Request /\ RequestInv(req[r]) /\ req[r].step = "modify"
  BY DEF Modify, TypeOK, LocalsInv
<1>2. /\ u \in Users /\ g \in GroupIds /\ group[u][g].state # "absent"
      /\ S \subseteq Holes /\ IsFiniteSet(S) /\ Cardinality(S) \in Nat
  BY <1>1, FiniteSets, CardinalityInt DEF Request, RequestInv
<1> HIDE DEF u, g, S
<1>4. /\ row' = [row EXCEPT ![u][g] = S]
      /\ group' = [group EXCEPT ![u][g].count = Cardinality(S)]
      /\ driftedGroup' = driftedGroup \ {<<u, g>>}
      /\ driftedHole' = driftedHole \cup (row[u][g] \ S) \cup (S \ row[u][g])
      /\ late' = Written(u, g)
      /\ Answer(r)
      /\ UNCHANGED <<groupCount, hole, del, driftedUser>>
  BY DEF Modify, u, g, S
<1>5. /\ row'[u][g] = S
      /\ \A v \in Users, k \in GroupIds :
           ~ (v = u /\ k = g) => row'[v][k] = row[v][k]
  BY <1>2, <1>4 DEF TypeOK
<1>6. \A v \in Users, k \in GroupIds :
        /\ group'[v][k].state = group[v][k].state
        /\ group'[v][k].count = IF v = u /\ k = g THEN Cardinality(S)
                                ELSE group[v][k].count
  BY <1>2, <1>4 DEF TypeOK, Group
<1>8. req' \in [Requests -> Request] /\ LocalsInv'
  BY <1>4, <1>6, AnswerLocals
<1>9. TypeOK'
  <2>1. row' \in [Users -> [GroupIds -> SUBSET Holes]]
    BY <1>2, <1>4 DEF TypeOK
  <2>2. group' \in [Users -> [GroupIds -> Group]]
    <3>1. group' = Recounted(group, u, g, Cardinality(S))
      BY <1>4 DEF Recounted
    <3> QED
      BY <1>2, <3>1, RecountedType DEF TypeOK
  <2>3. /\ driftedGroup' \subseteq Users \X GroupIds
        /\ driftedHole' \subseteq Holes
        /\ late' \subseteq Users \X GroupIds
    BY <1>2, <1>4, Rows DEF TypeOK, Written
  <2> QED
    BY <1>4, <1>8, <2>1, <2>2, <2>3 DEF TypeOK
<1>10. AbsentInv'
  BY <1>2, <1>5, <1>6 DEF AbsentInv
<1>11. GroupsExact'
  <2> SUFFICES ASSUME NEW v \in Users, NEW k \in GroupIds, Live(v, k)',
                      <<v, k>> \notin driftedGroup'
               PROVE  group'[v][k].count = Cardinality(row'[v][k])
    BY DEF GroupsExact
  <2>1. CASE v = u /\ k = g
    BY <1>5, <1>6, <2>1
  <2>2. CASE ~ (v = u /\ k = g)
    <3>1. Live(v, k) /\ <<v, k>> \notin driftedGroup
      BY <1>4, <1>6, <2>2 DEF Live
    <3>2. group[v][k].count = Cardinality(row[v][k])
      BY <3>1 DEF GroupsExact
    <3> QED
      BY <1>5, <1>6, <2>2, <3>2
  <2> QED
    BY <2>1, <2>2
<1>12. HolesExact'
  <2> SUFFICES ASSUME NEW k \in Holes, hole'[k].exists, k \notin driftedHole'
               PROVE  hole'[k].count = Cardinality(Collections(k)')
    BY DEF HolesExact
  <2>1. k \notin driftedHole /\ (k \in S <=> k \in row[u][g])
    BY <1>4
  <2>2. Collections(k)' = Collections(k)
    BY <1>5, <2>1 DEF Collections
  <2> QED
    BY <1>4, <2>1, <2>2 DEF HolesExact
<1>13. UsersExact'
  BY <1>4, <1>6 DEF UsersExact, LiveGroups, Live, Uncounting
<1>14. RowsReachable'
  BY <1>2, <1>4, <1>5, <1>6 DEF RowsReachable, Live, Written
<1> QED
  BY <1>8, <1>9, <1>10, <1>11, <1>12, <1>13, <1>14

\* What moving does to the rows ...
MoveRows(u, g, t, S) ==
    row' = [[row EXCEPT ![u][g] = @ \ S] EXCEPT ![u][t] = @ \cup S]

LEMMA MovedRows ==
    ASSUME TypeOK, NEW u \in Users, NEW g \in GroupIds, NEW t \in GroupIds, g # t,
           NEW S \in SUBSET Holes, MoveRows(u, g, t, S)
    PROVE  /\ row' \in [Users -> [GroupIds -> SUBSET Holes]]
           /\ row'[u][g] = row[u][g] \ S
           /\ row'[u][t] = row[u][t] \cup S
           /\ \A v \in Users, k \in GroupIds :
                ~ (v = u /\ k \in {g, t}) => row'[v][k] = row[v][k]
<1> DEFINE x == row[u][g] \ S
           y == row[u][t] \cup S
           mid == SetRow(row, u, g, x)
           next == SetRow(mid, u, t, y)
<1>1. /\ row \in [Users -> [GroupIds -> SUBSET Holes]]
      /\ x \in SUBSET Holes /\ y \in SUBSET Holes
  BY DEF TypeOK
<1>2. row' = SetRow(mid, u, t, mid[u][t] \cup S)
  BY DEF SetRow, MoveRows
<1> HIDE DEF x
<1>3. /\ mid \in [Users -> [GroupIds -> SUBSET Holes]]
      /\ mid[u][g] = x
      /\ \A v \in Users, k \in GroupIds :
           ~ (v = u /\ k = g) => mid[v][k] = row[v][k]
  BY <1>1, SetRowType
<1> HIDE DEF mid
<1>4. row' = next
  BY <1>2, <1>3
<1> HIDE DEF y
<1>5. /\ next \in [Users -> [GroupIds -> SUBSET Holes]]
      /\ next[u][t] = y
      /\ \A v \in Users, k \in GroupIds :
           ~ (v = u /\ k = t) => next[v][k] = mid[v][k]
  BY <1>1, <1>3, SetRowType
<1> HIDE DEF next
<1>6. next[u][g] = x
  BY <1>3, <1>5
<1>7. \A v \in Users, k \in GroupIds :
        ~ (v = u /\ k \in {g, t}) => next[v][k] = row[v][k]
  BY <1>3, <1>5
<1> QED
  BY <1>4, <1>5, <1>6, <1>7 DEF x, y

\* ... and to the counts.
LEMMA MovedCounts ==
    ASSUME TypeOK, NEW u \in Users, NEW g \in GroupIds, NEW t \in GroupIds, g # t,
           NEW c \in Nat, group' = Moved(u, g, t, c)
    PROVE  /\ group' \in [Users -> [GroupIds -> Group]]
           /\ group'[u][g].count = group[u][g].count - c
           /\ group'[u][t].count = group[u][t].count + c
           /\ \A v \in Users, k \in GroupIds :
                /\ group'[v][k].state = group[v][k].state
                /\ ~ (v = u /\ k \in {g, t}) =>
                     group'[v][k].count = group[v][k].count
<1> DEFINE n == group[u][g].count + (- c)
           mid == Recounted(group, u, g, n)
           m == mid[u][t].count + c
<1>1. n \in Int /\ n = group[u][g].count - c
  BY Rows
<1>2. group' = Recounted(mid, u, t, m)
  BY DEF Moved, GroupCounted, Recounted
<1>3. group \in [Users -> [GroupIds -> Group]]
  BY DEF TypeOK
<1> HIDE DEF n
<1>4. /\ mid \in [Users -> [GroupIds -> Group]]
      /\ mid[u][g].count = n
      /\ \A v \in Users, k \in GroupIds :
           /\ mid[v][k].state = group[v][k].state
           /\ ~ (v = u /\ k = g) => mid[v][k].count = group[v][k].count
  BY <1>1, <1>3, RecountedType
<1> HIDE DEF mid
<1>5. m \in Int /\ m = group[u][t].count + c
  BY <1>4, Rows
<1> HIDE DEF m
<1>6. /\ group' \in [Users -> [GroupIds -> Group]]
      /\ group'[u][t].count = m
      /\ \A v \in Users, k \in GroupIds :
           /\ group'[v][k].state = mid[v][k].state
           /\ ~ (v = u /\ k = t) => group'[v][k].count = mid[v][k].count
  <2> DEFINE next == Recounted(mid, u, t, m)
  <2>1. /\ next \in [Users -> [GroupIds -> Group]]
        /\ next[u][t].count = m
        /\ \A v \in Users, k \in GroupIds :
             /\ next[v][k].state = mid[v][k].state
             /\ ~ (v = u /\ k = t) => next[v][k].count = mid[v][k].count
    BY <1>4, <1>5, RecountedType
  <2> QED
    BY <1>2, <2>1
<1> QED
  BY <1>1, <1>4, <1>5, <1>6

\* What is moved leaves one count and enters the other, and stays in its hole's.
LEMMA MoveStep ==
    ASSUME IInv, NEW r \in Requests, Move(r)
    PROVE  IInv'
<1> USE DEF IInv
<1> DEFINE u == req[r].user
           g == req[r].group
           t == req[r].to
           S == req[r].holes \cap row[u][g]
<1>1. req[r] \in Request /\ RequestInv(req[r]) /\ req[r].step = "move"
  BY DEF Move, TypeOK, LocalsInv
<1>2. /\ u \in Users /\ g \in GroupIds /\ t \in GroupIds /\ g # t
      /\ group[u][g].state # "absent" /\ group[u][t].state # "absent"
  BY <1>1 DEF Request, RequestInv
<1>3. /\ S \subseteq row[u][g] /\ S \subseteq Holes
      /\ IsFiniteSet(S) /\ Cardinality(S) \in Nat
  BY <1>1, FiniteSets, CardinalityInt DEF Request
<1>4. /\ S \cap row[u][t] = {}
      /\ MoveRows(u, g, t, S)
      /\ group' = Moved(u, g, t, Cardinality(S))
      /\ late' = IF S = {} THEN late ELSE Written(u, t)
      /\ Answer(r)
      /\ UNCHANGED <<groupCount, hole, del, driftedGroup, driftedHole, driftedUser>>
  BY DEF Move, MoveRows
<1> HIDE DEF u, g, t, S
<1>5. /\ row'[u][g] = row[u][g] \ S
      /\ row'[u][t] = row[u][t] \cup S
      /\ \A v \in Users, k \in GroupIds :
           ~ (v = u /\ k \in {g, t}) => row'[v][k] = row[v][k]
  BY <1>2, <1>3, <1>4, MovedRows
<1>6. /\ \A v \in Users, k \in GroupIds :
           /\ group'[v][k].state = group[v][k].state
           /\ ~ (v = u /\ k \in {g, t}) => group'[v][k].count = group[v][k].count
      /\ group'[u][g].count = group[u][g].count - Cardinality(S)
      /\ group'[u][t].count = group[u][t].count + Cardinality(S)
  BY <1>2, <1>3, <1>4, MovedCounts
<1>8. req' \in [Requests -> Request] /\ LocalsInv'
  BY <1>4, <1>6, AnswerLocals
<1>9. TypeOK'
  <2>1. late' \subseteq Users \X GroupIds
    BY <1>2, <1>4 DEF TypeOK, Written
  <2>2. /\ row' \in [Users -> [GroupIds -> SUBSET Holes]]
        /\ group' \in [Users -> [GroupIds -> Group]]
    BY <1>2, <1>3, <1>4, MovedRows, MovedCounts
  <2> QED
    BY <1>4, <1>8, <2>1, <2>2 DEF TypeOK
<1>10. AbsentInv'
  BY <1>2, <1>5, <1>6 DEF AbsentInv
<1>11. GroupsExact'
  <2> SUFFICES ASSUME NEW v \in Users, NEW k \in GroupIds, Live(v, k)',
                      <<v, k>> \notin driftedGroup'
               PROVE  group'[v][k].count = Cardinality(row'[v][k])
    BY DEF GroupsExact
  <2>1. Live(v, k) /\ <<v, k>> \notin driftedGroup
    BY <1>4, <1>6 DEF Live
  <2>2. group[v][k].count = Cardinality(row[v][k])
    BY <2>1 DEF GroupsExact
  <2>3. /\ IsFiniteSet(row[v][k]) /\ Cardinality(row[v][k]) \in Nat
        /\ IsFiniteSet(row[v][k] \ S) /\ Cardinality(row[v][k] \ S) \in Nat
    BY CountedSets, FS_Subset, CardinalityInt
  <2>4. CASE v = u /\ k = g
    <3>1. row[v][k] = (row[v][k] \ S) \cup S /\ (row[v][k] \ S) \cap S = {}
      BY <1>3, <2>4
    <3>2. Cardinality(row[v][k]) = Cardinality(row[v][k] \ S) + Cardinality(S) - 0
      BY <1>3, <2>3, <3>1, FS_Union, FS_EmptySet
    <3>3. group'[v][k].count = Cardinality(row[v][k]) - Cardinality(S)
      BY <1>6, <2>2, <2>4
    <3>4. row'[v][k] = row[v][k] \ S
      BY <1>5, <2>4
    <3> QED
      BY <1>3, <2>3, <3>2, <3>3, <3>4
  <2>5. CASE v = u /\ k = t
    <3>1. row[v][k] \cap S = {}
      BY <1>4, <2>5
    <3>2. Cardinality(row[v][k] \cup S) = Cardinality(row[v][k]) + Cardinality(S) - 0
      BY <1>3, <2>3, <3>1, FS_Union, FS_EmptySet
    <3>3. group'[v][k].count = Cardinality(row[v][k]) + Cardinality(S)
      BY <1>6, <2>2, <2>5
    <3>4. row'[v][k] = row[v][k] \cup S
      BY <1>5, <2>5
    <3> QED
      BY <1>3, <2>3, <3>2, <3>3, <3>4
  <2>6. CASE ~ (v = u /\ k \in {g, t})
    BY <1>5, <1>6, <2>2, <2>6
  <2> QED
    BY <2>4, <2>5, <2>6
<1>12. HolesExact'
  <2> SUFFICES ASSUME NEW k \in Holes, hole'[k].exists, k \notin driftedHole'
               PROVE  hole'[k].count = Cardinality(Collections(k)')
    BY DEF HolesExact
  <2>1. hole[k].count = Cardinality(Collections(k)) /\ hole'[k].count = hole[k].count
    BY <1>4 DEF HolesExact
  <2>2. CASE k \in S
    <3>1. <<u, g>> \in Collections(k) /\ <<u, t>> \notin Collections(k)
      BY <1>2, <1>3, <1>4, <2>2 DEF Collections
    <3>2. Collections(k)' = (Collections(k) \ {<<u, g>>}) \cup {<<u, t>>}
      BY <1>2, <1>5, <2>2 DEF Collections
    <3>3. /\ IsFiniteSet(Collections(k) \ {<<u, g>>})
          /\ Cardinality(Collections(k) \ {<<u, g>>}) = Cardinality(Collections(k)) - 1
      BY <1>2, <3>1, CountedSets, FS_RemoveElement
    <3>4. <<u, t>> \notin Collections(k) \ {<<u, g>>}
      BY <3>1
    <3>5. Cardinality(Collections(k)') = Cardinality(Collections(k) \ {<<u, g>>}) + 1
      BY <3>2, <3>3, <3>4, FS_AddElement
    <3>6. Cardinality(Collections(k)) \in Nat
      BY <1>2, CountedSets
    <3> QED
      BY <2>1, <3>3, <3>5, <3>6
  <2>3. CASE k \notin S
    <3>1. Collections(k)' = Collections(k)
      BY <1>5, <2>3 DEF Collections
    <3> QED
      BY <2>1, <3>1
  <2> QED
    BY <2>2, <2>3
<1>13. UsersExact'
  BY <1>4, <1>6 DEF UsersExact, LiveGroups, Live, Uncounting
<1>14. RowsReachable'
  <2>1. \A v \in Users, k \in GroupIds : Live(v, k)' = Live(v, k)
    BY <1>6 DEF Live
  <2>2. late \subseteq late'
    BY <1>4 DEF Written
  <2>3. ASSUME NEW v \in Users, NEW k \in GroupIds, row[v][k] # {}
        PROVE  \/ Live(v, k)' \/ <<v, k>> \in late'
               \/ \E d \in Deleters : /\ del'[d].step = "marked"
                                      /\ del'[d].user = v /\ del'[d].group = k
    BY <1>4, <2>1, <2>2, <2>3 DEF RowsReachable
  <2>4. S # {} => group'[u][t].state = "live" \/ <<u, t>> \in late'
    <3> HAVE S # {}
    <3>1. late' = Written(u, t)
      BY <1>4
    <3>2. CASE Live(u, t)
      BY <1>2, <1>6, <3>2 DEF Live
    <3>3. CASE ~ Live(u, t)
      BY <3>1, <3>3 DEF Written
    <3> QED
      BY <3>2, <3>3
  <2>5. \A v \in Users, k \in GroupIds :
          row'[v][k] # {} => row[v][k] # {} \/ (v = u /\ k = t /\ S # {})
    <3>1. \A v \in Users, k \in GroupIds :
            v = u /\ k = t /\ row'[v][k] # {} => row[v][k] # {} \/ S # {}
      BY <1>5
    <3>2. \A v \in Users, k \in GroupIds :
            ~ (v = u /\ k = t) /\ row'[v][k] # {} => row[v][k] # {}
      BY <1>5
    <3> QED
      BY <3>1, <3>2
  <2> SUFFICES ASSUME NEW v \in Users, NEW k \in GroupIds, row'[v][k] # {}
               PROVE  \/ Live(v, k)' \/ <<v, k>> \in late'
                      \/ \E d \in Deleters : /\ del'[d].step = "marked"
                                             /\ del'[d].user = v /\ del'[d].group = k
    BY DEF RowsReachable
  <2>6. CASE row[v][k] # {}
    BY <2>3, <2>6
  <2>7. CASE v = u /\ k = t /\ S # {}
    BY <2>4, <2>7 DEF Live
  <2> QED
    BY <2>5, <2>6, <2>7
<1> QED
  BY <1>8, <1>9, <1>10, <1>11, <1>12, <1>13, <1>14

-----------------------------------------------------------------------------
(* Groups *)

\* What inserting does to the tables.
LEMMA Inserted ==
    ASSUME TypeOK, NEW u \in Users, NEW ids \in SUBSET GroupIds, Insert(u, ids)
    PROVE  /\ group' \in [Users -> [GroupIds -> Group]]
           /\ groupCount' \in [Users -> Int]
           /\ \A g \in ids : /\ group[u][g].state = "absent"
                             /\ group'[u][g].state = "live"
                             /\ group'[u][g].count = 0
           /\ \A v \in Users, k \in GroupIds :
                ~ (v = u /\ k \in ids) => group'[v][k] = group[v][k]
           /\ groupCount'[u] = groupCount[u] + Cardinality(ids)
           /\ \A v \in Users : v # u => groupCount'[v] = groupCount[v]
<1> DEFINE c == [state |-> "live", count |-> 0]
           new == [g \in GroupIds |-> IF g \in ids THEN c ELSE group[u][g]]
<1>1. c \in Group /\ c.state = "live" /\ c.count = 0
  BY DEF Group
<1>2. group' = [group EXCEPT ![u] = new]
  BY DEF Insert
<1>3. \A g \in ids : group[u][g].state = "absent"
  BY DEF Insert
<1> HIDE DEF c
<1>4. /\ new \in [GroupIds -> Group]
      /\ \A k \in GroupIds : k \in ids => new[k] = c
      /\ \A k \in GroupIds : k \notin ids => new[k] = group[u][k]
  BY <1>1, Rows
<1> HIDE DEF new
<1>5. /\ group' \in [Users -> [GroupIds -> Group]]
      /\ group'[u] = new
      /\ \A v \in Users : v # u => group'[v] = group[v]
  BY <1>2, <1>4 DEF TypeOK
<1>6. Cardinality(ids) \in Int
  BY FiniteSets, CardinalityInt
<1>7. groupCount' = [groupCount EXCEPT ![u] = @ + Cardinality(ids)]
  BY DEF Insert, NumberOf
<1>8. /\ groupCount' \in [Users -> Int]
      /\ groupCount'[u] = groupCount[u] + Cardinality(ids)
      /\ \A v \in Users : v # u => groupCount'[v] = groupCount[v]
  BY <1>6, <1>7 DEF TypeOK
<1> QED
  BY <1>1, <1>3, <1>4, <1>5, <1>8

\* New groups are counted in their user, and have no rows.
LEMMA CreateStep ==
    ASSUME IInv, NEW r \in Requests, Create(r)
    PROVE  IInv'
<1> USE DEF IInv
<1> DEFINE u == req[r].user
           ids == {req[r].group} \cup (IF req[r].default THEN {Default} ELSE {})
<1>1. req[r] \in Request /\ RequestInv(req[r]) /\ req[r].step \notin {"new", "done"}
  BY DEF Create, TypeOK, LocalsInv
<1>2. u \in Users /\ ids \in SUBSET GroupIds
  BY <1>1, FiniteSets DEF Request, RequestInv
<1>3. Insert(u, ids) /\ Answer(r) /\ UNCHANGED <<row, hole, del, history>>
  BY DEF Create
<1> HIDE DEF u, ids
<1>4. UNCHANGED <<row, hole, del, driftedGroup, driftedHole, driftedUser, late>>
  BY <1>3 DEF history
<1>5. /\ group' \in [Users -> [GroupIds -> Group]]
      /\ groupCount' \in [Users -> Int]
      /\ \A g \in ids : /\ group[u][g].state = "absent"
                        /\ group'[u][g].state = "live"
                        /\ group'[u][g].count = 0
      /\ \A v \in Users, k \in GroupIds :
           ~ (v = u /\ k \in ids) => group'[v][k] = group[v][k]
      /\ groupCount'[u] = groupCount[u] + Cardinality(ids)
      /\ \A v \in Users : v # u => groupCount'[v] = groupCount[v]
  BY <1>2, <1>3, Inserted
<1>6. \A v \in Users, k \in GroupIds :
        /\ group[v][k].state # "absent" => group'[v][k] = group[v][k]
        /\ group'[v][k].state = "absent" => group[v][k].state = "absent"
        /\ group[v][k].state = "live" => group'[v][k].state = "live"
  BY <1>2, <1>5
<1>8. req' \in [Requests -> Request] /\ LocalsInv'
  BY <1>3, <1>4, <1>6, AnswerLocals
<1>9. TypeOK'
  BY <1>4, <1>5, <1>8 DEF TypeOK
<1>10. AbsentInv'
  BY <1>4, <1>6 DEF AbsentInv
<1>11. GroupsExact'
  <2> SUFFICES ASSUME NEW v \in Users, NEW k \in GroupIds, Live(v, k)',
                      <<v, k>> \notin driftedGroup'
               PROVE  group'[v][k].count = Cardinality(row'[v][k])
    BY DEF GroupsExact
  <2>1. CASE v = u /\ k \in ids
    <3>1. row[v][k] = {} /\ group'[v][k].count = 0
      BY <1>5, <2>1 DEF AbsentInv
    <3> QED
      BY <1>4, <3>1, FS_EmptySet
  <2>2. CASE ~ (v = u /\ k \in ids)
    <3>1. group'[v][k] = group[v][k]
      BY <1>5, <2>2
    <3> QED
      BY <1>4, <3>1 DEF GroupsExact, Live
  <2> QED
    BY <2>1, <2>2
<1>12. HolesExact'
  BY <1>4 DEF HolesExact, Collections
<1>13. UsersExact'
  <2> SUFFICES ASSUME NEW v \in Users, v \notin driftedUser'
               PROVE  groupCount'[v] = Cardinality(LiveGroups(v)') +
                                         Cardinality(Uncounting(v)')
    BY DEF UsersExact
  <2>1. groupCount[v] = Cardinality(LiveGroups(v)) + Cardinality(Uncounting(v))
    BY <1>4 DEF UsersExact
  <2>2. Uncounting(v)' = Uncounting(v)
    BY <1>4 DEF Uncounting
  <2>3. CASE v = u
    <3>1. LiveGroups(v)' = LiveGroups(v) \cup ids
      BY <1>2, <1>5, <2>3 DEF LiveGroups, Live
    <3>2. LiveGroups(v) \cap ids = {}
      BY <1>5, <2>3 DEF LiveGroups, Live
    <3>3. IsFiniteSet(LiveGroups(v)) /\ IsFiniteSet(ids)
      BY <1>2, FiniteSets DEF LiveGroups
    <3>4. Cardinality(LiveGroups(v) \cup ids) =
            Cardinality(LiveGroups(v)) + Cardinality(ids) - 0
      BY <3>2, <3>3, FS_Union, FS_EmptySet
    <3>5. /\ Cardinality(LiveGroups(v)) \in Nat /\ Cardinality(ids) \in Nat
          /\ Cardinality(Uncounting(v)) \in Nat
      BY <3>3, CardinalityInt, FiniteSets DEF Uncounting
    <3>6. groupCount'[v] = groupCount[v] + Cardinality(ids)
      BY <1>5, <2>3
    <3>7. Cardinality(LiveGroups(v)') = Cardinality(LiveGroups(v)) + Cardinality(ids)
      BY <3>1, <3>4, <3>5
    <3> QED
      BY <2>1, <2>2, <3>5, <3>6, <3>7
  <2>4. CASE v # u
    <3>1. LiveGroups(v)' = LiveGroups(v)
      BY <1>5, <2>4 DEF LiveGroups, Live
    <3> QED
      BY <1>5, <2>1, <2>2, <2>4, <3>1
  <2> QED
    BY <2>3, <2>4
<1>14. RowsReachable'
  BY <1>4, <1>6 DEF RowsReachable, Live
<1> QED
  BY <1>8, <1>9, <1>10, <1>11, <1>12, <1>13, <1>14

\* The locals after a step of a deletion.
LEMMA DeletionLocals ==
    ASSUME TypeOK, LocalsInv, NEW d \in Deleters, NEW l \in Deletion,
           del' = [del EXCEPT ![d] = l], DeletionInv(l)', UNCHANGED req,
           \A u \in Users, g \in GroupIds :
              /\ group[u][g].state # "absent" => group'[u][g].state # "absent"
              /\ group[u][g].state = "deleted" => group'[u][g].state = "deleted"
    PROVE  /\ del' \in [Deleters -> Deletion] /\ LocalsInv'
           /\ del'[d] = l
           /\ \A e \in Deleters : e # d => del'[e] = del[e]
<1>1. del' \in [Deleters -> Deletion]
  BY DEF TypeOK
<1>2. del'[d] = l /\ \A e \in Deleters : e # d => del'[e] = del[e]
  BY DEF TypeOK
<1>3. \A r \in Requests : RequestInv(req[r])'
  BY OtherHandlers
<1>4. DeletionInv(del[d])'
  BY <1>2 DEF DeletionInv
<1>5. \A e \in Deleters : DeletionInv(del[e])'
  BY <1>2, <1>4, OtherHandlers
<1> QED
  BY <1>1, <1>2, <1>3, <1>5 DEF LocalsInv

LEMMA CheckEmptyStep ==
    ASSUME IInv, NEW d \in Deleters, NEW u \in Users, NEW g \in GroupIds,
           CheckEmpty(d, u, g)
    PROVE  IInv'
<1> USE DEF IInv
<1> DEFINE l == [step |-> "empty", user |-> u, group |-> g]
<1>1. /\ del' = [del EXCEPT ![d] = l]
      /\ del[d].step = "new"
      /\ UNCHANGED <<row, group, groupCount, hole, req>>
      /\ UNCHANGED <<driftedGroup, driftedHole, driftedUser, late>>
  BY DEF CheckEmpty, history
<1>2. l \in Deletion /\ DeletionInv(l)' /\ l.step = "empty"
  BY DEF Deletion, DeletionInv
<1> HIDE DEF l
<1>3. /\ del' \in [Deleters -> Deletion] /\ LocalsInv'
      /\ del'[d] = l
      /\ \A e \in Deleters : e # d => del'[e] = del[e]
  BY <1>1, <1>2, DeletionLocals
<1>4. TypeOK'
  BY <1>1, <1>3 DEF TypeOK
<1>5. AbsentInv' /\ GroupsExact'
  BY <1>1 DEF AbsentInv, GroupsExact, Live
<1>6. HolesExact'
  BY <1>1 DEF HolesExact, Collections
<1>7. UsersExact'
  <2>1. \A v : Uncounting(v)' = Uncounting(v)
    BY <1>1, <1>2, <1>3 DEF Uncounting
  <2>2. \A v : LiveGroups(v)' = LiveGroups(v)
    BY <1>1 DEF LiveGroups, Live
  <2> QED
    BY <1>1, <2>1, <2>2 DEF UsersExact
<1>8. RowsReachable'
  BY <1>1, <1>3 DEF RowsReachable, Live
<1> QED
  BY <1>3, <1>4, <1>5, <1>6, <1>7, <1>8

\* The group leaves the live ones and waits to be uncounted.
LEMMA MarkDeletedStep ==
    ASSUME IInv, NEW d \in Deleters, MarkDeleted(d)
    PROVE  IInv'
<1> USE DEF IInv
<1>1. del[d] \in Deletion /\ DeletionInv(del[d]) /\ del[d].step = "empty"
  BY DEF MarkDeleted, TypeOK, LocalsInv
<1>2. PICK u \in Users, g \in GroupIds : u = del[d].user /\ g = del[d].group
  BY <1>1 DEF Deletion, DeletionInv
<1>3. PICK l \in Deletion : l = [del[d] EXCEPT !.step = "marked"]
  BY <1>1 DEF Deletion
<1>4. PICK c \in Group : c = [group[u][g] EXCEPT !.state = "deleted"]
  BY <1>2, Rows DEF Group
<1>5. /\ l.step = "marked" /\ l.user = u /\ l.group = g
      /\ c.state = "deleted"
      /\ group[u][g].state # "absent"
      /\ group' = SetGroup(group, u, g, c)
      /\ driftedUser' = IF group[u][g].state = "live" THEN driftedUser
                        ELSE driftedUser \cup {u}
      /\ del' = [del EXCEPT ![d] = l]
      /\ UNCHANGED <<row, groupCount, hole, req, driftedGroup, driftedHole, late>>
  <2>1. l.step = "marked" /\ l.user = u /\ l.group = g
    BY <1>1, <1>2, <1>3 DEF Deletion
  <2>2. c.state = "deleted"
    BY <1>2, <1>4, Rows DEF Group
  <2>3. group' = SetGroup(group, u, g, c)
    BY <1>2, <1>4 DEF MarkDeleted, SetGroup
  <2> QED
    BY <1>2, <1>3, <2>1, <2>2, <2>3 DEF MarkDeleted, Live
<1>6. /\ group' \in [Users -> [GroupIds -> Group]]
      /\ group'[u][g] = c
      /\ \A v \in Users, k \in GroupIds :
           ~ (v = u /\ k = g) => group'[v][k] = group[v][k]
  <2> DEFINE next == SetGroup(group, u, g, c)
  <2>1. group \in [Users -> [GroupIds -> Group]]
    BY DEF TypeOK
  <2>2. /\ next \in [Users -> [GroupIds -> Group]]
        /\ next[u][g] = c
        /\ \A v \in Users, k \in GroupIds :
             ~ (v = u /\ k = g) => next[v][k] = group[v][k]
    BY <2>1, SetGroupType
  <2> QED
    BY <1>5, <2>2
<1>7. \A v \in Users, k \in GroupIds :
        /\ group[v][k].state # "absent" => group'[v][k].state # "absent"
        /\ group[v][k].state = "deleted" => group'[v][k].state = "deleted"
        /\ group'[v][k].state = "absent" => group[v][k].state = "absent"
        /\ group'[v][k].state = "live" => group'[v][k] = group[v][k]
  BY <1>5, <1>6
<1>8. DeletionInv(l)'
  BY <1>5, <1>6 DEF DeletionInv
<1>9. /\ del' \in [Deleters -> Deletion] /\ LocalsInv'
      /\ del'[d] = l
      /\ \A e \in Deleters : e # d => del'[e] = del[e]
  BY <1>5, <1>7, <1>8, DeletionLocals
<1>10. TypeOK'
  BY <1>2, <1>5, <1>6, <1>9 DEF TypeOK
<1>11. AbsentInv' /\ GroupsExact'
  BY <1>5, <1>7 DEF AbsentInv, GroupsExact, Live
<1>12. HolesExact'
  BY <1>5 DEF HolesExact, Collections
<1>13. UsersExact'
  <2> SUFFICES ASSUME NEW v \in Users, v \notin driftedUser'
               PROVE  groupCount'[v] = Cardinality(LiveGroups(v)') +
                                         Cardinality(Uncounting(v)')
    BY DEF UsersExact
  <2>1. v \notin driftedUser
    BY <1>5
  <2>2. groupCount[v] = Cardinality(LiveGroups(v)) + Cardinality(Uncounting(v))
    BY <2>1 DEF UsersExact
  <2>3. CASE v = u
    <3>1. group[u][g].state = "live"
      BY <1>5, <2>3
    <3>2. LiveGroups(v)' = LiveGroups(v) \ {g} /\ g \in LiveGroups(v)
      BY <1>5, <1>6, <2>3, <3>1 DEF LiveGroups, Live
    <3>3. Uncounting(v)' = Uncounting(v) \cup {d} /\ d \notin Uncounting(v)
      BY <1>1, <1>5, <1>9, <2>3 DEF Uncounting
    <3>4. /\ IsFiniteSet(LiveGroups(v)) /\ Cardinality(LiveGroups(v)) \in Nat
          /\ IsFiniteSet(Uncounting(v)) /\ Cardinality(Uncounting(v)) \in Nat
      BY FiniteSets, CardinalityInt DEF LiveGroups, Uncounting
    <3>5. Cardinality(LiveGroups(v) \ {g}) = Cardinality(LiveGroups(v)) - 1
      BY <3>2, <3>4, FS_RemoveElement
    <3>6. Cardinality(Uncounting(v) \cup {d}) = Cardinality(Uncounting(v)) + 1
      BY <3>3, <3>4, FS_AddElement
    <3> QED
      BY <1>5, <2>2, <3>2, <3>3, <3>4, <3>5, <3>6
  <2>4. CASE v # u
    <3>1. LiveGroups(v)' = LiveGroups(v)
      BY <1>6, <2>4 DEF LiveGroups, Live
    <3>2. Uncounting(v)' = Uncounting(v)
      BY <1>2, <1>5, <1>9, <2>4 DEF Uncounting
    <3> QED
      BY <1>5, <2>2, <3>1, <3>2
  <2> QED
    BY <2>3, <2>4
<1>14. RowsReachable'
  <2> SUFFICES ASSUME NEW v \in Users, NEW k \in GroupIds, row'[v][k] # {}
               PROVE  \/ Live(v, k)' \/ <<v, k>> \in late'
                      \/ \E e \in Deleters : /\ del'[e].step = "marked"
                                             /\ del'[e].user = v /\ del'[e].group = k
    BY DEF RowsReachable
  <2>1. CASE v = u /\ k = g
    BY <1>5, <1>9, <2>1
  <2>2. CASE ~ (v = u /\ k = g)
    <3>1. \/ Live(v, k) \/ <<v, k>> \in late
          \/ \E e \in Deleters : /\ del[e].step = "marked"
                                 /\ del[e].user = v /\ del[e].group = k
      BY <1>5 DEF RowsReachable
    <3>2. \A e \in Deleters : del[e].step = "marked" => del'[e] = del[e]
      BY <1>1, <1>9
    <3> QED
      BY <1>5, <1>6, <2>2, <3>1, <3>2 DEF Live
  <2> QED
    BY <2>1, <2>2
<1> QED
  BY <1>9, <1>10, <1>11, <1>12, <1>13, <1>14

\* The rows of the group go; their holes drift.
LEMMA ClearRowsStep ==
    ASSUME IInv, NEW d \in Deleters, ClearRows(d)
    PROVE  IInv'
<1> USE DEF IInv
<1>1. del[d] \in Deletion /\ DeletionInv(del[d]) /\ del[d].step = "marked"
  BY DEF ClearRows, TypeOK, LocalsInv
<1>2. PICK u \in Users, g \in GroupIds : u = del[d].user /\ g = del[d].group
  BY <1>1 DEF Deletion, DeletionInv
<1>3. PICK l \in Deletion : l = [del[d] EXCEPT !.step = "cleared"]
  BY <1>1 DEF Deletion
<1>4. l.step = "cleared" /\ l.user = u /\ l.group = g
  BY <1>1, <1>2, <1>3 DEF Deletion
<1>5. /\ row' = SetRow(row, u, g, {})
      /\ driftedHole' = driftedHole \cup row[u][g]
      /\ late' = late \ {<<u, g>>}
      /\ del' = [del EXCEPT ![d] = l]
      /\ UNCHANGED <<group, groupCount, hole, req, driftedGroup, driftedUser>>
  BY <1>2, <1>3 DEF ClearRows, Cleared, SetRow
<1>6. /\ row' \in [Users -> [GroupIds -> SUBSET Holes]]
      /\ row'[u][g] = {}
      /\ \A v \in Users, k \in GroupIds :
           ~ (v = u /\ k = g) => row'[v][k] = row[v][k]
  <2> DEFINE next == SetRow(row, u, g, {})
  <2>1. row \in [Users -> [GroupIds -> SUBSET Holes]]
    BY DEF TypeOK
  <2>2. /\ next \in [Users -> [GroupIds -> SUBSET Holes]]
        /\ next[u][g] = {}
        /\ \A v \in Users, k \in GroupIds :
             ~ (v = u /\ k = g) => next[v][k] = row[v][k]
    BY <2>1, SetRowType
  <2> QED
    BY <1>5, <2>2
<1>7. group[u][g].state = "deleted"
  BY <1>1, <1>2 DEF DeletionInv
<1>8. DeletionInv(l)'
  BY <1>4, <1>5, <1>7 DEF DeletionInv
<1>9. /\ del' \in [Deleters -> Deletion] /\ LocalsInv'
      /\ del'[d] = l
      /\ \A e \in Deleters : e # d => del'[e] = del[e]
  BY <1>5, <1>8, DeletionLocals
<1>10. TypeOK'
  BY <1>5, <1>6, <1>9, Rows DEF TypeOK
<1>11. AbsentInv'
  BY <1>5, <1>6 DEF AbsentInv
<1>12. GroupsExact'
  BY <1>5, <1>6, <1>7 DEF GroupsExact, Live
<1>13. HolesExact'
  <2> SUFFICES ASSUME NEW h \in Holes, hole'[h].exists, h \notin driftedHole'
               PROVE  hole'[h].count = Cardinality(Collections(h)')
    BY DEF HolesExact
  <2>1. h \notin driftedHole /\ h \notin row[u][g]
    BY <1>5
  <2>2. Collections(h)' = Collections(h)
    BY <1>6, <2>1 DEF Collections
  <2> QED
    BY <1>5, <2>1, <2>2 DEF HolesExact
<1>14. UsersExact'
  <2>1. \A v : Uncounting(v)' = Uncounting(v)
    BY <1>1, <1>2, <1>4, <1>9 DEF Uncounting
  <2>2. \A v : LiveGroups(v)' = LiveGroups(v)
    BY <1>5 DEF LiveGroups, Live
  <2> QED
    BY <1>5, <2>1, <2>2 DEF UsersExact
<1>15. RowsReachable'
  <2> SUFFICES ASSUME NEW v \in Users, NEW k \in GroupIds, row'[v][k] # {}
               PROVE  \/ Live(v, k)' \/ <<v, k>> \in late'
                      \/ \E e \in Deleters : /\ del'[e].step = "marked"
                                             /\ del'[e].user = v /\ del'[e].group = k
    BY DEF RowsReachable
  <2>1. ~ (v = u /\ k = g)
    BY <1>6
  <2>2. \/ Live(v, k) \/ <<v, k>> \in late
        \/ \E e \in Deleters : /\ del[e].step = "marked"
                               /\ del[e].user = v /\ del[e].group = k
    BY <1>6, <2>1 DEF RowsReachable
  <2>3. \A e \in Deleters : del[e].user = v /\ del[e].group = k => del'[e] = del[e]
    BY <1>2, <1>9, <2>1
  <2> QED
    BY <1>5, <2>1, <2>2, <2>3 DEF Live
<1> QED
  BY <1>9, <1>10, <1>11, <1>12, <1>13, <1>14, <1>15

\* The last step of a deletion, or its end half-way: a deletion that was to
\* uncount its group does so, or its user drifts; one that was to remove the rows
\* leaves the group late.
LEMMA EndDeletionStep ==
    ASSUME IInv, NEW d \in Deleters, UncountGroup(d) \/ FailDelete(d)
    PROVE  IInv'
<1> USE DEF IInv
<1>1. /\ del[d] \in Deletion /\ DeletionInv(del[d])
      /\ del[d].step \in {"empty", "marked", "cleared"}
  BY DEF UncountGroup, FailDelete, TypeOK, LocalsInv
<1>2. PICK u \in Users, g \in GroupIds : u = del[d].user /\ g = del[d].group
  BY <1>1 DEF Deletion, DeletionInv
<1>3. PICK l \in Deletion : l = [NewDeletion EXCEPT !.step = "done"]
  BY FiniteSets DEF Deletion, NewDeletion
<1>4. l.step = "done" /\ DeletionInv(l)'
  BY <1>3 DEF NewDeletion, DeletionInv
<1>5. /\ del' = [del EXCEPT ![d] = l]
      /\ UNCHANGED <<row, group, hole, req, driftedGroup, driftedHole>>
  BY <1>3 DEF UncountGroup, FailDelete, history
<1>6. /\ driftedUser' \subseteq Users /\ driftedUser \subseteq driftedUser'
      /\ late' \subseteq Users \X GroupIds /\ late \subseteq late'
      /\ del[d].step = "marked" => <<u, g>> \in late'
  BY <1>1, <1>2 DEF UncountGroup, FailDelete, history, TypeOK
<1>7. \/ /\ del[d].step = "cleared"
         /\ groupCount' = [groupCount EXCEPT ![u] = @ - 1]
      \/ /\ groupCount' = groupCount
         /\ del[d].step = "empty" \/ u \in driftedUser'
  BY <1>1, <1>2 DEF UncountGroup, FailDelete
<1>8. groupCount' \in [Users -> Int]
  BY <1>7 DEF TypeOK
<1>9. /\ del' \in [Deleters -> Deletion] /\ LocalsInv'
      /\ del'[d] = l
      /\ \A e \in Deleters : e # d => del'[e] = del[e]
  BY <1>4, <1>5, DeletionLocals
<1>10. TypeOK'
  BY <1>5, <1>6, <1>8, <1>9 DEF TypeOK
<1>11. AbsentInv' /\ GroupsExact'
  BY <1>5 DEF AbsentInv, GroupsExact, Live
<1>12. HolesExact'
  BY <1>5 DEF HolesExact, Collections
<1>13. UsersExact'
  <2> SUFFICES ASSUME NEW v \in Users, v \notin driftedUser'
               PROVE  groupCount'[v] = Cardinality(LiveGroups(v)') +
                                         Cardinality(Uncounting(v)')
    BY DEF UsersExact
  <2>1. groupCount[v] = Cardinality(LiveGroups(v)) + Cardinality(Uncounting(v))
    BY <1>6 DEF UsersExact
  <2>2. LiveGroups(v)' = LiveGroups(v)
    BY <1>5 DEF LiveGroups, Live
  <2>3. /\ IsFiniteSet(Uncounting(v)) /\ Cardinality(Uncounting(v)) \in Nat
        /\ Cardinality(LiveGroups(v)) \in Nat
    BY FiniteSets, CardinalityInt DEF LiveGroups, Uncounting
  <2>4. CASE v = u /\ del[d].step = "cleared"
    <3>1. groupCount'[v] = groupCount[v] - 1
      BY <1>7, <2>4 DEF TypeOK
    <3>2. Uncounting(v)' = Uncounting(v) \ {d} /\ d \in Uncounting(v)
      BY <1>2, <1>4, <1>9, <2>4 DEF Uncounting
    <3>3. Cardinality(Uncounting(v) \ {d}) = Cardinality(Uncounting(v)) - 1
      BY <2>3, <3>2, FS_RemoveElement
    <3> QED
      BY <2>1, <2>2, <2>3, <3>1, <3>2, <3>3
  <2>5. CASE v = u /\ del[d].step # "cleared"
    <3>1. groupCount' = groupCount /\ del[d].step = "empty"
      BY <1>7, <2>5
    <3>2. Uncounting(v)' = Uncounting(v)
      BY <1>4, <1>9, <3>1 DEF Uncounting
    <3> QED
      BY <2>1, <2>2, <3>1, <3>2
  <2>6. CASE v # u
    <3>1. groupCount'[v] = groupCount[v]
      BY <1>7, <2>6 DEF TypeOK
    <3>2. Uncounting(v)' = Uncounting(v)
      BY <1>2, <1>4, <1>9, <2>6 DEF Uncounting
    <3> QED
      BY <2>1, <2>2, <3>1, <3>2
  <2> QED
    BY <2>4, <2>5, <2>6
<1>14. RowsReachable'
  <2> SUFFICES ASSUME NEW v \in Users, NEW k \in GroupIds, row'[v][k] # {}
               PROVE  \/ Live(v, k)' \/ <<v, k>> \in late'
                      \/ \E e \in Deleters : /\ del'[e].step = "marked"
                                             /\ del'[e].user = v /\ del'[e].group = k
    BY DEF RowsReachable
  <2>1. \/ Live(v, k) \/ <<v, k>> \in late
        \/ \E e \in Deleters : /\ del[e].step = "marked"
                               /\ del[e].user = v /\ del[e].group = k
    BY <1>5 DEF RowsReachable
  <2> QED
    BY <1>2, <1>5, <1>6, <1>9, <2>1 DEF Live
<1> QED
  BY <1>9, <1>10, <1>11, <1>12, <1>13, <1>14

-----------------------------------------------------------------------------

\* A hole that is gone is counted no more.
LEMMA DeleteHoleStep ==
    ASSUME IInv, NEW h \in Holes, DeleteHole(h)
    PROVE  IInv'
<1> USE DEF IInv, DeleteHole, history
<1>1. \A k \in Holes : /\ hole'[k].exists => hole[k].exists
                       /\ hole'[k].count = hole[k].count
  BY DEF TypeOK
<1>2. TypeOK'
  <2>1. hole' \in [Holes -> [exists : BOOLEAN, count : Int]]
    BY DEF TypeOK
  <2> QED
    BY <2>1 DEF TypeOK
<1>3. LocalsInv'
  BY DEF LocalsInv, RequestInv, DeletionInv
<1>4. AbsentInv' /\ GroupsExact' /\ RowsReachable'
  BY DEF AbsentInv, GroupsExact, RowsReachable, Live
<1>5. HolesExact'
  BY <1>1 DEF HolesExact, Collections
<1>6. UsersExact'
  BY DEF UsersExact, LiveGroups, Live, Uncounting
<1> QED
  BY <1>2, <1>3, <1>4, <1>5, <1>6

LEMMA StutterStep == IInv /\ UNCHANGED vars => IInv'
<1> SUFFICES ASSUME IInv, UNCHANGED vars PROVE IInv'
  OBVIOUS
<1> USE DEF IInv, vars, history
<1>1. TypeOK' /\ LocalsInv'
  BY DEF TypeOK, LocalsInv, RequestInv, DeletionInv
<1>2. AbsentInv' /\ GroupsExact' /\ RowsReachable'
  BY DEF AbsentInv, GroupsExact, RowsReachable, Live
<1>3. HolesExact' /\ UsersExact'
  BY DEF HolesExact, UsersExact, Collections, LiveGroups, Live, Uncounting
<1> QED
  BY <1>1, <1>2, <1>3

LEMMA NextIInv == IInv /\ [Next]_vars => IInv'
<1> SUFFICES ASSUME IInv, [Next]_vars PROVE IInv'
  OBVIOUS
<1>1. ASSUME NEW r \in Requests,
             Add(r) \/ Delete(r) \/ Modify(r) \/ Move(r) \/ Create(r) \/ Fail(r)
      PROVE  IInv'
  BY <1>1, AddStep, DeleteStep, ModifyStep, MoveStep, CreateStep, FailStep
<1>2. ASSUME NEW d \in Deleters,
             \/ \E u \in Users, g \in GroupIds : CheckEmpty(d, u, g)
             \/ MarkDeleted(d) \/ ClearRows(d) \/ UncountGroup(d) \/ FailDelete(d)
      PROVE  IInv'
  BY <1>2, CheckEmptyStep, MarkDeletedStep, ClearRowsStep, EndDeletionStep
<1>3. ASSUME NEW h \in Holes, DeleteHole(h)
      PROVE  IInv'
  BY <1>3, DeleteHoleStep
<1> QED
  BY <1>1, <1>2, <1>3, ChecksStep, StutterStep DEF Next

-----------------------------------------------------------------------------
(* Theorems *)

\* The inductive invariant holds always.
THEOREM Invariance == Spec => []IInv
BY InitIInv, NextIInv, PTL DEF Spec

\* Rows, counters and locals keep their types; no group has an id beyond the
\* limit.
THEOREM TypeCorrect == Spec => []TypeOK
BY Invariance, PTL DEF IInv

\* The count of a group and of a hole is the number of its rows, unless requests
\* acted on what another one had just added or deleted, or the rows of the hole
\* were replaced or cleared; the number of groups of a user counts live groups
\* and those still to be uncounted.
THEOREM CountsCorrect == Spec => []CountsExact
<1>1. IInv => CountsExact
  BY DEF IInv, CountsExact
<1> QED
  BY <1>1, Invariance, PTL

\* Favourites are in live groups, in one a deletion is about to clear, or in one
\* that was written to, or left, after it was marked.
THEOREM FavoritesReachable == Spec => []RowsReachable
BY Invariance, PTL DEF IInv

=============================================================================
