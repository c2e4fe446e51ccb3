------------------------- MODULE FloorHistoryProofs -------------------------
(***************************************************************************)
(* Proofs about FloorHistory for any number of floors, users, restores and *)
(* texts.  IInv is inductive: the marks of a version belong to its text in *)
(* the row, in the history and in what a restore carries, and a restore    *)
(* has backed up what it read before it saves.                             *)
(***************************************************************************)
EXTENDS FloorHistory, FiniteSetTheorems, TLAPS

\* The number of votes of a kind is a natural number.
LEMMA CountType ==
    ASSUME NEW votes, NEW data
    PROVE  Count(votes, data) \in Nat
<1>1. IsFiniteSet({u \in Users : votes[u] = data})
  BY UsersAssumption, FS_Subset
<1> QED
  BY <1>1, FS_CardinalityType DEF Count

\* Whoever votes so in the one already did in the other.
LEMMA CountMonotone ==
    ASSUME NEW new, NEW old, NEW data,
           \A u \in Users : new[u] = data => old[u] = data
    PROVE  Count(new, data) <= Count(old, data)
<1>1. IsFiniteSet({u \in Users : old[u] = data})
  BY UsersAssumption, FS_Subset
<1> QED
  BY <1>1, FS_Subset DEF Count

\* The row of a floor that does not exist is a row, and its version a version.
LEMMA NoRowType == NoRow \in Row /\ VersionOf(NoRow) \in Version
BY DEF NoRow, Row, VersionOf, Version, Marks

\* The version of a row is a version.
LEMMA VersionType ==
    ASSUME NEW r \in Row
    PROVE  VersionOf(r) \in Version
BY DEF Row, Version, VersionOf

\* Every helper that changes a row returns a row.
LEMMA RowTypes ==
    ASSUME NEW r \in Row, NEW x \in Texts \cup {Keep}, NEW votes, NEW like,
           NEW v \in Version
    PROVE  /\ Edited(r, x) \in Row
           /\ Liked(r, votes, like) \in Row
           /\ Deleted(r) \in Row
           /\ Restored(r, v) \in Row
<1>1. Edited(r, x) \in Row
  <2>1. CASE x = Keep
    BY <2>1 DEF Edited
  <2>2. CASE x # Keep
    <3> DEFINE suspect == x \in Suspect
    <3>1. /\ Edited(r, x) = [r EXCEPT !.text = x, !.auto = suspect, !.actual = "none"]
          /\ x \in Texts /\ suspect \in BOOLEAN
      BY <2>2 DEF Edited
    <3> HIDE DEF suspect
    <3> QED
      BY <3>1 DEF Row, Marks
  <2> QED
    BY <2>1, <2>2
<1>2. Liked(r, votes, like) \in Row
  <2>1. Count(votes, 1) \in Nat
    BY CountType
  <2>2. CASE like = Keep
    BY <2>2 DEF Liked
  <2>3. CASE like # Keep
    <3> DEFINE c == Count(votes, 1)
    <3>1. Liked(r, votes, like) = [r EXCEPT !.like = c]
      BY <2>3 DEF Liked
    <3> HIDE DEF c
    <3> QED
      BY <3>1, <2>1 DEF Row, c
  <2> QED
    BY <2>2, <2>3
<1>3. Deleted(r) \in Row
  BY DEF Deleted, Row
<1>4. Restored(r, v) \in Row
  BY DEF Restored, Row, Version
<1> QED
  BY <1>1, <1>2, <1>3, <1>4

\* Votes leave the text, the marks and the existence of a row alone.
LEMMA LikedKeeps ==
    ASSUME NEW r \in Row, NEW votes, NEW like
    PROVE  /\ VersionOf(Liked(r, votes, like)) = VersionOf(r)
           /\ Liked(r, votes, like).exists = r.exists
           /\ Liked(r, votes, like).text = r.text
           /\ Liked(r, votes, like).dislike = r.dislike
BY DEF Liked, VersionOf, Row

\* An edited row carries the marks its new text has earned.
LEMMA EditedEarned ==
    ASSUME NEW f \in Floors, NEW r \in Row, NEW x \in Texts \cup {Keep},
           Earned(f, VersionOf(r))
    PROVE  /\ Earned(f, VersionOf(Edited(r, x)))
           /\ Edited(r, x).exists = r.exists
           /\ Edited(r, x).like = r.like /\ Edited(r, x).dislike = r.dislike
           /\ x # Keep => Edited(r, x).text = x
           /\ x = Keep => Edited(r, x) = r
BY TextsAssumption DEF Edited, Earned, VersionOf, Row

\* A deleted row shows the notice, to which no mark has to belong.
LEMMA DeletedEarned ==
    ASSUME NEW f \in Floors, NEW r \in Row
    PROVE  /\ Earned(f, VersionOf(Deleted(r)))
           /\ Deleted(r).exists = r.exists
           /\ Deleted(r).like = r.like /\ Deleted(r).dislike = r.dislike
BY DEF Deleted, Earned, VersionOf, Row

\* A restored row has the text and the marks of its version.
LEMMA RestoredEarned ==
    ASSUME NEW f \in Floors, NEW r \in Row, NEW v \in Version, Earned(f, v)
    PROVE  /\ Earned(f, VersionOf(Restored(r, v)))
           /\ Restored(r, v).exists = r.exists
           /\ Restored(r, v).like = r.like /\ Restored(r, v).dislike = r.dislike
           /\ Restored(r, v).text = v.text
BY DEF Restored, Earned, VersionOf, Row, Version

-----------------------------------------------------------------------------
(* Steps that change one row *)

\* Earned after the step.
EarnedLater(f, v) ==
    v.text # Notice => /\ v.auto <=> v.text \in Suspect
                       /\ v.actual = "false" => <<f, v.text>> \in approved'

\* Approvals are never taken back, so what was earned stays earned.
LEMMA StaysEarned ==
    ASSUME NEW f \in Floors, NEW v, approved \subseteq approved', Earned(f, v)
    PROVE  EarnedLater(f, v)
BY DEF Earned, EarnedLater

\* A step that changes the row of f to n, keeps the versions V of it and stores
\* the texts W preserves the invariant, when n and V have earned their marks,
\* W and the text that was there are in n or V, and the likes are counted.
LEMMA RowStep ==
    ASSUME IInv, NEW f \in Floors, NEW n \in Row, NEW V \in SUBSET Version,
           NEW W \in SUBSET Texts,
           row' = [row EXCEPT ![f] = n],
           history' = [history EXCEPT ![f] = @ \cup V],
           written' = [written EXCEPT ![f] = @ \cup W],
           UNCHANGED <<restore, overwritten>>,
           approved \subseteq approved',
           approved' \subseteq Floors \X (Texts \cup {Notice}),
           vote' \in [Floors -> [Users -> {-1, 0, 1}]],
           \A g \in Floors \ {f} : vote'[g] = vote[g],
           n.exists,
           EarnedLater(f, VersionOf(n)),
           \A v \in V : EarnedLater(f, v),
           (W \cup {row[f].text}) \cap Texts \subseteq {v.text : v \in V} \cup {n.text},
           f \notin overwritten => CountsOK(n, vote'[f])
    PROVE  IInv'
<1> USE DEF IInv
<1>0. /\ row \in [Floors -> Row] /\ history \in [Floors -> SUBSET Version]
      /\ written \in [Floors -> SUBSET Texts]
      /\ row'[f] = n /\ history'[f] = history[f] \cup V
      /\ written'[f] = written[f] \cup W
      /\ \A g \in Floors \ {f} : /\ row'[g] = row[g] /\ history'[g] = history[g]
                                 /\ written'[g] = written[g]
  BY DEF TypeOK
<1>1. TypeOK'
  BY <1>0 DEF TypeOK
<1>2. AbsentRows'
  BY <1>0 DEF AbsentRows
<1>3. MarksEarned'
  <2> SUFFICES ASSUME NEW g \in Floors
               PROVE  /\ EarnedLater(g, VersionOf(row'[g]))
                      /\ \A v \in history'[g] : EarnedLater(g, v)
    BY DEF MarksEarned, Earned, EarnedLater, VersionOf
  <2>1. CASE g # f
    <3>1. /\ Earned(g, VersionOf(row[g]))
          /\ \A v \in history[g] : Earned(g, v)
      BY <1>0, <2>1 DEF MarksEarned
    <3> QED
      BY <1>0, <2>1, <3>1, StaysEarned
  <2>2. CASE g = f
    <3>1. \A v \in history[f] : EarnedLater(f, v)
      BY StaysEarned DEF MarksEarned
    <3> QED
      BY <1>0, <2>2, <3>1
  <2> QED
    BY <2>1, <2>2
<1>4. RestoresOK'
  <2> SUFFICES ASSUME NEW r \in Restorers
               PROVE  RestoreOK(r)'
    BY DEF RestoresOK
  <2>1. RestoreOK(r) /\ restore'[r] = restore[r] /\ restore[r].floor \in Floors
    BY DEF RestoresOK, TypeOK
  <2>2. history[restore[r].floor] \subseteq history'[restore[r].floor]
    BY <1>0, <2>1
  <2> QED
    BY <2>1, <2>2 DEF RestoreOK, Earned, VersionOf
<1>5. HistoryComplete'
  <2> SUFFICES ASSUME NEW g \in Floors, g \notin overwritten, NEW x \in written'[g]
               PROVE  x \in {v.text : v \in history'[g]} \cup {row'[g].text}
    BY DEF HistoryComplete
  <2>1. CASE g # f
    BY <1>0, <2>1 DEF HistoryComplete
  <2>2. CASE g = f
    <3>1. x \in Texts
      BY <1>0, <2>2
    <3>2. \/ x \in W \cup {row[f].text}
          \/ x \in {v.text : v \in history[f]}
      BY <1>0, <2>2 DEF HistoryComplete
    <3>3. x \in {v.text : v \in history[f] \cup V} \cup {n.text}
      BY <3>1, <3>2
    <3> QED
      BY <1>0, <2>2, <3>3
  <2> QED
    BY <2>1, <2>2
<1>6. LikesCounted'
  <2> SUFFICES ASSUME NEW g \in Floors, g \notin overwritten
               PROVE  CountsOK(row'[g], vote'[g])
    BY DEF LikesCounted, CountsOK, Count
  <2>1. CASE g # f
    BY <1>0, <2>1 DEF LikesCounted
  <2>2. CASE g = f
    BY <1>0, <2>2
  <2> QED
    BY <2>1, <2>2
<1> QED
  BY <1>1, <1>2, <1>3, <1>4, <1>5, <1>6

-----------------------------------------------------------------------------
(* The actions *)

\* What the invariant says of one floor.
LEMMA OneFloor ==
    ASSUME IInv, NEW f \in Floors
    PROVE  /\ row[f] \in Row /\ history[f] \subseteq Version
           /\ written[f] \subseteq Texts
           /\ approved \subseteq Floors \X (Texts \cup {Notice})
           /\ vote \in [Floors -> [Users -> {-1, 0, 1}]]
           /\ Earned(f, VersionOf(row[f]))
           /\ f \notin overwritten => CountsOK(row[f], vote[f])
BY DEF IInv, TypeOK, MarksEarned, LikesCounted

LEMMA CreateFloorStep ==
    ASSUME IInv, NEW f \in Floors, NEW x \in Texts, CreateFloor(f, x)
    PROVE  IInv'
<1> DEFINE suspect == x \in Suspect
           n == [row[f] EXCEPT !.exists = TRUE, !.text = x, !.auto = suspect]
<1>1. row[f] = NoRow /\ row \in [Floors -> Row]
  BY DEF CreateFloor, IInv, AbsentRows, TypeOK
<1>2. row' = [row EXCEPT ![f] = n]
  BY <1>1 DEF CreateFloor
<1>3. /\ n.exists /\ n.text = x /\ n.auto = suspect /\ n.actual = "none"
      /\ n.like = row[f].like /\ n.dislike = row[f].dislike
  BY <1>1 DEF NoRow
<1>4. n \in Row
  <2>1. suspect \in BOOLEAN
    OBVIOUS
  <2> HIDE DEF suspect
  <2> QED
    BY <2>1, <1>1, NoRowType DEF Row
<1>5. EarnedLater(f, VersionOf(n))
  BY <1>3 DEF EarnedLater, VersionOf
<1>6. row[f].text = Notice
  BY <1>1 DEF NoRow
<1> HIDE DEF n, suspect
<1>7. history' = [history EXCEPT ![f] = @ \cup {}]
  BY DEF CreateFloor, IInv, TypeOK
<1>8. written' = [written EXCEPT ![f] = @ \cup {x}]
  BY DEF CreateFloor
<1>9. f \notin overwritten => CountsOK(n, vote'[f])
  BY <1>3, OneFloor DEF CreateFloor, CountsOK
<1>10. ({x} \cup {row[f].text}) \cap Texts \subseteq {v.text : v \in {}} \cup {n.text}
  BY <1>3, <1>6, TextsAssumption
<1>11. /\ UNCHANGED <<restore, overwritten>>
       /\ approved \subseteq approved'
       /\ approved' \subseteq Floors \X (Texts \cup {Notice})
       /\ vote' \in [Floors -> [Users -> {-1, 0, 1}]]
       /\ \A g \in Floors \ {f} : vote'[g] = vote[g]
  BY OneFloor DEF CreateFloor
<1>12. {} \in SUBSET Version /\ {x} \in SUBSET Texts
       /\ \A v \in {} : EarnedLater(f, v)
  OBVIOUS
<1> QED
  BY <1>2, <1>3, <1>4, <1>5, <1>7, <1>8, <1>9, <1>10, <1>11, <1>12, RowStep

LEMMA ModifyFloorStep ==
    ASSUME IInv, NEW f \in Floors, NEW x \in Texts \cup {Keep},
           NEW like \in Users \X {0, 1} \cup {Keep}, ModifyFloor(f, x, like)
    PROVE  IInv'
<1> DEFINE n == Liked(Edited(row[f], x), vote'[f], like)
           V == IF x = Keep THEN {} ELSE {VersionOf(row[f])}
           W == IF x = Keep THEN {} ELSE {x}
<1>1. /\ row[f] \in Row /\ Earned(f, VersionOf(row[f]))
      /\ vote \in [Floors -> [Users -> {-1, 0, 1}]]
      /\ approved \subseteq Floors \X (Texts \cup {Notice})
      /\ f \notin overwritten => CountsOK(row[f], vote[f])
  BY OneFloor
<1>2. /\ Edited(row[f], x) \in Row
      /\ Earned(f, VersionOf(Edited(row[f], x)))
      /\ Edited(row[f], x).exists = row[f].exists
      /\ Edited(row[f], x).like = row[f].like
      /\ Edited(row[f], x).dislike = row[f].dislike
      /\ x # Keep => Edited(row[f], x).text = x
      /\ x = Keep => Edited(row[f], x) = row[f]
  <2>1. PICK v \in Version : TRUE
    BY NoRowType
  <2>2. Edited(row[f], x) \in Row
    BY <1>1, <2>1, RowTypes
  <2> QED
    BY <1>1, <2>2, EditedEarned
<1>3. /\ VersionOf(n) = VersionOf(Edited(row[f], x))
      /\ n.exists = row[f].exists
      /\ n.text = Edited(row[f], x).text
      /\ n.dislike = row[f].dislike
  BY <1>2, LikedKeeps
<1>4. n \in Row
  <2>1. PICK v \in Version : TRUE
    BY NoRowType
  <2> QED
    BY <1>2, <2>1, RowTypes
<1>5. row' = [row EXCEPT ![f] = n]
  BY DEF ModifyFloor
<1>6. history' = [history EXCEPT ![f] = @ \cup V]
  BY DEF ModifyFloor, Backup, IInv, TypeOK
<1>7. written' = [written EXCEPT ![f] = @ \cup W]
  BY DEF ModifyFloor, IInv, TypeOK
<1>8. /\ UNCHANGED <<restore, overwritten, approved>>
      /\ row[f].exists
  BY DEF ModifyFloor
<1>9. /\ vote' \in [Floors -> [Users -> {-1, 0, 1}]]
      /\ \A g \in Floors \ {f} : vote'[g] = vote[g]
      /\ like = Keep => vote' = vote
  BY <1>1, TextsAssumption DEF ModifyFloor
<1>10. n.like = IF like = Keep THEN row[f].like ELSE Count(vote'[f], 1)
  <2> DEFINE e == Edited(row[f], x)
  <2>1. CASE like = Keep
    BY <1>2, <2>1 DEF Liked
  <2>2. CASE like # Keep
    <3> DEFINE c == Count(vote'[f], 1)
    <3>1. n = [e EXCEPT !.like = c]
      BY <2>2 DEF Liked
    <3>2. e \in Row
      BY <1>2
    <3> HIDE DEF n, c, e
    <3> QED
      BY <2>2, <3>1, <3>2 DEF Row, c
  <2> QED
    BY <2>1, <2>2
<1>11. EarnedLater(f, VersionOf(n)) /\ \A v \in V : EarnedLater(f, v)
  BY <1>1, <1>2, <1>3, <1>8, StaysEarned
<1>12. V \in SUBSET Version /\ W \in SUBSET Texts
  BY <1>1, VersionType
<1>13. (W \cup {row[f].text}) \cap Texts \subseteq {v.text : v \in V} \cup {n.text}
  BY <1>2, <1>3 DEF VersionOf
<1> HIDE DEF n, V, W
<1>14. f \notin overwritten => CountsOK(n, vote'[f])
  <2> SUFFICES ASSUME f \notin overwritten PROVE CountsOK(n, vote'[f])
    OBVIOUS
  <2>1. /\ row[f].like = Count(vote[f], 1)
        /\ row[f].dislike >= Count(vote[f], -1)
    BY <1>1 DEF CountsOK
  <2>2. n.like = Count(vote'[f], 1)
    BY <1>9, <1>10, <2>1
  <2>3. \A u \in Users : vote'[f][u] = -1 => vote[f][u] = -1
    <3>1. CASE like = Keep
      BY <1>9, <3>1
    <3>2. CASE like # Keep
      <4>1. /\ like[1] \in Users /\ like[2] \in {0, 1}
            /\ vote'[f] = [vote[f] EXCEPT ![like[1]] = like[2]]
        BY <1>1, <3>2 DEF ModifyFloor
      <4> QED
        BY <1>1, <4>1
    <3> QED
      BY <3>1, <3>2
  <2>4. Count(vote'[f], -1) <= Count(vote[f], -1)
    BY <2>3, CountMonotone
  <2>5. /\ Count(vote'[f], -1) \in Nat /\ Count(vote[f], -1) \in Nat
        /\ row[f].dislike \in Nat
    BY <1>1, CountType DEF Row
  <2>6. n.dislike >= Count(vote'[f], -1)
    BY <1>3, <2>1, <2>4, <2>5
  <2> QED
    BY <2>2, <2>6 DEF CountsOK
<1> QED
  BY <1>1, <1>3, <1>4, <1>5, <1>6, <1>7, <1>8, <1>9, <1>11, <1>12, <1>13, <1>14,
     RowStep

LEMMA ModifyFloorLikeStep ==
    ASSUME IInv, NEW f \in Floors, NEW u \in Users, NEW data \in {-1, 0, 1},
           ModifyFloorLike(f, u, data)
    PROVE  IInv'
<1> DEFINE likes == Count(vote'[f], 1)
           dislikes == Count(vote'[f], -1)
           n == [row[f] EXCEPT !.like = likes, !.dislike = dislikes]
<1>1. /\ row[f] \in Row /\ Earned(f, VersionOf(row[f]))
      /\ vote \in [Floors -> [Users -> {-1, 0, 1}]]
      /\ approved \subseteq Floors \X (Texts \cup {Notice})
  BY OneFloor
<1>2. /\ vote' \in [Floors -> [Users -> {-1, 0, 1}]]
      /\ \A g \in Floors \ {f} : vote'[g] = vote[g]
  BY <1>1 DEF ModifyFloorLike
<1>3. row' = [row EXCEPT ![f] = n]
  BY DEF ModifyFloorLike, IInv, TypeOK
<1>4. likes \in Nat /\ dislikes \in Nat
  BY CountType
<1> HIDE DEF likes, dislikes
<1>5. /\ n \in Row /\ n.exists = row[f].exists /\ n.text = row[f].text
      /\ n.like = likes /\ n.dislike = dislikes /\ VersionOf(n) = VersionOf(row[f])
  BY <1>1, <1>4 DEF Row, VersionOf
<1> HIDE DEF n
<1>6. /\ UNCHANGED <<restore, overwritten, approved>>
      /\ row[f].exists
      /\ history' = [history EXCEPT ![f] = @ \cup {}]
      /\ written' = [written EXCEPT ![f] = @ \cup {}]
  BY DEF ModifyFloorLike, IInv, TypeOK
<1>7. EarnedLater(f, VersionOf(n))
  BY <1>1, <1>5, <1>6, StaysEarned
<1>8. /\ {} \in SUBSET Version /\ {} \in SUBSET Texts
      /\ \A v \in {} : EarnedLater(f, v)
      /\ ({} \cup {row[f].text}) \cap Texts \subseteq {v.text : v \in {}} \cup {n.text}
  BY <1>5
<1>9. f \notin overwritten => CountsOK(n, vote'[f])
  <2>1. n.like = Count(vote'[f], 1) /\ n.dislike = Count(vote'[f], -1)
    BY <1>5 DEF likes, dislikes
  <2>2. Count(vote'[f], -1) \in Nat
    BY CountType
  <2> QED
    BY <2>1, <2>2 DEF CountsOK
<1> QED
  BY <1>1, <1>2, <1>3, <1>5, <1>6, <1>7, <1>8, <1>9, RowStep

LEMMA DeleteFloorStep ==
    ASSUME IInv, NEW f \in Floors, DeleteFloor(f)
    PROVE  IInv'
<1> DEFINE n == Deleted(row[f])
           V == {VersionOf(row[f])}
<1>1. /\ row[f] \in Row /\ Earned(f, VersionOf(row[f]))
      /\ vote \in [Floors -> [Users -> {-1, 0, 1}]]
      /\ approved \subseteq Floors \X (Texts \cup {Notice})
      /\ f \notin overwritten => CountsOK(row[f], vote[f])
  BY OneFloor
<1>2. /\ n \in Row /\ Earned(f, VersionOf(n)) /\ n.like = row[f].like /\ n.dislike = row[f].dislike
      /\ n.exists = row[f].exists
  BY <1>1, DeletedEarned DEF Deleted, Row
<1>3. /\ row' = [row EXCEPT ![f] = n]
      /\ history' = [history EXCEPT ![f] = @ \cup V]
      /\ written' = [written EXCEPT ![f] = @ \cup {}]
      /\ UNCHANGED <<restore, overwritten, approved, vote>>
      /\ row[f].exists
  BY DEF DeleteFloor, Backup, IInv, TypeOK
<1>4. EarnedLater(f, VersionOf(n)) /\ \A v \in V : EarnedLater(f, v)
  BY <1>1, <1>2, <1>3, StaysEarned
<1>5. /\ V \in SUBSET Version /\ {} \in SUBSET Texts
      /\ ({} \cup {row[f].text}) \cap Texts \subseteq {v.text : v \in V} \cup {n.text}
  BY <1>1, VersionType DEF VersionOf
<1>6. f \notin overwritten => CountsOK(n, vote'[f])
  BY <1>1, <1>2, <1>3 DEF CountsOK
<1> HIDE DEF n, V
<1> QED
  BY <1>1, <1>2, <1>3, <1>4, <1>5, <1>6, RowStep

LEMMA ApproveStep ==
    ASSUME IInv, NEW f \in Floors, Approve(f)
    PROVE  IInv'
<1> DEFINE n == [row[f] EXCEPT !.actual = "false"]
<1>1. /\ row[f] \in Row /\ Earned(f, VersionOf(row[f]))
      /\ vote \in [Floors -> [Users -> {-1, 0, 1}]]
      /\ approved \subseteq Floors \X (Texts \cup {Notice})
      /\ f \notin overwritten => CountsOK(row[f], vote[f])
  BY OneFloor
<1>2. /\ row' = [row EXCEPT ![f] = n]
      /\ history' = [history EXCEPT ![f] = @ \cup {}]
      /\ written' = [written EXCEPT ![f] = @ \cup {}]
      /\ UNCHANGED <<restore, overwritten, vote>>
      /\ approved' = approved \cup {<<f, row[f].text>>}
      /\ row[f].exists
  BY DEF Approve, IInv, TypeOK
<1>3. /\ n \in Row /\ n.like = row[f].like /\ n.dislike = row[f].dislike /\ n.exists = row[f].exists
      /\ n.text = row[f].text /\ n.auto = row[f].auto
  BY <1>1 DEF Row, Marks
<1>4. EarnedLater(f, VersionOf(n))
  BY <1>1, <1>2, <1>3 DEF EarnedLater, Earned, VersionOf
<1>5. approved \subseteq approved' /\ approved' \subseteq Floors \X (Texts \cup {Notice})
  BY <1>1, <1>2 DEF Row
<1>6. /\ {} \in SUBSET Version /\ {} \in SUBSET Texts
      /\ \A v \in {} : EarnedLater(f, v)
      /\ ({} \cup {row[f].text}) \cap Texts \subseteq {v.text : v \in {}} \cup {n.text}
  BY <1>3
<1>7. f \notin overwritten => CountsOK(n, vote'[f])
  BY <1>1, <1>2, <1>3 DEF CountsOK
<1> HIDE DEF n
<1> QED
  BY <1>1, <1>2, <1>3, <1>4, <1>5, <1>6, <1>7, RowStep

LEMMA RejectStep ==
    ASSUME IInv, NEW f \in Floors, Reject(f)
    PROVE  IInv'
<1> DEFINE marked == [row[f] EXCEPT !.actual = "true"]
           n == Deleted(marked)
           V == {VersionOf(marked)}
<1>1. /\ row[f] \in Row /\ Earned(f, VersionOf(row[f]))
      /\ vote \in [Floors -> [Users -> {-1, 0, 1}]]
      /\ approved \subseteq Floors \X (Texts \cup {Notice})
      /\ f \notin overwritten => CountsOK(row[f], vote[f])
  BY OneFloor
<1>2. /\ row' = [row EXCEPT ![f] = n]
      /\ history' = [history EXCEPT ![f] = @ \cup V]
      /\ written' = [written EXCEPT ![f] = @ \cup {}]
      /\ UNCHANGED <<restore, overwritten, approved, vote>>
      /\ row[f].exists
  BY DEF Reject, Backup, IInv, TypeOK
<1>3. /\ marked \in Row
      /\ marked.like = row[f].like /\ marked.dislike = row[f].dislike
      /\ marked.exists = row[f].exists /\ marked.text = row[f].text
      /\ Earned(f, VersionOf(marked))
  BY <1>1 DEF Row, Marks, Earned, VersionOf
<1> HIDE DEF marked
<1>4. /\ n \in Row /\ Earned(f, VersionOf(n)) /\ n.like = row[f].like /\ n.dislike = row[f].dislike
      /\ n.exists = row[f].exists
  BY <1>3, DeletedEarned DEF Deleted, Row
<1>5. EarnedLater(f, VersionOf(n)) /\ \A v \in V : EarnedLater(f, v)
  BY <1>2, <1>3, <1>4, StaysEarned
<1>6. /\ V \in SUBSET Version /\ {} \in SUBSET Texts
      /\ ({} \cup {row[f].text}) \cap Texts \subseteq {v.text : v \in V} \cup {n.text}
  BY <1>3, VersionType DEF VersionOf
<1>7. f \notin overwritten => CountsOK(n, vote'[f])
  BY <1>1, <1>2, <1>4 DEF CountsOK
<1> HIDE DEF n, V
<1> QED
  BY <1>1, <1>2, <1>4, <1>5, <1>6, <1>7, RowStep

-----------------------------------------------------------------------------
(* The steps of a restore *)

\* Steps that leave the tables alone but may add a version preserve the
\* invariant when the version and the restore's locals are as they should be.
LEMMA RestoreStep ==
    ASSUME IInv, NEW r \in Restorers, NEW l, NEW g \in Floors,
           NEW V \in SUBSET Version,
           l \in [step : {"idle", "read", "backed_up"}, floor : Floors,
                 row : Row, version : Version],
           restore' = [restore EXCEPT ![r] = l],
           history' = [history EXCEPT ![g] = @ \cup V],
           UNCHANGED <<row, vote, approved, written, overwritten>>,
           \A v \in V : Earned(g, v),
           l.step # "idle" => l.row.exists /\ Earned(l.floor, VersionOf(l.row)),
           l.step = "backed_up" => /\ Earned(l.floor, l.version)
                                   /\ VersionOf(l.row) \in history'[l.floor]
    PROVE  IInv'
<1> USE DEF IInv
<1>1. /\ history \in [Floors -> SUBSET Version]
      /\ history'[g] = history[g] \cup V
      /\ \A f \in Floors : /\ history[f] \subseteq history'[f]
                          /\ f # g => history'[f] = history[f]
  BY DEF TypeOK
<1>2. TypeOK'
  BY <1>1 DEF TypeOK
<1>3. AbsentRows'
  BY DEF AbsentRows
<1>4. MarksEarned'
  <2>1. \A f \in Floors : \A v \in history'[f] : Earned(f, v)
    BY <1>1 DEF MarksEarned
  <2> QED
    BY <2>1 DEF MarksEarned, Earned, VersionOf
<1>5. RestoresOK'
  <2> SUFFICES ASSUME NEW s \in Restorers
               PROVE  RestoreOK(s)'
    BY DEF RestoresOK
  <2>1. restore'[s] = IF s = r THEN l ELSE restore[s]
    BY DEF TypeOK
  <2>2. CASE s = r
    BY <2>1, <2>2 DEF RestoreOK, Earned, VersionOf
  <2>3. CASE s # r
    <3>1. RestoreOK(s) /\ restore[s].floor \in Floors
      BY DEF RestoresOK, TypeOK
    <3> QED
      BY <1>1, <2>1, <2>3, <3>1 DEF RestoreOK, Earned, VersionOf
  <2> QED
    BY <2>2, <2>3
<1>6. HistoryComplete'
  BY <1>1 DEF HistoryComplete
<1>7. LikesCounted'
  BY DEF LikesCounted, CountsOK, Count
<1> QED
  BY <1>2, <1>3, <1>4, <1>5, <1>6, <1>7

\* The locals of a handler that is not restoring.
LEMMA IdleType ==
    /\ Idle \in [step : {"idle", "read", "backed_up"}, floor : Floors,
                row : Row, version : Version]
    /\ Idle.step = "idle"
<1>1. (CHOOSE f \in Floors : TRUE) \in Floors
  BY FloorsAssumption
<1> QED
  BY <1>1, NoRowType DEF Idle

LEMMA ReadFloorStep ==
    ASSUME IInv, NEW r \in Restorers, NEW f \in Floors, ReadFloor(r, f)
    PROVE  IInv'
<1> DEFINE l == [Idle EXCEPT !.step = "read", !.floor = f, !.row = row[f]]
<1>1. /\ row[f] \in Row /\ row[f].exists /\ Earned(f, VersionOf(row[f]))
  BY OneFloor DEF ReadFloor
<1>2. /\ l \in [step : {"idle", "read", "backed_up"}, floor : Floors,
                row : Row, version : Version]
      /\ l.step = "read" /\ l.floor = f /\ l.row = row[f]
  BY <1>1, IdleType
<1>3. restore' = [restore EXCEPT ![r] = l]
  BY DEF ReadFloor
<1>4. /\ history' = [history EXCEPT ![f] = @ \cup {}]
      /\ UNCHANGED <<row, vote, approved, written, overwritten>>
  BY DEF ReadFloor, IInv, TypeOK
<1> HIDE DEF l
<1>5. {} \in SUBSET Version /\ \A v \in {} : Earned(f, v)
  OBVIOUS
<1> QED
  BY <1>1, <1>2, <1>3, <1>4, <1>5, RestoreStep

LEMMA BackupFloorStep ==
    ASSUME IInv, NEW r \in Restorers, NEW v \in history[restore[r].floor],
           BackupFloor(r, v)
    PROVE  IInv'
<1> DEFINE l == [restore[r] EXCEPT !.step = "backed_up", !.version = v]
           g == restore[r].floor
           V == {VersionOf(restore[r].row)}
<1>1. /\ restore[r] \in [step : {"idle", "read", "backed_up"}, floor : Floors,
                         row : Row, version : Version]
      /\ g \in Floors /\ history[g] \subseteq Version
      /\ history \in [Floors -> SUBSET Version]
      /\ Earned(g, v)
      /\ restore[r].step = "read"
  BY DEF BackupFloor, IInv, TypeOK, MarksEarned
<1>2. restore[r].row.exists /\ Earned(g, VersionOf(restore[r].row))
  BY <1>1 DEF IInv, RestoresOK, RestoreOK
<1>3. /\ l \in [step : {"idle", "read", "backed_up"}, floor : Floors,
                row : Row, version : Version]
      /\ l.step = "backed_up" /\ l.floor = g /\ l.row = restore[r].row
      /\ l.version = v
  BY <1>1
<1>4. /\ restore' = [restore EXCEPT ![r] = l]
      /\ history' = [history EXCEPT ![g] = @ \cup V]
      /\ UNCHANGED <<row, vote, approved, written, overwritten>>
  BY <1>1 DEF BackupFloor, Backup, IInv, TypeOK
<1>5. /\ V \in SUBSET Version
      /\ \A w \in V : Earned(g, w)
      /\ VersionOf(l.row) \in history'[l.floor]
  BY <1>1, <1>2, <1>3, <1>4, VersionType
<1> HIDE DEF l, g, V
<1> QED
  BY <1>1, <1>2, <1>3, <1>4, <1>5, RestoreStep

LEMMA FailRestoreStep ==
    ASSUME IInv, NEW r \in Restorers, FailRestore(r)
    PROVE  IInv'
<1> DEFINE l == Idle
<1>1. PICK g \in Floors : TRUE
  BY FloorsAssumption
<1>2. /\ history' = [history EXCEPT ![g] = @ \cup {}]
      /\ restore' = [restore EXCEPT ![r] = l]
      /\ UNCHANGED <<row, vote, approved, written, overwritten>>
  BY DEF FailRestore, IInv, TypeOK
<1>3. {} \in SUBSET Version /\ \A v \in {} : Earned(g, v)
  OBVIOUS
<1>4. /\ l \in [step : {"idle", "read", "backed_up"}, floor : Floors,
                row : Row, version : Version]
      /\ l.step = "idle"
  BY IdleType
<1> HIDE DEF l
<1> QED
  BY <1>1, <1>2, <1>3, <1>4, RestoreStep

\* The row that was read is in the history, so its text is kept; the marks that
\* come back are those of the version.
LEMMA SaveFloorStep ==
    ASSUME IInv, NEW r \in Restorers, SaveFloor(r)
    PROVE  IInv'
<1> DEFINE f == restore[r].floor
           old == restore[r].row
           v == restore[r].version
           n == Restored(old, v)
<1>1. /\ f \in Floors /\ old \in Row /\ v \in Version
      /\ old.exists /\ Earned(f, v) /\ VersionOf(old) \in history[f]
  BY DEF SaveFloor, IInv, TypeOK, RestoresOK, RestoreOK
<1>2. /\ n \in Row /\ Earned(f, VersionOf(n)) /\ n.exists
      /\ n.like = old.like /\ n.dislike = old.dislike /\ n.text = v.text
  <2>1. PICK x \in Texts \cup {Keep} : TRUE
    OBVIOUS
  <2> QED
    BY <1>1, <2>1, RowTypes, RestoredEarned
<1>3. /\ row' = [row EXCEPT ![f] = n]
      /\ restore' = [restore EXCEPT ![r] = Idle]
      /\ UNCHANGED <<history, vote, approved, written>>
      /\ overwritten \subseteq overwritten'
      /\ overwritten' \subseteq overwritten \cup {f}
      /\ f \notin overwritten' => row[f] = old
  BY DEF SaveFloor
<1>4. /\ row \in [Floors -> Row] /\ restore \in [Restorers ->
            [step : {"idle", "read", "backed_up"}, floor : Floors,
             row : Row, version : Version]]
      /\ row'[f] = n /\ \A g \in Floors \ {f} : row'[g] = row[g]
  BY <1>1, <1>3 DEF IInv, TypeOK
<1> HIDE DEF f, old, v, n
<1> USE DEF IInv
<1>5. TypeOK'
  BY <1>1, <1>2, <1>3, <1>4, IdleType DEF TypeOK
<1>6. AbsentRows'
  BY <1>2, <1>4 DEF AbsentRows
<1>7. MarksEarned'
  <2>1. \A g \in Floors : Earned(g, VersionOf(row'[g]))
    BY <1>2, <1>4 DEF MarksEarned
  <2> QED
    BY <1>3, <2>1 DEF MarksEarned, Earned, VersionOf
<1>8. RestoresOK'
  <2> SUFFICES ASSUME NEW s \in Restorers
               PROVE  RestoreOK(s)'
    BY DEF RestoresOK
  <2>1. restore'[s] = IF s = r THEN Idle ELSE restore[s]
    BY <1>3, <1>4
  <2>2. CASE s = r
    BY <2>1, <2>2, IdleType DEF RestoreOK
  <2>3. CASE s # r
    BY <1>3, <2>1, <2>3 DEF RestoresOK, RestoreOK, Earned, VersionOf
  <2> QED
    BY <2>2, <2>3
<1>9. HistoryComplete'
  <2> SUFFICES ASSUME NEW g \in Floors, g \notin overwritten', NEW x \in written[g]
               PROVE  x \in {w.text : w \in history[g]} \cup {row'[g].text}
    BY <1>3 DEF HistoryComplete
  <2>1. x \in {w.text : w \in history[g]} \cup {row[g].text}
    BY <1>3 DEF HistoryComplete
  <2>2. CASE g # f
    BY <1>4, <2>1, <2>2
  <2>3. CASE g = f
    <3>1. row[f].text = VersionOf(old).text
      BY <1>3, <2>3 DEF VersionOf
    <3> QED
      BY <1>1, <2>1, <2>3, <3>1
  <2> QED
    BY <2>2, <2>3
<1>10. LikesCounted'
  <2> SUFFICES ASSUME NEW g \in Floors, g \notin overwritten'
               PROVE  CountsOK(row'[g], vote[g])
    BY <1>3 DEF LikesCounted, CountsOK, Count
  <2>1. CountsOK(row[g], vote[g])
    BY <1>3 DEF LikesCounted
  <2>2. CASE g # f
    BY <1>4, <2>1, <2>2
  <2>3. CASE g = f
    BY <1>2, <1>3, <1>4, <2>1, <2>3 DEF CountsOK
  <2> QED
    BY <2>2, <2>3
<1> QED
  BY <1>5, <1>6, <1>7, <1>8, <1>9, <1>10

-----------------------------------------------------------------------------
(* The specification *)

LEMMA InitIInv == Init => IInv
<1> SUFFICES ASSUME Init PROVE IInv
  OBVIOUS
<1> USE DEF Init
<1>1. TypeOK
  BY NoRowType, IdleType DEF TypeOK
<1>2. AbsentRows
  BY DEF AbsentRows
<1>3. MarksEarned
  BY DEF MarksEarned, Earned, VersionOf, NoRow
<1>4. RestoresOK
  BY IdleType DEF RestoresOK, RestoreOK
<1>5. HistoryComplete
  BY DEF HistoryComplete
<1>6. LikesCounted
  <2>1. \A f \in Floors : {u \in Users : vote[f][u] = 1} = {}
    OBVIOUS
  <2>2. \A f \in Floors : {u \in Users : vote[f][u] = -1} = {}
    OBVIOUS
  <2>3. \A f \in Floors : Count(vote[f], 1) = 0 /\ Count(vote[f], -1) = 0
    BY <2>1, <2>2, FS_EmptySet DEF Count
  <2>4. NoRow.like = 0 /\ NoRow.dislike = 0
    BY DEF NoRow
  <2> HIDE DEF Init
  <2>5. \A f \in Floors : row[f] = NoRow
    BY DEF Init
  <2> QED
    BY <2>3, <2>4, <2>5 DEF LikesCounted, CountsOK
<1> QED
  BY <1>1, <1>2, <1>3, <1>4, <1>5, <1>6 DEF IInv

LEMMA NextIInv == IInv /\ [Next]_vars => IInv'
<1> SUFFICES ASSUME IInv, [Next]_vars PROVE IInv'
  OBVIOUS
<1>1. CASE UNCHANGED vars
  BY <1>1 DEF vars, IInv, TypeOK, AbsentRows, MarksEarned, Earned, VersionOf,
              RestoresOK, RestoreOK, HistoryComplete, LikesCounted, CountsOK, Count
<1>2. ASSUME NEW f \in Floors, NEW x \in Texts, CreateFloor(f, x)
      PROVE  IInv'
  BY <1>2, CreateFloorStep
<1>3. ASSUME NEW f \in Floors, NEW x \in Texts \cup {Keep},
             NEW like \in Users \X {0, 1} \cup {Keep}, ModifyFloor(f, x, like)
      PROVE  IInv'
  BY <1>3, ModifyFloorStep
<1>4. ASSUME NEW f \in Floors, NEW u \in Users, NEW data \in {-1, 0, 1},
             ModifyFloorLike(f, u, data)
      PROVE  IInv'
  BY <1>4, ModifyFloorLikeStep
<1>5. ASSUME NEW f \in Floors, DeleteFloor(f) \/ Approve(f) \/ Reject(f)
      PROVE  IInv'
  BY <1>5, DeleteFloorStep, ApproveStep, RejectStep
<1>6. ASSUME NEW r \in Restorers, Restore(r)
      PROVE  IInv'
  BY <1>6, ReadFloorStep, BackupFloorStep, SaveFloorStep, FailRestoreStep
     DEF Restore
<1> QED
  BY <1>1, <1>2, <1>3, <1>4, <1>5, <1>6 DEF Next

\* The invariant of RestoreFloor's race with every other writer of a floor.
THEOREM Invariance == Spec => []IInv
BY InitIInv, NextIInv, PTL DEF Spec

\* Rows, versions, votes and the locals of RestoreFloor keep their types.
THEOREM TypeCorrect == Spec => []TypeOK
<1>1. IInv => TypeOK
  BY DEF IInv
<1> QED
  BY <1>1, Invariance, PTL

\* A mark never stands beside a text it was not given for, whatever is edited,
\* rejected and restored.
THEOREM MarksBelong == Spec => []MarksEarned
<1>1. IInv => MarksEarned
  BY DEF IInv
<1> QED
  BY <1>1, Invariance, PTL

\* No text is shown that the check stopped and no admin approved.
THEOREM Checked == Spec => []ShownTextChecked
<1>1. IInv => ShownTextChecked
  <2> SUFFICES ASSUME IInv, NEW f \in Floors, ~ Sensitive(row[f]),
                      row[f].text \in Suspect
               PROVE  <<f, row[f].text>> \in approved
    BY DEF ShownTextChecked
  <2>1. Earned(f, VersionOf(row[f])) /\ row[f] \in Row
    BY OneFloor
  <2> QED
    BY <2>1, TextsAssumption DEF Earned, VersionOf, Sensitive, Row, Marks
<1> QED
  BY <1>1, Invariance, PTL

\* Only a restore that saved over a later change loses a text of a floor.
THEOREM NothingLost == Spec => []HistoryComplete
<1>1. IInv => HistoryComplete
  BY DEF IInv
<1> QED
  BY <1>1, Invariance, PTL

\* Only such a restore makes the like number differ from the likes.
THEOREM LikesCorrect == Spec => []LikesCounted
<1>1. IInv => LikesCounted
  BY DEF IInv
<1> QED
  BY <1>1, Invariance, PTL
=============================================================================
