--------------------------- MODULE PostingProofs ---------------------------
(* Proofs that the write path of Posting keeps its promises for every value *)
(* of the constants.                                                        *)
EXTENDS Posting, SequenceTheorems, TLAPS

-----------------------------------------------------------------------------
(* Types and locals *)

\* A handler whose locals become a well-formed record q keeps all locals
\* well-formed.
LEMMA SetLocals ==
    ASSUME TypeOK, LocalsOK, NEW r \in Requests, NEW q \in Request, LocalOK(q),
           req' = [req EXCEPT ![r] = q]
    PROVE  req' \in [Requests -> Request] /\ LocalsOK'
  BY DEF TypeOK, LocalsOK

\* The locals of an empty slot are well-formed.
LEMMA IdleOK == Idle \in Request /\ LocalOK(Idle)
  BY DEF Idle, Request, Steps, LocalOK

\* Giving up locks keeps the lock tables well-typed.
LEMMA ReleasedType ==
    ASSUME NEW S, NEW lock \in [Holes -> S \cup {None}], NEW o
    PROVE  Released(lock, o) \in [Holes -> S \cup {None}]
  BY DEF Released

\* Writing one well-typed row keeps the table hole well-typed.
LEMMA SetRow ==
    ASSUME hole \in [Holes -> HoleRow], NEW h \in Holes, NEW row \in HoleRow,
           hole' = [hole EXCEPT ![h] = row]
    PROVE  hole' \in [Holes -> HoleRow]
  OBVIOUS

\* A reply turns a well-typed hole row into a well-typed one, and touches only
\* reply and updated_at.
LEMMA RepliedType ==
    ASSUME NEW row \in HoleRow, NEW n \in Nat
    PROVE  /\ Replied(row, n) \in HoleRow
           /\ Replied(row, n).reply = n
           /\ Replied(row, n).state = row.state
           /\ Replied(row, n).division = row.division
<1>1. (IF row.frozen THEN row.stale ELSE FALSE) \in BOOLEAN
    BY DEF HoleRow
<1> QED
    BY <1>1 DEF Replied, HoleRow

\* Each handler step writes rows and locals of the declared types (CreateFloor
\* and floor.Create).
LEMMA RequestType ==
    ASSUME TypeOK, LocalsOK, NEW r \in Requests, RequestStep(r)
    PROVE  TypeOK' /\ LocalsOK'
<1> USE RolesAssumption, NamesAssumption, LockAssumption
<1>t. /\ req[r] \in Request /\ LocalOK(req[r])
      /\ hole \in [Holes -> HoleRow]
      /\ anonyname \in [Holes -> [Users -> Names \cup {None}]]
    BY DEF TypeOK, LocalsOK
<1>1. ASSUME NEW u \in Users, NEW h \in Holes, CheckHole(r, u, h)
      PROVE  TypeOK' /\ LocalsOK'
  <2> DEFINE q == [pc |-> "checked", user |-> u, hole |-> h, name |-> None,
                   fresh |-> FALSE, ranking |-> 0]
  <2>1. q \in Request /\ LocalOK(q)
      BY DEF Request, Steps, LocalOK
  <2>2. req' = [req EXCEPT ![r] = q]
      BY <1>1 DEF CheckHole
  <2>3. req' \in [Requests -> Request] /\ LocalsOK'
      BY <2>1, <2>2, SetLocals
  <2> QED
      BY <2>3, <1>1 DEF CheckHole, TypeOK, locks
<1>2. ASSUME FindAnonyname(r)
      PROVE  TypeOK' /\ LocalsOK'
  <2> DEFINE n == anonyname[req[r].hole][req[r].user]
             q == [req[r] EXCEPT !.pc = IF n = None THEN "unnamed" ELSE "named",
                                 !.name = n]
  <2>1. req[r].hole \in Holes /\ req[r].user \in Users /\ req[r].fresh = FALSE
      BY <1>2, <1>t DEF FindAnonyname, LocalOK, Request
  <2>2. n \in Names \cup {None}
      BY <2>1, <1>t
  <2>3. q \in Request /\ LocalOK(q)
      BY <2>1, <2>2, <1>t DEF Request, Steps, LocalOK
  <2>4. req' = [req EXCEPT ![r] = q]
      BY <1>2 DEF FindAnonyname
  <2>5. req' \in [Requests -> Request] /\ LocalsOK'
      BY <2>3, <2>4, SetLocals
  <2> QED
      BY <2>5, <1>2 DEF FindAnonyname, TypeOK, locks
<1>3. ASSUME GenerateAnonyname(r)
      PROVE  TypeOK' /\ LocalsOK'
  <2>1. CASE NameExists(r)
    <3>1. req' = [req EXCEPT ![r] = Idle]
        BY <2>1, <1>3 DEF GenerateAnonyname
    <3>2. req' \in [Requests -> Request] /\ LocalsOK'
        BY <3>1, IdleOK, SetLocals
    <3> QED
        BY <3>2, <2>1, <1>3 DEF GenerateAnonyname, TypeOK
  <2>2. CASE ~ NameExists(r)
    <3>1. PICK n \in GenerateName(TakenNames(req[r].hole)) :
             /\ req' = [req EXCEPT ![r] = [@ EXCEPT !.pc = "named", !.name = n,
                                                    !.fresh = TRUE]]
             /\ nameLock' = [nameLock EXCEPT ![req[r].hole] = r]
        BY <2>2, <1>3 DEF GenerateAnonyname
    <3> DEFINE q == [req[r] EXCEPT !.pc = "named", !.name = n, !.fresh = TRUE]
    <3>2. n \in Names
        BY <3>1 DEF GenerateName, Names
    <3>3. req[r].pc = "unnamed"
        BY <1>3 DEF GenerateAnonyname
    <3>4. q \in Request /\ LocalOK(q)
        BY <3>2, <3>3, <1>t DEF Request, Steps, LocalOK
    <3>5. req' = [req EXCEPT ![r] = q]
        BY <3>1
    <3>6. req' \in [Requests -> Request] /\ LocalsOK'
        BY <3>4, <3>5, SetLocals
    <3>7. nameLock' \in [Holes -> Requests \cup {None}]
        BY <3>1 DEF TypeOK
    <3> QED
        BY <3>6, <3>7, <1>3 DEF GenerateAnonyname, TypeOK
  <2> QED
      BY <2>1, <2>2
<1>4. ASSUME Rollback(r)
      PROVE  TypeOK' /\ LocalsOK'
  <2>1. req' \in [Requests -> Request] /\ LocalsOK'
      BY <1>4, IdleOK, SetLocals DEF Rollback
  <2>2. holeLock \in [Holes -> (Requests \cup {Purger}) \cup {None}]
      BY DEF TypeOK
  <2>3. holeLock' \in [Holes -> (Requests \cup {Purger}) \cup {None}]
      BY <2>2, <1>4, ReleasedType DEF Rollback
  <2>4. nameLock' \in [Holes -> Requests \cup {None}]
      BY <1>4, ReleasedType DEF Rollback, TypeOK
  <2> QED
      BY <2>1, <2>3, <2>4, <1>4 DEF Rollback, TypeOK
<1>5. ASSUME LockHole(r)
      PROVE  TypeOK' /\ LocalsOK'
  <2>1. CASE ~ Live(req[r].hole)
      BY <2>1, <1>4, <1>5 DEF LockHole
  <2>2. CASE Live(req[r].hole)
    <3> DEFINE q == [req[r] EXCEPT !.pc = "locked",
                                   !.ranking = hole[req[r].hole].reply + 1]
    <3>1. req[r].pc = "named" /\ req[r].hole \in Holes
        BY <1>5, <1>t DEF LockHole, LocalOK
    <3>2. hole[req[r].hole].reply \in Nat
        BY <3>1, <1>t DEF HoleRow
    <3>a. hole[req[r].hole].reply + 1 \in Nat
        BY <3>2
    <3>b. /\ q \in Request
          /\ q.pc = "locked" /\ q.user = req[r].user /\ q.hole = req[r].hole
          /\ q.name = req[r].name
        BY <3>a, <1>t DEF Request, Steps
    <3>3. q \in Request /\ LocalOK(q)
        BY <3>1, <3>b, <1>t DEF LocalOK
    <3>4. req' = [req EXCEPT ![r] = q]
        BY <2>2, <1>5 DEF LockHole
    <3>5. req' \in [Requests -> Request] /\ LocalsOK'
        BY <3>3, <3>4, SetLocals
    <3>6. holeLock' = [holeLock EXCEPT ![req[r].hole] = r]
        BY <2>2, <1>5 DEF LockHole
    <3>7. holeLock' \in [Holes -> Requests \cup {Purger, None}]
        BY <3>6 DEF TypeOK
    <3> QED
        BY <3>5, <3>7, <2>2, <1>5 DEF LockHole, TypeOK
  <2> QED
      BY <2>1, <2>2
<1>6. ASSUME InsertFloor(r)
      PROVE  TypeOK' /\ LocalsOK'
  <2>1. CASE RankingTaken(r)
      BY <2>1, <1>4, <1>6 DEF InsertFloor
  <2>2. CASE ~ RankingTaken(r)
    <3> DEFINE h == req[r].hole
               f == [hole |-> h, ranking |-> req[r].ranking,
                     user |-> req[r].user, name |-> req[r].name,
                     deleted |-> FALSE]
               row == Replied(hole[h], req[r].ranking)
    <3>1. /\ h \in Holes /\ req[r].user \in Users /\ req[r].name \in Names
          /\ req[r].ranking \in Nat
        BY <1>6, <1>t DEF InsertFloor, LocalOK, Request
    <3>2. f \in FloorRow
        BY <3>1 DEF FloorRow
    <3>3. /\ floor' = floor \cup {f}
          /\ hole' = [hole EXCEPT ![h] = row]
          /\ anonyname' = IF req[r].fresh
                          THEN [anonyname EXCEPT ![h][req[r].user] = req[r].name]
                          ELSE anonyname
          /\ holeLock' = Released(holeLock, r)
          /\ nameLock' = Released(nameLock, r)
          /\ req' = [req EXCEPT ![r] = Idle]
          /\ purging' = purging
        BY <2>2, <1>6 DEF InsertFloor
    <3>4. floor' \subseteq FloorRow
        BY <3>2, <3>3 DEF TypeOK
    <3>5. row \in HoleRow
        BY <3>1, <1>t, RepliedType
    <3>6. hole' \in [Holes -> HoleRow]
        BY <3>1, <3>3, <3>5, <1>t, SetRow
    <3>7. anonyname' \in [Holes -> [Users -> Names \cup {None}]]
        BY <3>1, <3>3, <1>t
    <3>8. req' \in [Requests -> Request] /\ LocalsOK'
        BY <3>3, IdleOK, SetLocals
    <3>9. holeLock' \in [Holes -> (Requests \cup {Purger}) \cup {None}]
      <4>1. holeLock \in [Holes -> (Requests \cup {Purger}) \cup {None}]
          BY DEF TypeOK
      <4> QED
          BY <4>1, <3>3, ReleasedType
    <3>10. nameLock' \in [Holes -> Requests \cup {None}]
        BY <3>3, ReleasedType DEF TypeOK
    <3> QED
        BY <3>3, <3>4, <3>6, <3>7, <3>8, <3>9, <3>10 DEF TypeOK
  <2> QED
      BY <2>1, <2>2
<1> QED
    BY <1>1, <1>2, <1>3, <1>4, <1>5, <1>6 DEF RequestStep, Progress, Fail

\* Creating a hole writes one well-typed row into each of the three tables.
LEMMA CreateType ==
    ASSUME TypeOK, LocalsOK, NEW h \in Holes, NEW u \in Users, CreateHole(u, h)
    PROVE  TypeOK' /\ LocalsOK'
<1>1. PICK d \in Divisions \ BanDivision[u], n \in AnonyNames :
         /\ hole' = [hole EXCEPT ![h] = [@ EXCEPT !.state = "live", !.owner = u,
                                                  !.division = d]]
         /\ anonyname' = [anonyname EXCEPT ![h] =
                             [x \in Users |-> IF x = u THEN n ELSE None]]
         /\ floor' = floor \cup {[hole |-> h, ranking |-> 0, user |-> u,
                                  name |-> n, deleted |-> FALSE]}
    BY DEF CreateHole
<1> DEFINE row == [hole[h] EXCEPT !.state = "live", !.owner = u, !.division = d]
<1>2. hole \in [Holes -> HoleRow] /\ hole[h] \in HoleRow
    BY DEF TypeOK
<1>3. row \in HoleRow
    BY <1>2 DEF HoleRow
<1>4. hole' = [hole EXCEPT ![h] = row]
    BY <1>1
<1>5. hole' \in [Holes -> HoleRow]
    BY <1>2, <1>3, <1>4, SetRow
<1>6. anonyname' \in [Holes -> [Users -> Names \cup {None}]]
    BY <1>1 DEF TypeOK, Names
<1>7. [hole |-> h, ranking |-> 0, user |-> u, name |-> n, deleted |-> FALSE]
        \in FloorRow
    BY DEF FloorRow, Names
<1>8. floor' \subseteq FloorRow
    BY <1>1, <1>7 DEF TypeOK
<1> QED
    BY <1>5, <1>6, <1>8 DEF CreateHole, TypeOK, LocalsOK, locks

\* A moderation step or the clock rewrites one hole row that exists and is not
\* locked by a handler; reply, and whether the hole exists, stay as they are.
LEMMA ModerationRow ==
    ASSUME TypeOK, NEW h \in Holes, Moderation(h) \/ Age(h)
    PROVE  /\ Live(h)
           /\ Moderation(h) => holeLock[h] = None /\ nameLock[h] = None
           /\ \E row \in HoleRow :
                 /\ hole' = [hole EXCEPT ![h] = row]
                 /\ row.reply = hole[h].reply
                 /\ row.state \in {"live", "deleted"}
                 /\ Age(h) => /\ row.state = "live"
                             /\ row.division = hole[h].division
                             /\ row.stale = TRUE
           /\ UNCHANGED <<floor, anonyname, holeLock, nameLock, req, purging>>
<1>1. hole[h] \in HoleRow
    BY DEF TypeOK
<1>2. ASSUME ModifyHole(h)
      PROVE  \E row \in HoleRow :
                 /\ hole' = [hole EXCEPT ![h] = row]
                 /\ row.reply = hole[h].reply
                 /\ row.state = hole[h].state
  <2>1. PICK d \in Divisions, hidden, locked, frozen \in BOOLEAN :
           hole' = [hole EXCEPT ![h] =
                      [@ EXCEPT !.division = d, !.hidden = hidden,
                                !.locked = locked, !.frozen = frozen]]
      BY <1>2 DEF ModifyHole
  <2> DEFINE row == [hole[h] EXCEPT !.division = d, !.hidden = hidden,
                                    !.locked = locked, !.frozen = frozen]
  <2>2. /\ row \in HoleRow
        /\ row.reply = hole[h].reply
        /\ row.state = hole[h].state
      BY <1>1 DEF HoleRow
  <2>3. hole' = [hole EXCEPT ![h] = row]
      BY <2>1
  <2> QED
      BY <2>2, <2>3
<1>3. ASSUME HideHole(h)
      PROVE  \E row \in HoleRow :
                 /\ hole' = [hole EXCEPT ![h] = row]
                 /\ row.reply = hole[h].reply
                 /\ row.state = hole[h].state
  <2> DEFINE row == [hole[h] EXCEPT !.hidden = TRUE]
  <2>1. /\ row \in HoleRow
        /\ row.reply = hole[h].reply
        /\ row.state = hole[h].state
      BY <1>1 DEF HoleRow
  <2>2. hole' = [hole EXCEPT ![h] = row]
      BY <1>3 DEF HideHole
  <2> QED
      BY <2>1, <2>2
<1>4. ASSUME NEW u \in Users, DeleteHole(u, h)
      PROVE  \E row \in HoleRow :
                 /\ hole' = [hole EXCEPT ![h] = row]
                 /\ row.reply = hole[h].reply
                 /\ row.state = "deleted"
  <2> DEFINE row == [hole[h] EXCEPT !.state = "deleted"]
  <2>1. /\ row \in HoleRow
        /\ row.reply = hole[h].reply
        /\ row.state = "deleted"
      BY <1>1 DEF HoleRow
  <2>2. hole' = [hole EXCEPT ![h] = row]
      BY <1>4 DEF DeleteHole
  <2> QED
      BY <2>1, <2>2
<1>5. ASSUME NEW b \in BOOLEAN, hole' = [hole EXCEPT ![h].stale = b]
      PROVE  \E row \in HoleRow :
                 /\ hole' = [hole EXCEPT ![h] = row]
                 /\ row.reply = hole[h].reply
                 /\ row.state = hole[h].state
                 /\ row.division = hole[h].division
                 /\ row.stale = b
  <2> DEFINE row == [hole[h] EXCEPT !.stale = b]
  <2>1. /\ row \in HoleRow
        /\ row.reply = hole[h].reply
        /\ row.state = hole[h].state
        /\ row.division = hole[h].division
        /\ row.stale = b
      BY <1>1 DEF HoleRow
  <2>2. hole' = [hole EXCEPT ![h] = row]
      BY <1>5
  <2> QED
      BY <2>1, <2>2
<1>6. Age(h) => hole' = [hole EXCEPT ![h].stale = TRUE] /\ Live(h)
                /\ UNCHANGED <<floor, anonyname, holeLock, nameLock, req, purging>>
    BY DEF Age, locks
<1>7. ApproveFirstFloor(h) => hole' = [hole EXCEPT ![h].stale = FALSE]
    BY DEF ApproveFirstFloor
<1>8. Moderation(h) => /\ Live(h) /\ holeLock[h] = None /\ nameLock[h] = None
                       /\ UNCHANGED <<floor, anonyname, holeLock, nameLock, req, purging>>
    BY DEF Moderation, ModifyHole, HideHole, DeleteHole, ApproveFirstFloor,
           HoleLockFree, locks
<1>10. CASE Age(h)
    BY <1>5, <1>6, <1>8, <1>10 DEF Live
<1>11. CASE Moderation(h) /\ ~ Age(h)
    BY <1>2, <1>3, <1>4, <1>5, <1>7, <1>8, <1>11 DEF Live, Moderation
<1> QED
    BY <1>10, <1>11

\* Selecting and committing a purge keep the tables well-typed (purgeHole).
LEMMA PurgeType ==
    ASSUME TypeOK, LocalsOK, PurgeSelect \/ PurgeCommit \/ PurgeFail
    PROVE  TypeOK' /\ LocalsOK'
<1>1. CASE PurgeSelect
    BY <1>1 DEF PurgeSelect, PurgeTargets, TypeOK, LocalsOK
<1>l. Released(holeLock, Purger) \in [Holes -> Requests \cup {Purger, None}]
    BY DEF Released, TypeOK
<1>2. CASE PurgeCommit
  <2>1. \A f \in FloorRow : [f EXCEPT !.deleted = TRUE] \in FloorRow
      BY DEF FloorRow
  <2>2. floor' \subseteq FloorRow
      BY <2>1, <1>2 DEF PurgeCommit, TypeOK
  <2>3. \A row \in HoleRow : [row EXCEPT !.state = "deleted"] \in HoleRow
      BY DEF HoleRow
  <2>4. hole' \in [Holes -> HoleRow]
      BY <2>3, <1>2 DEF PurgeCommit, TypeOK
  <2> QED
      BY <2>2, <2>4, <1>2, <1>l DEF PurgeCommit, TypeOK, LocalsOK
<1>3. CASE PurgeFail
    BY <1>3, <1>l DEF PurgeFail, TypeOK, LocalsOK
<1> QED
    BY <1>1, <1>2, <1>3

\* Every step of the write path keeps rows and locals well-typed.
LEMMA TypeStep ==
    ASSUME TypeOK, LocalsOK, [Next]_vars
    PROVE  TypeOK' /\ LocalsOK'
<1>1. ASSUME NEW h \in Holes, Moderation(h) \/ Age(h)
      PROVE  TypeOK' /\ LocalsOK'
    BY <1>1, ModerationRow DEF TypeOK, LocalsOK
<1>2. CASE UNCHANGED vars
    BY <1>2 DEF vars, TypeOK, LocalsOK
<1> QED
    BY <1>1, <1>2, RequestType, CreateType, PurgeType DEF Next, HoleStep

\* Every row and local has its declared type in every reachable state.
THEOREM TypeCorrect == Spec => [](TypeOK /\ LocalsOK)
<1>1. Init => TypeOK /\ LocalsOK
  <2> SUFFICES ASSUME Init PROVE TypeOK /\ LocalsOK
      OBVIOUS
  <2>1. Idle \in Request /\ LocalOK(Idle)
      BY IdleOK
  <2> QED
      BY <2>1 DEF Init, TypeOK, LocalsOK, HoleRow, FloorRow
<1>2. (TypeOK /\ LocalsOK) /\ [Next]_vars => (TypeOK /\ LocalsOK)'
    BY TypeStep
<1> QED
    BY <1>1, <1>2, PTL DEF Spec

-----------------------------------------------------------------------------
(* The inductive invariant *)

\* A step that leaves the tables alone keeps what is true of the tables.
LEMMA TablesKept ==
    ASSUME TablesInv, UNCHANGED <<hole, floor, anonyname>>
    PROVE  TablesInv'
  BY DEF TablesInv, RankingsDense, RankingsUnique, NamesDistinct,
         OneNamePerUser, PurgeIsTotal, FloorsOf

\* A request that is neither r nor waits for r's locks sees nothing of a step
\* that rewrites r's locals only (the handlers' checks and name lookup).
LEMMA LocalsStep ==
    ASSUME IInv, NEW r \in Requests, NEW q \in Request,
           req' = [req EXCEPT ![r] = q],
           UNCHANGED <<hole, floor, anonyname, holeLock, nameLock, purging>>,
           q.pc # "locked",
           q.pc = "named" => /\ q.fresh = FALSE
                            /\ q.name = anonyname[q.hole][q.user],
           q.hole \in Holes => hole[q.hole].state # "absent"
    PROVE  HandlersInv' /\ TablesInv'
<1>1. TablesInv'
    BY TablesKept DEF IInv
<1>2. req'[r] = q /\ \A x \in Requests : x # r => req'[x] = req[x]
    BY DEF IInv, TypeOK
<1>3. ASSUME NEW x \in Requests
      PROVE  RowLock(x)' /\ NameOK(x)'
  <2>1. CASE x = r
      BY <2>1, <1>2 DEF RowLock, NameOK
  <2>2. CASE x # r
      BY <2>2, <1>2 DEF IInv, HandlersInv, RowLock, NameOK, Live, TakenNames
  <2> QED
      BY <2>1, <2>2
<1>4. PurgeInv'
    BY DEF IInv, HandlersInv, PurgeInv, PurgeTargets, Live
<1>5. AbsentInv'
    BY <1>2 DEF IInv, HandlersInv, AbsentInv
<1> QED
    BY <1>1, <1>3, <1>4, <1>5 DEF HandlersInv

\* The checks of CreateFloor keep the invariant: they write locals only.
LEMMA CheckInv ==
    ASSUME IInv, NEW r \in Requests, NEW u \in Users, NEW h \in Holes,
           CheckHole(r, u, h)
    PROVE  HandlersInv' /\ TablesInv'
<1> DEFINE q == [pc |-> "checked", user |-> u, hole |-> h, name |-> None,
                 fresh |-> FALSE, ranking |-> 0]
<1>1. q \in Request /\ q.pc = "checked" /\ q.hole = h
    BY DEF Request, Steps
<1>2. hole[h].state # "absent"
    BY DEF CheckHole, Visible, Live
<1>3. req' = [req EXCEPT ![r] = q]
    BY DEF CheckHole
<1>4. UNCHANGED <<hole, floor, anonyname, holeLock, nameLock, purging>>
    BY DEF CheckHole, locks
<1> QED
    BY <1>1, <1>2, <1>3, <1>4, LocalsStep

\* The unlocked name lookup keeps the invariant: a name found is committed, and
\* a committed name never changes.
LEMMA FindInv ==
    ASSUME IInv, NEW r \in Requests, FindAnonyname(r)
    PROVE  HandlersInv' /\ TablesInv'
<1> USE RolesAssumption, NamesAssumption
<1>t. /\ req[r] \in Request /\ LocalOK(req[r]) /\ req[r].pc = "checked"
      /\ anonyname \in [Holes -> [Users -> Names \cup {None}]]
    BY DEF IInv, TypeOK, LocalsOK, FindAnonyname
<1> DEFINE n == anonyname[req[r].hole][req[r].user]
           q == [req[r] EXCEPT !.pc = IF n = None THEN "unnamed" ELSE "named",
                               !.name = n]
<1>1. req[r].hole \in Holes /\ req[r].user \in Users /\ req[r].fresh = FALSE
    BY <1>t DEF LocalOK, Request
<1>2. n \in Names \cup {None}
    BY <1>1, <1>t
<1>3. /\ q \in Request /\ q.pc # "locked" /\ q.fresh = FALSE
      /\ q.name = n /\ q.hole = req[r].hole /\ q.user = req[r].user
    BY <1>1, <1>2, <1>t DEF Request, Steps
<1>4. req' = [req EXCEPT ![r] = q]
    BY DEF FindAnonyname
<1>5. UNCHANGED <<hole, floor, anonyname, holeLock, nameLock, purging>>
    BY DEF FindAnonyname, locks
<1>6. hole[q.hole].state # "absent"
    BY <1>1, <1>3 DEF IInv, HandlersInv, AbsentInv
<1> QED
    BY <1>3, <1>4, <1>5, <1>6, LocalsStep

\* Inserting a new name keeps the invariant: while its row is uncommitted no
\* other handler can lock the hole's names (FindOrGenerateAnonyname).
LEMMA GenerateInv ==
    ASSUME IInv, NEW r \in Requests, GenerateAnonyname(r)
    PROVE  HandlersInv' /\ TablesInv'
<1> USE RolesAssumption, NamesAssumption, LockAssumption
<1>t. /\ req[r] \in Request /\ LocalOK(req[r]) /\ req[r].pc = "unnamed"
      /\ req[r].hole \in Holes /\ req[r].user \in Users
    BY DEF IInv, TypeOK, LocalsOK, LocalOK, GenerateAnonyname
<1>1. CASE NameExists(r)
  <2>1. /\ req' = [req EXCEPT ![r] = Idle]
        /\ UNCHANGED <<hole, floor, anonyname, holeLock, nameLock, purging>>
      BY <1>1 DEF GenerateAnonyname
  <2>2. Idle \in Request /\ Idle.pc = "idle" /\ Idle.hole \notin Holes
      BY IdleOK DEF Idle
  <2> QED
      BY <2>1, <2>2, LocalsStep
<1>2. CASE ~ NameExists(r)
  <2> DEFINE h == req[r].hole
  <2>1. PICK n \in GenerateName(TakenNames(h)) :
           /\ req' = [req EXCEPT ![r] = [@ EXCEPT !.pc = "named", !.name = n,
                                                  !.fresh = TRUE]]
           /\ nameLock' = [nameLock EXCEPT ![h] = r]
      BY <1>2 DEF GenerateAnonyname
  <2> DEFINE q == [req[r] EXCEPT !.pc = "named", !.name = n, !.fresh = TRUE]
  <2>2. /\ q.pc = "named" /\ q.name = n /\ q.fresh = TRUE
        /\ q.hole = h /\ q.user = req[r].user
      BY <1>t DEF Request
  <2>3. req'[r] = q /\ \A x \in Requests : x # r => req'[x] = req[x]
      BY <2>1 DEF IInv, TypeOK
  <2>4. /\ UNCHANGED <<hole, floor, anonyname, holeLock, purging>>
        /\ nameLock[h] = None
      BY DEF GenerateAnonyname, NameLockFree
  <2>5. /\ nameLock'[h] = r
        /\ \A g \in Holes : g # h => nameLock'[g] = nameLock[g]
      BY <1>t, <2>1 DEF IInv, TypeOK
  <2>6. n \notin TakenNames(h) /\ anonyname[h][req[r].user] = None
      BY <1>2, <2>1 DEF GenerateName, NameExists
  <2>7. ASSUME NEW x \in Requests
        PROVE  RowLock(x)' /\ NameOK(x)'
    <3>1. CASE x = r
        BY <3>1, <2>2, <2>3, <2>4, <2>5, <2>6 DEF RowLock, NameOK, TakenNames
    <3>2. CASE x # r
      <4>1. RowLock(x)'
          BY <3>2, <2>3, <2>4 DEF IInv, HandlersInv, RowLock, Live
      <4>2. req[x].pc \in {"named", "locked"} => req[x].hole \in Holes
          BY DEF IInv, LocalsOK, LocalOK
      <4>3. NameOK(x)'
          BY <3>2, <4>2, <2>3, <2>4, <2>5
             DEF IInv, HandlersInv, NameOK, TakenNames
      <4> QED
          BY <4>1, <4>3
    <3> QED
        BY <3>1, <3>2
  <2>8. PurgeInv'
      BY <2>4 DEF IInv, HandlersInv, PurgeInv, PurgeTargets, Live
  <2>9. AbsentInv'
    <3>1. \A x \in Requests : req'[x].hole = req[x].hole
        BY <2>2, <2>3
    <3> QED
        BY <3>1, <2>4 DEF IInv, HandlersInv, AbsentInv
  <2>10. TablesInv'
      BY <2>4, TablesKept DEF IInv
  <2> QED
      BY <2>7, <2>8, <2>9, <2>10 DEF HandlersInv
<1> QED
    BY <1>1, <1>2

\* A rollback keeps the invariant: it gives up r's locks and nobody else's.
LEMMA RollbackInv ==
    ASSUME IInv, NEW r \in Requests, Rollback(r)
    PROVE  HandlersInv' /\ TablesInv'
<1> USE RolesAssumption, LockAssumption
<1>1. req'[r] = Idle /\ \A x \in Requests : x # r => req'[x] = req[x]
    BY DEF Rollback, IInv, TypeOK
<1>2. /\ UNCHANGED <<hole, floor, anonyname, purging>>
      /\ \A h \in Holes : holeLock[h] # r => holeLock'[h] = holeLock[h]
      /\ \A h \in Holes : nameLock[h] # r => nameLock'[h] = nameLock[h]
    BY DEF Rollback, Released
<1>3. ASSUME NEW x \in Requests
      PROVE  RowLock(x)' /\ NameOK(x)'
  <2>1. CASE x = r
      BY <2>1, <1>1 DEF RowLock, NameOK, Idle
  <2>2. CASE x # r
    <3>1. req[x].pc \in {"named", "locked"} => req[x].hole \in Holes
        BY DEF IInv, LocalsOK, LocalOK
    <3>2. RowLock(x)'
        BY <2>2, <3>1, <1>1, <1>2 DEF IInv, HandlersInv, RowLock, Live
    <3>3. NameOK(x)'
        BY <2>2, <3>1, <1>1, <1>2 DEF IInv, HandlersInv, NameOK, TakenNames
    <3> QED
        BY <3>2, <3>3
  <2> QED
      BY <2>1, <2>2
<1>4. PurgeInv'
    BY <1>2 DEF IInv, HandlersInv, PurgeInv, PurgeTargets, Live
<1>5. AbsentInv'
    BY <1>1, <1>2 DEF IInv, HandlersInv, AbsentInv, Idle
<1>6. TablesInv'
    BY <1>2, TablesKept DEF IInv
<1> QED
    BY <1>3, <1>4, <1>5, <1>6 DEF HandlersInv

\* Taking the row lock keeps the invariant: the ranking is read under the lock
\* it is going to be written under (floor.Create).
LEMMA LockInv ==
    ASSUME IInv, NEW r \in Requests, LockHole(r)
    PROVE  HandlersInv' /\ TablesInv'
<1> USE RolesAssumption, LockAssumption
<1> DEFINE h == req[r].hole
<1>t. /\ req[r] \in Request /\ LocalOK(req[r]) /\ req[r].pc = "named"
      /\ h \in Holes /\ hole[h].reply \in Nat
      /\ holeLock[h] \in {None, r}
    BY DEF IInv, TypeOK, LocalsOK, LocalOK, LockHole, HoleRow, HoleLockFree
<1>1. CASE ~ Live(h)
    BY <1>1, RollbackInv DEF LockHole
<1>2. CASE Live(h)
  <2>1. /\ holeLock' = [holeLock EXCEPT ![h] = r]
        /\ req' = [req EXCEPT ![r] = [@ EXCEPT !.pc = "locked",
                                              !.ranking = hole[h].reply + 1]]
        /\ UNCHANGED <<hole, floor, anonyname, nameLock, purging>>
      BY <1>2 DEF LockHole
  <2> DEFINE q == [req[r] EXCEPT !.pc = "locked", !.ranking = hole[h].reply + 1]
  <2>2. /\ q.pc = "locked" /\ q.ranking = hole[h].reply + 1
        /\ q.hole = h /\ q.user = req[r].user /\ q.name = req[r].name
        /\ q.fresh = req[r].fresh
      BY <1>t DEF Request
  <2>3. req'[r] = q /\ \A x \in Requests : x # r => req'[x] = req[x]
      BY <2>1 DEF IInv, TypeOK
  <2>4. /\ holeLock'[h] = r
        /\ \A g \in Holes : g # h => holeLock'[g] = holeLock[g]
      BY <1>t, <2>1 DEF IInv, TypeOK
  <2>5. ASSUME NEW x \in Requests
        PROVE  RowLock(x)' /\ NameOK(x)'
    <3>1. CASE x = r
      <4>1. RowLock(r)'
          BY <1>2, <2>1, <2>2, <2>3, <2>4 DEF RowLock, Live
      <4>2. NameOK(r)
          BY DEF IInv, HandlersInv
      <4>3. NameOK(r)'
          BY <4>2, <1>t, <2>1, <2>2, <2>3 DEF NameOK, TakenNames
      <4> QED
          BY <3>1, <4>1, <4>3
    <3>2. CASE x # r
      <4>1. req[x].pc = "locked" => req[x].hole \in Holes
          BY DEF IInv, LocalsOK, LocalOK
      <4>2. RowLock(x)'
          BY <1>t, <3>2, <4>1, <2>1, <2>3, <2>4
             DEF IInv, HandlersInv, RowLock, Live
      <4>3. NameOK(x)'
          BY <3>2, <2>1, <2>3 DEF IInv, HandlersInv, NameOK, TakenNames
      <4> QED
          BY <4>2, <4>3
    <3> QED
        BY <3>1, <3>2
  <2>6. PurgeInv'
      BY <1>t, <2>1, <2>4 DEF IInv, HandlersInv, PurgeInv, PurgeTargets, Live
  <2>7. AbsentInv'
    <3>1. \A x \in Requests : req'[x].hole = req[x].hole
        BY <2>2, <2>3
    <3> QED
        BY <3>1, <2>1 DEF IInv, HandlersInv, AbsentInv
  <2>8. TablesInv'
      BY <2>1, TablesKept DEF IInv
  <2> QED
      BY <2>5, <2>6, <2>7, <2>8 DEF HandlersInv
<1> QED
    BY <1>1, <1>2

\* What InsertFloor writes when the index accepts its row, in terms of the row
\* f it inserts.
LEMMA InsertEffect ==
    ASSUME IInv, NEW r \in Requests, InsertFloor(r), ~ RankingTaken(r)
    PROVE  LET h == req[r].hole
               u == req[r].user
               f == [hole |-> h, ranking |-> req[r].ranking, user |-> u,
                     name |-> req[r].name, deleted |-> FALSE]
           IN /\ h \in Holes /\ u \in Users /\ req[r].name \in Names
              /\ holeLock[h] = r /\ Live(h)
              /\ req[r].ranking = hole[h].reply + 1 /\ hole[h].reply \in Nat
              /\ f \in FloorRow /\ floor' = floor \cup {f}
              /\ hole'[h].state = "live" /\ hole'[h].reply = req[r].ranking
              /\ \A g \in Holes : g # h => hole'[g] = hole[g]
              /\ IF req[r].fresh
                 THEN /\ anonyname[h][u] = None
                      /\ req[r].name \notin TakenNames(h)
                      /\ nameLock[h] = r
                 ELSE anonyname[h][u] = req[r].name
              /\ anonyname'[h][u] = req[r].name
              /\ ~ req[r].fresh => anonyname' = anonyname
              /\ \A g \in Holes, v \in Users :
                    g # h \/ v # u => anonyname'[g][v] = anonyname[g][v]
              /\ req'[r] = Idle
              /\ \A x \in Requests : x # r => req'[x] = req[x]
              /\ \A g \in Holes : holeLock[g] # r => holeLock'[g] = holeLock[g]
              /\ \A g \in Holes : nameLock[g] # r => nameLock'[g] = nameLock[g]
              /\ UNCHANGED purging
<1> DEFINE h == req[r].hole
           u == req[r].user
           f == [hole |-> h, ranking |-> req[r].ranking, user |-> u,
                 name |-> req[r].name, deleted |-> FALSE]
<1>t. /\ req[r] \in Request /\ req[r].pc = "locked"
      /\ h \in Holes /\ u \in Users /\ req[r].name \in Names
      /\ hole[h] \in HoleRow /\ hole[h].reply \in Nat
      /\ req[r].ranking \in Nat
    BY DEF IInv, TypeOK, LocalsOK, LocalOK, InsertFloor, HoleRow, Request
<1>1. /\ holeLock[h] = r /\ Live(h) /\ req[r].ranking = hole[h].reply + 1
    BY <1>t DEF IInv, HandlersInv, RowLock
<1>2. NameOK(r)
    BY DEF IInv, HandlersInv
<1>3. /\ floor' = floor \cup {f}
      /\ hole' = [hole EXCEPT ![h] = Replied(hole[h], req[r].ranking)]
      /\ anonyname' = IF req[r].fresh
                      THEN [anonyname EXCEPT ![h][u] = req[r].name]
                      ELSE anonyname
      /\ holeLock' = Released(holeLock, r)
      /\ nameLock' = Released(nameLock, r)
      /\ req' = [req EXCEPT ![r] = Idle]
      /\ purging' = purging
    BY DEF InsertFloor
<1>4. f \in FloorRow
    BY <1>t DEF FloorRow
<1>5. /\ hole'[h].state = "live" /\ hole'[h].reply = req[r].ranking
      /\ \A g \in Holes : g # h => hole'[g] = hole[g]
    BY <1>t, <1>1, <1>3, RepliedType DEF IInv, TypeOK, Live
<1>6. IF req[r].fresh
      THEN /\ anonyname[h][u] = None
           /\ req[r].name \notin TakenNames(h)
           /\ nameLock[h] = r
      ELSE anonyname[h][u] = req[r].name
    BY <1>2, <1>t DEF NameOK
<1>7. /\ anonyname'[h][u] = req[r].name
      /\ \A g \in Holes, v \in Users :
            g # h \/ v # u => anonyname'[g][v] = anonyname[g][v]
    BY <1>t, <1>3, <1>6 DEF IInv, TypeOK
<1>8. req'[r] = Idle /\ \A x \in Requests : x # r => req'[x] = req[x]
    BY <1>3 DEF IInv, TypeOK
<1>9. /\ \A g \in Holes : holeLock[g] # r => holeLock'[g] = holeLock[g]
      /\ \A g \in Holes : nameLock[g] # r => nameLock'[g] = nameLock[g]
    BY <1>3 DEF Released
<1> QED
    BY <1>t, <1>1, <1>3, <1>4, <1>5, <1>6, <1>7, <1>8, <1>9

\* Inserting the floor, writing the hole and committing keep the invariant.
LEMMA InsertInv ==
    ASSUME IInv, NEW r \in Requests, InsertFloor(r)
    PROVE  HandlersInv' /\ TablesInv'
<1> USE RolesAssumption, NamesAssumption, LockAssumption
<1>1. CASE RankingTaken(r)
    BY <1>1, RollbackInv DEF InsertFloor
<1>2. CASE ~ RankingTaken(r)
  <2> DEFINE h == req[r].hole
             u == req[r].user
             n == req[r].name
             f == [hole |-> h, ranking |-> req[r].ranking, user |-> u,
                   name |-> n, deleted |-> FALSE]
  <2>1. /\ h \in Holes /\ u \in Users /\ n \in Names
        /\ holeLock[h] = r /\ Live(h)
        /\ req[r].ranking = hole[h].reply + 1 /\ hole[h].reply \in Nat
      BY <1>2, InsertEffect
  <2>2. f \in FloorRow /\ floor' = floor \cup {f}
      BY <1>2, InsertEffect
  <2>3. /\ hole'[h].state = "live" /\ hole'[h].reply = req[r].ranking
        /\ \A g \in Holes : g # h => hole'[g] = hole[g]
      BY <1>2, InsertEffect
  <2>4. IF req[r].fresh
        THEN /\ anonyname[h][u] = None /\ n \notin TakenNames(h)
             /\ nameLock[h] = r
        ELSE anonyname[h][u] = n
      BY <1>2, InsertEffect
  <2>5. /\ anonyname'[h][u] = n
        /\ ~ req[r].fresh => anonyname' = anonyname
        /\ \A g \in Holes, v \in Users :
              g # h \/ v # u => anonyname'[g][v] = anonyname[g][v]
      BY <1>2, InsertEffect
  <2>6. req'[r] = Idle /\ \A x \in Requests : x # r => req'[x] = req[x]
      BY <1>2, InsertEffect
  <2>7. /\ \A g \in Holes : holeLock[g] # r => holeLock'[g] = holeLock[g]
        /\ \A g \in Holes : nameLock[g] # r => nameLock'[g] = nameLock[g]
        /\ purging' = purging
      BY <1>2, InsertEffect
  <2>t. /\ floor \subseteq FloorRow /\ f.hole = h /\ f.user = u /\ f.name = n
        /\ f.ranking = hole[h].reply + 1 /\ f.deleted = FALSE
      BY <2>1 DEF IInv, TypeOK
  <2>8. ASSUME NEW x \in Requests
        PROVE  RowLock(x)' /\ NameOK(x)'
    <3>1. CASE x = r
        BY <3>1, <2>6 DEF RowLock, NameOK, Idle
    <3>2. CASE x # r
      <4>1. /\ RowLock(x) /\ NameOK(x) /\ req'[x] = req[x]
            /\ req[x].pc \in {"named", "locked"} =>
                 req[x].hole \in Holes /\ req[x].user \in Users
                 /\ req[x].name \in Names
          BY <3>2, <2>6 DEF IInv, HandlersInv, LocalsOK, LocalOK
      <4>2. RowLock(x)'
          BY <3>2, <4>1, <2>1, <2>3, <2>7 DEF RowLock, Live
      <4>3. CASE req[x].pc \notin {"named", "locked"}
          BY <4>1, <4>2, <4>3 DEF NameOK
      <4>4. CASE req[x].pc \in {"named", "locked"} /\ req[x].fresh
        <5>1. /\ nameLock[req[x].hole] = x
              /\ anonyname[req[x].hole][req[x].user] = None
              /\ req[x].name \notin TakenNames(req[x].hole)
            BY <4>1, <4>4 DEF NameOK
        <5>2. req[x].hole = h => ~ req[r].fresh
            BY <3>2, <5>1, <2>4
        <5>3. \A v \in Users : anonyname'[req[x].hole][v]
                                 = anonyname[req[x].hole][v]
            BY <4>1, <4>4, <5>2, <2>5
        <5>4. TakenNames(req[x].hole)' = TakenNames(req[x].hole)
            BY <4>1, <5>3 DEF TakenNames
        <5>5. nameLock'[req[x].hole] = x
            BY <3>2, <4>1, <4>4, <5>1, <2>7
        <5>6. NameOK(x)'
            BY <4>1, <4>4, <5>1, <5>3, <5>4, <5>5 DEF NameOK
        <5> QED
            BY <4>2, <5>6
      <4>5. CASE req[x].pc \in {"named", "locked"} /\ ~ req[x].fresh
        <5>1. req[x].name = anonyname[req[x].hole][req[x].user]
            BY <4>1, <4>5 DEF NameOK
        <5>2. anonyname'[req[x].hole][req[x].user]
                = anonyname[req[x].hole][req[x].user]
            BY <4>1, <4>5, <5>1, <2>4, <2>5 DEF Names
        <5>3. NameOK(x)'
            BY <4>1, <4>5, <5>1, <5>2 DEF NameOK
        <5> QED
            BY <4>2, <5>3
      <4> QED
          BY <4>3, <4>4, <4>5
    <3> QED
        BY <3>1, <3>2
  <2>9. PurgeInv'
    <3>1. \A g \in purging : g \in Holes /\ g # h /\ holeLock[g] = Purger
        BY <2>1 DEF IInv, HandlersInv, PurgeInv, PurgeTargets
    <3> QED
        BY <3>1, <2>3, <2>7 DEF IInv, HandlersInv, PurgeInv, PurgeTargets, Live
  <2>10. AbsentInv'
      BY <2>3, <2>6 DEF IInv, HandlersInv, AbsentInv, Idle
  <2>11. \A g \in Holes : FloorsOf(g)' = IF g = h THEN FloorsOf(g) \cup {f}
                                                 ELSE FloorsOf(g)
      BY <2>1, <2>2, <2>t DEF FloorsOf
  <2>12. RankingsDense'
    <3>1. {k.ranking : k \in FloorsOf(h)} = 0..hole[h].reply
        BY <2>1 DEF IInv, TablesInv, RankingsDense, Live
    <3>2. (0..hole[h].reply) \cup {f.ranking} = 0..hole'[h].reply
        BY <2>1, <2>3, <2>t
    <3>3. ASSUME NEW g \in Holes
          PROVE  {k.ranking : k \in FloorsOf(g)'} =
                    IF hole'[g].state = "absent" THEN {} ELSE 0..hole'[g].reply
      <4>1. CASE g = h
        <5>1. FloorsOf(g)' = FloorsOf(h) \cup {f}
            BY <4>1, <2>11
        <5>2. {k.ranking : k \in FloorsOf(g)'}
                = {k.ranking : k \in FloorsOf(h)} \cup {f.ranking}
            BY <5>1
        <5> QED
            BY <4>1, <5>2, <3>1, <3>2, <2>3
      <4>2. CASE g # h
          BY <4>2, <2>3, <2>11 DEF IInv, TablesInv, RankingsDense
      <4> QED
          BY <4>1, <4>2
    <3> QED
        BY <3>3 DEF RankingsDense
  <2>13. RankingsUnique'
    <3>1. \A k \in floor : k.hole = h => k.ranking # f.ranking
        BY <1>2, <2>1, <2>t DEF RankingTaken, FloorsOf
    <3> HIDE DEF f
    <3> QED
        BY <3>1, <2>2, <2>t DEF IInv, TablesInv, RankingsUnique
  <2>14. NamesDistinct'
    <3> SUFFICES ASSUME NEW g \in Holes, NEW v \in Users, NEW w \in Users,
                        anonyname'[g][v] = anonyname'[g][w],
                        anonyname'[g][v] # None
                 PROVE  v = w
        BY DEF NamesDistinct
    <3>1. CASE g # h \/ ~ req[r].fresh
        BY <3>1, <2>5 DEF IInv, TablesInv, NamesDistinct
    <3>2. CASE g = h /\ req[r].fresh
      <4>1. \A y \in Users : anonyname[h][y] # n
          BY <3>2, <2>1, <2>4 DEF TakenNames, Names
      <4> QED
          BY <3>2, <4>1, <2>5 DEF IInv, TablesInv, NamesDistinct
    <3> QED
        BY <3>1, <3>2
  <2>15. OneNamePerUser'
    <3>1. ASSUME NEW k \in floor
          PROVE  k.name = anonyname'[k.hole][k.user]
      <4>1. /\ k.name = anonyname[k.hole][k.user]
            /\ k.hole \in Holes /\ k.user \in Users /\ k.name \in Names
          BY <2>t DEF IInv, TablesInv, OneNamePerUser, FloorRow
      <4>2. k.hole # h \/ k.user # u \/ ~ req[r].fresh
          BY <4>1, <2>4 DEF Names
      <4> QED
          BY <4>1, <4>2, <2>5
    <3> QED
        BY <3>1, <2>2, <2>5, <2>t DEF OneNamePerUser
  <2>16. PurgeIsTotal'
    <3>1. \A k \in floor : k.deleted =>
             /\ k.hole \in Holes /\ k.hole # h
             /\ hole'[k.hole].state = "deleted"
             /\ \A g \in FloorsOf(k.hole)' : g.deleted
      <4> SUFFICES ASSUME NEW k \in floor, k.deleted
                   PROVE  /\ k.hole \in Holes /\ k.hole # h
                          /\ hole'[k.hole].state = "deleted"
                          /\ \A g \in FloorsOf(k.hole)' : g.deleted
          OBVIOUS
      <4>1. /\ hole[k.hole].state = "deleted" /\ k.hole \in Holes
            /\ \A g \in FloorsOf(k.hole) : g.deleted
          BY <2>t DEF IInv, TablesInv, PurgeIsTotal, FloorRow
      <4>2. k.hole # h
          BY <4>1, <2>1 DEF Live
      <4> QED
          BY <4>1, <4>2, <2>3, <2>11
    <3> QED
        BY <3>1, <2>2, <2>t DEF PurgeIsTotal
  <2> QED
      BY <2>8, <2>9, <2>10, <2>12, <2>13, <2>14, <2>15, <2>16
         DEF HandlersInv, TablesInv
<1> QED
    BY <1>1, <1>2

\* Creating a hole keeps the invariant: nothing refers to a hole that does not
\* exist (hole.Create).
LEMMA CreateInv ==
    ASSUME IInv, NEW u \in Users, NEW h \in Holes, CreateHole(u, h)
    PROVE  HandlersInv' /\ TablesInv'
<1> USE RolesAssumption, NamesAssumption, LockAssumption
<1>1. PICK d \in Divisions \ BanDivision[u], n \in AnonyNames :
         /\ hole' = [hole EXCEPT ![h] = [@ EXCEPT !.state = "live", !.owner = u,
                                                  !.division = d]]
         /\ anonyname' = [anonyname EXCEPT ![h] =
                             [x \in Users |-> IF x = u THEN n ELSE None]]
         /\ floor' = floor \cup {[hole |-> h, ranking |-> 0, user |-> u,
                                  name |-> n, deleted |-> FALSE]}
    BY DEF CreateHole
<1> DEFINE f == [hole |-> h, ranking |-> 0, user |-> u, name |-> n,
                 deleted |-> FALSE]
<1>2. hole[h].state = "absent" /\ hole[h] \in HoleRow
    BY DEF CreateHole, IInv, TypeOK
<1>3. hole[h].reply = 0 /\ \A r \in Requests : req[r].hole # h
    BY <1>2 DEF IInv, HandlersInv, AbsentInv
<1>4. /\ hole'[h].state = "live" /\ hole'[h].reply = 0
      /\ \A g \in Holes : g # h => hole'[g] = hole[g]
    BY <1>1, <1>2, <1>3 DEF IInv, TypeOK, HoleRow
<1>5. /\ \A x \in Users : anonyname'[h][x] = IF x = u THEN n ELSE None
      /\ \A g \in Holes : g # h => anonyname'[g] = anonyname[g]
    BY <1>1 DEF IInv, TypeOK
<1>6. /\ f.hole = h /\ f.ranking = 0 /\ f.user = u /\ f.name = n
      /\ f.deleted = FALSE /\ floor' = floor \cup {f}
    BY <1>1
<1>7. UNCHANGED <<holeLock, nameLock, purging, req>>
    BY DEF CreateHole, locks
<1>8. \A k \in floor : k.hole \in Holes /\ k.hole # h
  <2>1. {k.ranking : k \in FloorsOf(h)} = {}
      BY <1>2 DEF IInv, TablesInv, RankingsDense
  <2>2. ASSUME NEW k \in floor
        PROVE  k.hole # h
    <3>1. k.hole = h => k.ranking \in {g.ranking : g \in FloorsOf(h)}
        BY DEF FloorsOf
    <3> QED
        BY <3>1, <2>1
  <2> QED
      BY <2>2 DEF IInv, TypeOK, FloorRow
<1>9. \A g \in Holes : FloorsOf(g)' = IF g = h THEN {f} ELSE FloorsOf(g)
    BY <1>6, <1>8 DEF FloorsOf
<1>10. ASSUME NEW x \in Requests
       PROVE  RowLock(x)' /\ NameOK(x)'
  <2>1. /\ RowLock(x) /\ NameOK(x) /\ req[x].hole # h
        /\ req[x].pc \in {"named", "locked"} => req[x].hole \in Holes
      BY <1>3 DEF IInv, HandlersInv, LocalsOK, LocalOK
  <2>2. RowLock(x)'
      BY <2>1, <1>4, <1>7 DEF RowLock, Live
  <2>3. NameOK(x)'
      BY <2>1, <1>5, <1>7 DEF NameOK, TakenNames
  <2> QED
      BY <2>2, <2>3
<1>11. PurgeInv'
    BY <1>2, <1>4, <1>7 DEF IInv, HandlersInv, PurgeInv, PurgeTargets, Live
<1>12. AbsentInv'
    BY <1>4, <1>7 DEF IInv, HandlersInv, AbsentInv
<1>13. RankingsDense'
  <2>1. ASSUME NEW g \in Holes
        PROVE  {k.ranking : k \in FloorsOf(g)'} =
                  IF hole'[g].state = "absent" THEN {} ELSE 0..hole'[g].reply
    <3>1. CASE g = h
      <4>1. FloorsOf(g)' = {f}
          BY <3>1, <1>9
      <4>2. {k.ranking : k \in FloorsOf(g)'} = {0}
          BY <4>1, <1>6
      <4>3. 0..0 = {0}
          OBVIOUS
      <4> QED
          BY <3>1, <4>2, <4>3, <1>4
    <3>2. CASE g # h
        BY <3>2, <1>4, <1>9 DEF IInv, TablesInv, RankingsDense
    <3> QED
        BY <3>1, <3>2
  <2> QED
      BY <2>1 DEF RankingsDense
<1>14. RankingsUnique'
  <2> HIDE DEF f
  <2> QED
      BY <1>6, <1>8 DEF IInv, TablesInv, RankingsUnique
<1>15. NamesDistinct'
    BY <1>5 DEF IInv, TablesInv, NamesDistinct
<1>16. OneNamePerUser'
  <2> HIDE DEF f
  <2> QED
      BY <1>5, <1>6, <1>8 DEF IInv, TablesInv, OneNamePerUser
<1>17. PurgeIsTotal'
  <2> HIDE DEF f
  <2> QED
      BY <1>4, <1>6, <1>8, <1>9 DEF IInv, TablesInv, PurgeIsTotal
<1> QED
    BY <1>10, <1>11, <1>12, <1>13, <1>14, <1>15, <1>16, <1>17
       DEF HandlersInv, TablesInv

\* Moderation waits for the row lock, and the clock moves no target away: both
\* keep the invariant.
LEMMA ModerationInv ==
    ASSUME IInv, NEW h \in Holes, Moderation(h) \/ Age(h)
    PROVE  HandlersInv' /\ TablesInv'
<1> USE RolesAssumption, LockAssumption
<1>1. TypeOK
    BY DEF IInv
<1>2. /\ Live(h)
      /\ Moderation(h) => holeLock[h] = None /\ nameLock[h] = None
      /\ UNCHANGED <<floor, anonyname, holeLock, nameLock, req, purging>>
    BY <1>1, ModerationRow
<1>3. PICK row \in HoleRow :
         /\ hole' = [hole EXCEPT ![h] = row]
         /\ row.reply = hole[h].reply
         /\ row.state \in {"live", "deleted"}
         /\ Age(h) => /\ row.state = "live"
                      /\ row.division = hole[h].division
                      /\ row.stale = TRUE
    BY <1>1, ModerationRow
<1>4. /\ hole'[h] = row
      /\ \A g \in Holes : g # h => hole'[g] = hole[g]
    BY <1>1, <1>3 DEF TypeOK
<1>5. ASSUME NEW x \in Requests
      PROVE  RowLock(x)' /\ NameOK(x)'
  <2>1. /\ RowLock(x) /\ NameOK(x)
        /\ req[x].pc = "locked" => req[x].hole \in Holes
      BY DEF IInv, HandlersInv, LocalsOK, LocalOK
  <2>2. CASE Age(h)
      BY <2>1, <2>2, <1>2, <1>3, <1>4 DEF RowLock, NameOK, TakenNames, Live
  <2>3. CASE Moderation(h)
      BY <2>1, <2>3, <1>2, <1>4 DEF RowLock, NameOK, TakenNames, Live
  <2> QED
      BY <2>2, <2>3
<1>6. PurgeInv'
  <2>1. CASE Age(h)
      BY <2>1, <1>2, <1>3, <1>4
         DEF IInv, HandlersInv, PurgeInv, PurgeTargets, Live
  <2>2. CASE Moderation(h)
      BY <2>2, <1>2, <1>4 DEF IInv, HandlersInv, PurgeInv, PurgeTargets, Live
  <2> QED
      BY <2>1, <2>2
<1>7. AbsentInv'
    BY <1>2, <1>3, <1>4 DEF IInv, HandlersInv, AbsentInv
<1>8. \A g \in Holes : FloorsOf(g)' = FloorsOf(g)
    BY <1>2 DEF FloorsOf
<1>9. RankingsDense'
    BY <1>2, <1>3, <1>4, <1>8 DEF IInv, TablesInv, RankingsDense, Live
<1>10. RankingsUnique' /\ NamesDistinct' /\ OneNamePerUser'
    BY <1>2 DEF IInv, TablesInv, RankingsUnique, NamesDistinct, OneNamePerUser
<1>11. PurgeIsTotal'
  <2>1. \A f \in floor : f.hole \in Holes
      BY <1>1 DEF TypeOK, FloorRow
  <2>2. \A f \in floor : f.deleted => f.hole # h
      BY <1>2 DEF IInv, TablesInv, PurgeIsTotal, Live
  <2> QED
      BY <2>1, <2>2, <1>2, <1>4, <1>8 DEF IInv, TablesInv, PurgeIsTotal
<1> QED
    BY <1>5, <1>6, <1>7, <1>9, <1>10, <1>11 DEF HandlersInv, TablesInv

\* The purge keeps the invariant: it locks what it selects before it looks, and
\* deletes every floor of the holes it deletes (purgeHole).
LEMMA PurgeStepInv ==
    ASSUME IInv, PurgeSelect \/ PurgeCommit \/ PurgeFail
    PROVE  HandlersInv' /\ TablesInv'
<1> USE RolesAssumption, LockAssumption
<1>t. /\ \A x \in Requests : req[x].pc \in {"named", "locked"} =>
            req[x].hole \in Holes
      /\ \A k \in floor : k.hole \in Holes /\ k \in FloorRow
    BY DEF IInv, LocalsOK, LocalOK, TypeOK, FloorRow
<1>1. CASE PurgeSelect
  <2>1. /\ UNCHANGED <<hole, floor, anonyname, nameLock, req>>
        /\ \A h \in Holes : holeLock[h] \in {None, Purger}
        /\ purging' = PurgeTargets
        /\ \A h \in Holes : h \in PurgeTargets => holeLock'[h] = Purger
      BY <1>1 DEF PurgeSelect, HoleLockFree
  <2>2. \A x \in Requests : RowLock(x)' /\ NameOK(x)'
      BY <1>t, <2>1 DEF IInv, HandlersInv, RowLock, NameOK, TakenNames
  <2>3. PurgeInv'
      BY <2>1 DEF PurgeInv, PurgeTargets, Live
  <2>4. AbsentInv'
      BY <2>1 DEF IInv, HandlersInv, AbsentInv
  <2> QED
      BY <2>1, <2>2, <2>3, <2>4, TablesKept DEF IInv, HandlersInv
<1>2. CASE PurgeFail
  <2>1. /\ UNCHANGED <<hole, floor, anonyname, nameLock, req>>
        /\ \A h \in Holes : holeLock[h] # Purger => holeLock'[h] = holeLock[h]
        /\ purging' = {}
      BY <1>2 DEF PurgeFail, Released
  <2>2. \A x \in Requests : RowLock(x)' /\ NameOK(x)'
      BY <1>t, <2>1 DEF IInv, HandlersInv, RowLock, NameOK, TakenNames, Live
  <2>3. PurgeInv'
      BY <2>1 DEF PurgeInv
  <2>4. AbsentInv'
      BY <2>1 DEF IInv, HandlersInv, AbsentInv
  <2> QED
      BY <2>1, <2>2, <2>3, <2>4, TablesKept DEF IInv, HandlersInv
<1>3. CASE PurgeCommit
  <2> DEFINE img(k) == IF k.hole \in purging THEN [k EXCEPT !.deleted = TRUE]
                                             ELSE k
  <2>1. /\ UNCHANGED <<anonyname, nameLock, req>>
        /\ \A h \in Holes : holeLock[h] # Purger => holeLock'[h] = holeLock[h]
        /\ purging' = {}
        /\ floor' = {img(k) : k \in floor}
      BY <1>3 DEF PurgeCommit, Released
  <2>2. /\ \A h \in purging : /\ h \in Holes /\ hole[h].state = "live"
                              /\ holeLock[h] = Purger
      BY DEF IInv, HandlersInv, PurgeInv, PurgeTargets, Live
  <2>3. /\ \A h \in Holes : h \notin purging => hole'[h] = hole[h]
        /\ \A h \in purging : /\ hole'[h].state = "deleted"
                              /\ hole'[h].reply = hole[h].reply
      BY <1>3, <2>2 DEF PurgeCommit, Live, IInv, TypeOK, HoleRow
  <2>4. \A k \in floor : /\ img(k).hole = k.hole /\ img(k).user = k.user
                         /\ img(k).name = k.name /\ img(k).ranking = k.ranking
                         /\ img(k).deleted = (k.deleted \/ k.hole \in purging)
      BY <1>t DEF FloorRow
  <2> HIDE DEF img
  <2>5. \A x \in Requests : RowLock(x)' /\ NameOK(x)'
      BY <1>t, <2>1, <2>2, <2>3
         DEF IInv, HandlersInv, RowLock, NameOK, TakenNames, Live
  <2>6. PurgeInv'
      BY <2>1 DEF PurgeInv
  <2>7. AbsentInv'
      BY <2>1, <2>2, <2>3 DEF IInv, HandlersInv, AbsentInv
  <2>8. \A h \in Holes : FloorsOf(h)' = {img(k) : k \in FloorsOf(h)}
      BY <2>1, <2>4 DEF FloorsOf
  <2>9. RankingsDense'
    <3>1. ASSUME NEW h \in Holes
          PROVE  {k.ranking : k \in FloorsOf(h)'}
                    = {k.ranking : k \in FloorsOf(h)}
        BY <2>4, <2>8 DEF FloorsOf
    <3> QED
        BY <3>1, <2>2, <2>3 DEF IInv, TablesInv, RankingsDense
  <2>10. RankingsUnique'
      BY <2>1, <2>4 DEF IInv, TablesInv, RankingsUnique
  <2>11. NamesDistinct' /\ OneNamePerUser'
      BY <2>1, <2>4 DEF IInv, TablesInv, NamesDistinct, OneNamePerUser
  <2>12. PurgeIsTotal'
    <3>1. ASSUME NEW k \in floor, img(k).deleted
          PROVE  /\ hole'[k.hole].state = "deleted"
                 /\ \A g \in FloorsOf(k.hole) : img(g).deleted
      <4>1. CASE k.hole \in purging
          BY <4>1, <2>3, <2>4 DEF FloorsOf
      <4>2. CASE k.hole \notin purging
        <5>1. k.deleted /\ k.hole \in Holes
            BY <4>2, <1>t, <3>1, <2>4
        <5>2. /\ hole[k.hole].state = "deleted"
              /\ \A g \in FloorsOf(k.hole) : g.deleted
            BY <5>1 DEF IInv, TablesInv, PurgeIsTotal
        <5> QED
            BY <4>2, <5>1, <5>2, <2>3, <2>4 DEF FloorsOf
      <4> QED
          BY <4>1, <4>2
    <3>2. ASSUME NEW f \in floor', f.deleted
          PROVE  /\ hole'[f.hole].state = "deleted"
                 /\ \A g \in FloorsOf(f.hole)' : g.deleted
      <4>1. PICK k \in floor : f = img(k)
          BY <2>1
      <4>2. f.hole = k.hole /\ k.hole \in Holes
          BY <4>1, <2>4, <1>t
      <4> QED
          BY <4>1, <4>2, <3>1, <3>2, <2>8
    <3> QED
        BY <3>2 DEF PurgeIsTotal
  <2> QED
      BY <2>5, <2>6, <2>7, <2>9, <2>10, <2>11, <2>12
         DEF HandlersInv, TablesInv
<1> QED
    BY <1>1, <1>2, <1>3

\* The invariant holds of the empty database.
LEMMA InitInv ==
    ASSUME Init
    PROVE  IInv
<1> USE RolesAssumption
<1>1. TypeOK /\ LocalsOK
  <2>1. Idle \in Request /\ LocalOK(Idle)
      BY IdleOK
  <2> QED
      BY <2>1 DEF Init, TypeOK, LocalsOK, HoleRow, FloorRow
<1>2. \A r \in Requests : RowLock(r) /\ NameOK(r)
    BY DEF Init, Idle, RowLock, NameOK
<1>3. PurgeInv /\ AbsentInv
    BY DEF Init, Idle, PurgeInv, AbsentInv
<1>4. \A h \in Holes : {k.ranking : k \in FloorsOf(h)} = {}
    BY DEF Init, FloorsOf
<1>5. TablesInv
    BY <1>4 DEF Init, TablesInv, RankingsDense, RankingsUnique, NamesDistinct,
                OneNamePerUser, PurgeIsTotal
<1> QED
    BY <1>1, <1>2, <1>3, <1>5 DEF IInv, HandlersInv

\* Every step of the write path keeps the invariant.
LEMMA InvStep ==
    ASSUME IInv, [Next]_vars
    PROVE  IInv'
<1>1. TypeOK' /\ LocalsOK'
    BY TypeStep DEF IInv
<1>2. ASSUME NEW r \in Requests, RequestStep(r)
      PROVE  HandlersInv' /\ TablesInv'
    BY <1>2, CheckInv, FindInv, GenerateInv, LockInv, InsertInv, RollbackInv
       DEF RequestStep, Progress, Fail
<1>3. ASSUME NEW h \in Holes, HoleStep(h)
      PROVE  HandlersInv' /\ TablesInv'
    BY <1>3, CreateInv, ModerationInv DEF HoleStep
<1>4. ASSUME UNCHANGED vars
      PROVE  HandlersInv' /\ TablesInv'
  <2>1. TablesInv'
      BY <1>4, TablesKept DEF vars, IInv
  <2>2. HandlersInv'
      BY <1>4 DEF vars, IInv, HandlersInv, RowLock, NameOK, PurgeInv, AbsentInv,
                  PurgeTargets, Live, TakenNames
  <2> QED
      BY <2>1, <2>2
<1>5. HandlersInv' /\ TablesInv'
    BY <1>2, <1>3, <1>4, PurgeStepInv DEF Next
<1> QED
    BY <1>1, <1>5 DEF IInv

\* The inductive invariant holds in every reachable state.
THEOREM Invariance == Spec => []IInv
<1>1. Init => IInv
    BY InitInv
<1>2. IInv /\ [Next]_vars => IInv'
    BY InvStep
<1> QED
    BY <1>1, <1>2, PTL DEF Spec

\* Concurrent replies leave no gap and no duplicate in a hole's rankings, and
\* it is the row lock that sees to it: the unique index never has to reject a
\* reply (floor.Create).
THEOREM Rankings == Spec => [](RankingsDense /\ RankingsUnique /\ IndexNeverRejects)
<1>1. IInv => RankingsDense /\ RankingsUnique
    BY DEF IInv, TablesInv
<1>2. IInv => IndexNeverRejects
  <2> SUFFICES ASSUME IInv, NEW r \in Requests, req[r].pc = "locked",
                      NEW f \in FloorsOf(req[r].hole)
               PROVE  f.ranking # req[r].ranking
      BY DEF IndexNeverRejects, RankingTaken
  <2>1. /\ req[r].hole \in Holes
        /\ hole[req[r].hole].state = "live"
        /\ req[r].ranking = hole[req[r].hole].reply + 1
        /\ hole[req[r].hole].reply \in Nat
      BY DEF IInv, HandlersInv, RowLock, Live, LocalsOK, LocalOK, TypeOK, HoleRow
  <2>2. f.ranking \in 0..hole[req[r].hole].reply
      BY <2>1 DEF IInv, TablesInv, RankingsDense
  <2> QED
      BY <2>1, <2>2
<1> QED
    BY <1>1, <1>2, Invariance, PTL

\* Whoever joins a hole at the same moment, two users never share a name, and
\* all floors of a user carry the one name mapped to it.
THEOREM NamesCorrect == Spec => [](NamesDistinct /\ OneNamePerUser)
<1>1. IInv => NamesDistinct /\ OneNamePerUser
    BY DEF IInv, TablesInv
<1> QED
    BY <1>1, Invariance, PTL

\* A purge deletes all of a hole or nothing, and no reply slips in afterwards.
THEOREM PurgeTotal == Spec => []PurgeIsTotal
<1>1. IInv => PurgeIsTotal
    BY DEF IInv, TablesInv
<1> QED
    BY <1>1, Invariance, PTL

\* The one step of a handler that writes the table floor is its insert.
LEMMA RequestFloor ==
    ASSUME NEW r \in Requests, RequestStep(r)
    PROVE  floor' = floor \/ (InsertFloor(r) /\ ~ RankingTaken(r))
  BY DEF RequestStep, Progress, Fail, CheckHole, FindAnonyname,
         GenerateAnonyname, LockHole, InsertFloor, Rollback

\* No reply is stored in a hole that was deleted after the reply's checks.
THEOREM DeletedHoleClosed == Spec => NoReplyToDeletedHole
<1>1. IInv /\ [Next]_vars =>
        [\A f \in floor' : NewReply(f) => Live(f.hole)]_vars
  <2> SUFFICES ASSUME IInv, Next, NEW f \in floor', NewReply(f)
               PROVE  Live(f.hole)
      OBVIOUS
  <2>1. \A g \in floor : g.hole # f.hole \/ g.ranking # f.ranking
      BY DEF NewReply, FloorsOf
  <2>2. f \notin floor
      BY <2>1
  <2>3. CASE floor' = floor
      BY <2>2, <2>3
  <2>4. ASSUME NEW r \in Requests, InsertFloor(r), ~ RankingTaken(r)
        PROVE  Live(f.hole)
    <3>1. /\ floor' = floor \cup {[hole |-> req[r].hole,
                  ranking |-> req[r].ranking, user |-> req[r].user,
                  name |-> req[r].name, deleted |-> FALSE]}
          /\ Live(req[r].hole)
        BY <2>4, InsertEffect
    <3> QED
        BY <3>1, <2>2
  <2>5. ASSUME NEW h \in Holes, NEW u \in Users, CreateHole(u, h)
        PROVE  Live(f.hole)
    <3>1. f.ranking = 0
        BY <2>2, <2>5 DEF CreateHole
    <3> QED
        BY <3>1 DEF NewReply
  <2>6. CASE PurgeCommit
    <3>1. PICK k \in floor : f = IF k.hole \in purging
                                THEN [k EXCEPT !.deleted = TRUE] ELSE k
        BY <2>6 DEF PurgeCommit
    <3>2. k \in FloorRow
        BY DEF IInv, TypeOK
    <3>3. f.hole = k.hole /\ f.ranking = k.ranking
        BY <3>1, <3>2 DEF FloorRow
    <3> QED
        BY <3>3, <2>1
  <2>7. ASSUME NEW r \in Requests, RequestStep(r)
        PROVE  floor' = floor \/ (InsertFloor(r) /\ ~ RankingTaken(r))
      BY <2>7, RequestFloor
  <2>8. ASSUME NEW h \in Holes, Moderation(h) \/ Age(h)
        PROVE  floor' = floor
      BY <2>8, ModerationRow DEF IInv
  <2>9. PurgeSelect \/ PurgeFail => floor' = floor
      BY DEF PurgeSelect, PurgeFail
  <2> QED
      BY <2>3, <2>4, <2>5, <2>6, <2>7, <2>8, <2>9 DEF Next, HoleStep
<1> QED
    BY <1>1, Invariance, PTL DEF Spec, NoReplyToDeletedHole

\* What a purge deletes is still a target when it is deleted.
THEOREM PurgeDeletesTargets == Spec => PurgeOnlyTargets
<1>1. IInv /\ [Next]_vars =>
        [\A f \in floor : (~ f.deleted /\ [f EXCEPT !.deleted = TRUE] \in floor')
             => f.hole \in PurgeTargets]_vars
  <2> SUFFICES ASSUME IInv, Next, NEW f \in floor, ~ f.deleted,
                      [f EXCEPT !.deleted = TRUE] \in floor'
               PROVE  f.hole \in PurgeTargets
      OBVIOUS
  <2> DEFINE g == [f EXCEPT !.deleted = TRUE]
  <2>1. /\ f \in FloorRow /\ g.deleted = TRUE /\ f # g
        /\ g.hole = f.hole /\ g.ranking = f.ranking
      BY DEF IInv, TypeOK, FloorRow
  <2>2. g \notin floor
      BY <2>1 DEF IInv, TablesInv, RankingsUnique
  <2>3. CASE PurgeCommit
    <3>1. PICK k \in floor : g = IF k.hole \in purging
                                THEN [k EXCEPT !.deleted = TRUE] ELSE k
        BY <2>3 DEF PurgeCommit
    <3>2. k.hole \in purging /\ k \in FloorRow
        BY <2>2, <3>1 DEF IInv, TypeOK
    <3>3. k.hole = f.hole
        BY <2>1, <3>1, <3>2 DEF FloorRow
    <3> QED
        BY <3>2, <3>3 DEF IInv, HandlersInv, PurgeInv
  <2>5. ASSUME NEW r \in Requests, RequestStep(r)
        PROVE  \A k \in floor' : k \in floor \/ k.deleted = FALSE
    <3>1. CASE floor' = floor
        BY <3>1
    <3>2. CASE InsertFloor(r) /\ ~ RankingTaken(r)
        BY <3>2 DEF InsertFloor
    <3> QED
        BY <2>5, <3>1, <3>2, RequestFloor
  <2>6. ASSUME NEW h \in Holes, HoleStep(h)
        PROVE  \A k \in floor' : k \in floor \/ k.deleted = FALSE
    <3>1. ASSUME NEW u \in Users, CreateHole(u, h)
          PROVE  \A k \in floor' : k \in floor \/ k.deleted = FALSE
        BY <3>1 DEF CreateHole
    <3>2. ASSUME Moderation(h) \/ Age(h)
          PROVE  floor' = floor
        BY <3>2, ModerationRow DEF IInv
    <3> QED
        BY <2>6, <3>1, <3>2 DEF HoleStep
  <2>7. PurgeSelect \/ PurgeFail => floor' = floor
      BY DEF PurgeSelect, PurgeFail
  <2> QED
      BY <2>1, <2>2, <2>3, <2>5, <2>6, <2>7 DEF Next
<1> QED
    BY <1>1, Invariance, PTL DEF Spec, PurgeOnlyTargets

-----------------------------------------------------------------------------
(* The refinement of HoleThread *)

\* What a reader sees of a floor.
Shown(f) == [user |-> f.user, name |-> f.name, deleted |-> f.deleted]

\* The floors S of a hole that has n replies, by ranking.
Listed(S, n) ==
    [i \in 1..(n + 1) |-> Shown(CHOOSE f \in S : f.ranking = i - 1)]

\* Floors whose rankings are 0..n, none of them twice.
Dense(S, n) ==
    /\ n \in Nat
    /\ \A f \in S : f.ranking \in Nat
    /\ {f.ranking : f \in S} = 0..n
    /\ \A f, g \in S : f.ranking = g.ranking => f = g

\* Each dense floor is shown at its place, and nothing else is.
LEMMA ListedFloors ==
    ASSUME NEW S, NEW n, Dense(S, n)
    PROVE  /\ DOMAIN Listed(S, n) = 1..(n + 1)
           /\ \A f \in S : f.ranking + 1 \in 1..(n + 1)
           /\ \A f \in S : Listed(S, n)[f.ranking + 1] = Shown(f)
           /\ \A i \in 1..(n + 1) :
                 \E f \in S : f.ranking = i - 1 /\ Listed(S, n)[i] = Shown(f)
<1>1. \A i \in 1..(n + 1) : \E f \in S : f.ranking = i - 1
  <2> TAKE i \in 1..(n + 1)
  <2>1. i - 1 \in 0..n
      BY DEF Dense
  <2> QED
      BY <2>1 DEF Dense
<1>2. \A f \in S : f.ranking + 1 \in 1..(n + 1)
    BY DEF Dense
<1>3. ASSUME NEW f \in S
      PROVE  (CHOOSE g \in S : g.ranking = (f.ranking + 1) - 1) = f
  <2> DEFINE c == CHOOSE g \in S : g.ranking = (f.ranking + 1) - 1
  <2>1. f.ranking \in Nat /\ f.ranking = (f.ranking + 1) - 1
      BY DEF Dense
  <2>2. c \in S /\ c.ranking = (f.ranking + 1) - 1
      BY <2>1
  <2> QED
      BY <2>1, <2>2 DEF Dense
<1>4. \A f \in S : Listed(S, n)[f.ranking + 1] = Shown(f)
    BY <1>2, <1>3 DEF Listed
<1>5. \A i \in 1..(n + 1) :
         \E f \in S : f.ranking = i - 1 /\ Listed(S, n)[i] = Shown(f)
  <2> SUFFICES ASSUME NEW i \in 1..(n + 1)
               PROVE  \E f \in S : f.ranking = i - 1 /\ Listed(S, n)[i] = Shown(f)
      OBVIOUS
  <2>1. PICK f \in S : f.ranking = i - 1
      BY <1>1
  <2>2. f.ranking + 1 = i
      BY <2>1
  <2> QED
      BY <2>1, <2>2, <1>4
<1> QED
    BY <1>2, <1>4, <1>5 DEF Listed

\* The floors of a hole that was created are dense, and its thread lists them.
LEMMA ThreadListed ==
    ASSUME IInv, NEW h \in Holes
    PROVE  /\ hole[h].state = "absent" => Thread(h) = <<>> /\ FloorsOf(h) = {}
           /\ hole[h].state # "absent" =>
                /\ Dense(FloorsOf(h), hole[h].reply)
                /\ Thread(h) = Listed(FloorsOf(h), hole[h].reply)
<1>1. /\ hole[h] \in HoleRow
      /\ floor \subseteq FloorRow
      /\ RankingsDense /\ RankingsUnique
    BY DEF IInv, TypeOK, TablesInv
<1>2. FloorsOf(h) \subseteq floor /\ \A f \in FloorsOf(h) : f.hole = h
    BY DEF FloorsOf
<1>3. CASE hole[h].state = "absent"
  <2>1. {f.ranking : f \in FloorsOf(h)} = {}
      BY <1>1, <1>3 DEF RankingsDense
  <2>2. FloorsOf(h) = {}
      BY <2>1
  <2> QED
      BY <1>3, <2>2 DEF Thread
<1>4. CASE hole[h].state # "absent"
  <2>1. hole[h].reply \in Nat /\ \A f \in FloorsOf(h) : f.ranking \in Nat
      BY <1>1, <1>2 DEF HoleRow, FloorRow
  <2>2. {f.ranking : f \in FloorsOf(h)} = 0..hole[h].reply
      BY <1>1, <1>4 DEF RankingsDense
  <2>3. \A f, g \in FloorsOf(h) : f.ranking = g.ranking => f = g
      BY <1>1, <1>2 DEF RankingsUnique
  <2> QED
      BY <1>4, <2>1, <2>2, <2>3 DEF Dense, Thread, Listed, Shown
<1> QED
    BY <1>3, <1>4

\* A step that changes neither floors nor what a thread takes from the rows of
\* holes stutters.
LEMMA ThreadsKept ==
    ASSUME UNCHANGED floor,
           \A h \in Holes : /\ hole'[h].state = hole[h].state
                            /\ hole'[h].reply = hole[h].reply
    PROVE  UNCHANGED HT!vars
<1>1. \A h \in Holes : Thread(h)' = Thread(h)
    BY DEF Thread, FloorsOf
<1> QED
    BY <1>1 DEF HT!vars

\* CreateHole opens a thread.
LEMMA CreateOpens ==
    ASSUME IInv, NEW u \in Users, NEW h \in Holes, CreateHole(u, h)
    PROVE  \E n \in Names : HT!Open(h, u, n)
<1>1. PICK d \in Divisions \ BanDivision[u], n \in AnonyNames :
         /\ hole' = [hole EXCEPT ![h] = [@ EXCEPT !.state = "live", !.owner = u,
                                                  !.division = d]]
         /\ floor' = floor \cup {[hole |-> h, ranking |-> 0, user |-> u,
                                  name |-> n, deleted |-> FALSE]}
    BY DEF CreateHole
<1> DEFINE f == [hole |-> h, ranking |-> 0, user |-> u, name |-> n, deleted |-> FALSE]
<1>2. /\ hole[h].state = "absent" /\ hole[h].reply = 0
      /\ hole \in [Holes -> HoleRow]
      /\ FloorsOf(h) = {}
    BY ThreadListed DEF CreateHole, IInv, HandlersInv, AbsentInv, TypeOK
<1>3. hole'[h].state = "live" /\ hole'[h].reply = 0
    BY <1>1, <1>2 DEF HoleRow
<1>4. \A k \in Holes : k # h => hole'[k] = hole[k]
    BY <1>1, <1>2
<1>5. FloorsOf(h)' = {f} /\ \A k \in Holes : k # h => FloorsOf(k)' = FloorsOf(k)
    BY <1>1, <1>2 DEF FloorsOf
<1>6. Thread(h)' = <<[user |-> u, name |-> n, deleted |-> FALSE]>>
  <2>1. Dense({f}, 0)
      BY DEF Dense
  <2>2. Thread(h)' = Listed({f}, 0)
      BY <1>3, <1>5 DEF Thread, Listed, Shown
  <2>3. Listed({f}, 0)[1] = Shown(f)
    <3>1. Listed({f}, 0)[f.ranking + 1] = Shown(f)
        BY <2>1, ListedFloors
    <3> QED
        BY <3>1
  <2>4. Listed({f}, 0) = <<Shown(f)>>
      BY <2>3 DEF Listed
  <2> QED
      BY <2>2, <2>4 DEF Shown
<1>7. \A k \in Holes : k # h => Thread(k)' = Thread(k)
    BY <1>4, <1>5 DEF Thread
<1>8. HT!Open(h, u, n)
    BY <1>2, <1>3, <1>4, <1>6, <1>7, <1>1 DEF HT!Open
<1> QED
    BY <1>8 DEF Names

\* A user and his name have written the same floors of a hole.
LEMMA NameConsistent ==
    ASSUME IInv, NEW r \in Requests, req[r].pc = "locked"
    PROVE  HT!Consistent(Thread(req[r].hole), req[r].user, req[r].name)
<1> USE RolesAssumption, NamesAssumption
<1> DEFINE h == req[r].hole
           u == req[r].user
           n == req[r].name
<1>1. h \in Holes /\ u \in Users /\ n \in Names
    BY DEF IInv, LocalsOK, LocalOK
<1>2. hole[h].state = "live" /\ NameOK(r)
    BY DEF IInv, HandlersInv, RowLock, Live
<1>3. /\ Dense(FloorsOf(h), hole[h].reply)
      /\ Thread(h) = Listed(FloorsOf(h), hole[h].reply)
    BY <1>1, <1>2, ThreadListed
<1>4. ASSUME NEW f \in FloorsOf(h) PROVE f.user = u <=> f.name = n
  <2>1. f \in floor /\ f.hole = h /\ f \in FloorRow
      BY DEF FloorsOf, IInv, TypeOK
  <2>2. f.user \in Users /\ f.name \in Names /\ f.name = anonyname[h][f.user]
      BY <2>1 DEF IInv, TablesInv, OneNamePerUser, FloorRow
  <2>3. None \notin Names
      BY DEF Names
  <2>4. CASE req[r].fresh
    <3>1. anonyname[h][u] = None /\ n \notin TakenNames(h)
        BY <1>2, <2>4 DEF NameOK
    <3>2. f.name \in TakenNames(h)
        BY <2>2, <2>3 DEF TakenNames
    <3> QED
        BY <2>2, <2>3, <3>1, <3>2
  <2>5. CASE ~ req[r].fresh
    <3>1. n = anonyname[h][u]
        BY <1>2, <2>5 DEF NameOK
    <3> QED
        BY <1>1, <2>2, <2>3, <3>1 DEF IInv, TablesInv, NamesDistinct
  <2> QED
      BY <2>4, <2>5
<1>5. \A i \in DOMAIN Thread(h) : Thread(h)[i].user = u <=> Thread(h)[i].name = n
  <2> SUFFICES ASSUME NEW i \in DOMAIN Thread(h)
               PROVE  Thread(h)[i].user = u <=> Thread(h)[i].name = n
      OBVIOUS
  <2>1. i \in 1..(hole[h].reply + 1)
      BY <1>3 DEF Listed
  <2>2. PICK f \in FloorsOf(h) : Listed(FloorsOf(h), hole[h].reply)[i] = Shown(f)
      BY <1>3, <2>1, ListedFloors
  <2> QED
      BY <2>2, <1>3, <1>4 DEF Shown
<1> QED
    BY <1>5 DEF HT!Consistent, HT!By, HT!Under

\* Two intervals from 1 are equal when their ends are.
LEMMA SameInterval ==
    ASSUME NEW a \in Nat, NEW b \in Nat, 1..a = 1..b
    PROVE  a = b
<1>1. a \in 1..a \/ a = 0
    OBVIOUS
<1>2. b \in 1..b \/ b = 0
    OBVIOUS
<1> QED
    BY <1>1, <1>2

\* One more floor, with the next ranking, is listed last.
LEMMA ListedAppend ==
    ASSUME NEW S, NEW m, NEW f, Dense(S, m), f.ranking = m + 1
    PROVE  Listed(S \cup {f}, m + 1) = Append(Listed(S, m), Shown(f))
<1>1. m \in Nat /\ m + 1 \in Nat
    BY DEF Dense
<1>2. Dense(S \cup {f}, m + 1)
  <2>1. \A g \in S : g.ranking \in 0..m
      BY DEF Dense
  <2>2. {g.ranking : g \in S \cup {f}} = {g.ranking : g \in S} \cup {m + 1}
      OBVIOUS
  <2>3. 0..(m + 1) = (0..m) \cup {m + 1}
      BY <1>1
  <2>4. \A g \in S : g.ranking \in Nat /\ g.ranking # f.ranking
      BY <1>1, <2>1
  <2> QED
      BY <1>1, <2>2, <2>3, <2>4 DEF Dense
<1> DEFINE L == Listed(S, m)
           M == Listed(S \cup {f}, m + 1)
<1>3. \A i \in 1..(m + 1) : M[i] = L[i]
  <2> SUFFICES ASSUME NEW i \in 1..(m + 1)
               PROVE  M[i] = L[i]
      OBVIOUS
  <2>1. PICK g \in S : g.ranking = i - 1 /\ L[i] = Shown(g)
      BY ListedFloors
  <2>2. g.ranking + 1 = i
      BY <2>1, <1>1
  <2>3. M[g.ranking + 1] = Shown(g)
      BY <1>2, ListedFloors
  <2> QED
      BY <2>1, <2>2, <2>3
<1>4. M[m + 2] = Shown(f)
  <2>1. f.ranking + 1 = m + 2
      BY <1>1
  <2>2. M[f.ranking + 1] = Shown(f)
      BY <1>2, ListedFloors
  <2> QED
      BY <2>1, <2>2
<1>5. /\ L = [i \in 1..(m + 1) |-> L[i]]
      /\ M = [i \in 1..(m + 2) |-> M[i]]
    BY <1>1 DEF Listed
<1> HIDE DEF L, M
<1> DEFINE R == {L[i] : i \in 1..(m + 1)} \cup {Shown(f)}
<1>6. L \in Seq(R) /\ Len(L) = m + 1
  <2>1. L \in [1..(m + 1) -> R]
      BY <1>5
  <2> HIDE DEF R
  <2>2. L \in Seq(R)
      BY <1>1, <2>1, SeqDef
  <2>3. DOMAIN L = 1..Len(L) /\ Len(L) \in Nat
      BY <2>2, LenProperties
  <2>4. 1..Len(L) = 1..(m + 1)
      BY <2>1, <2>3
  <2>5. m + 1 \in Nat
      BY <1>1
  <2>6. Len(L) = m + 1
      BY <2>3, <2>4, <2>5, SameInterval
  <2> QED
      BY <2>2, <2>6
<1>7. M = Append(L, Shown(f))
  <2>1. \A i \in 1..(m + 2) : i = m + 2 \/ i \in 1..(m + 1)
      BY <1>1
  <2>2. Shown(f) \in R
      OBVIOUS
  <2> HIDE DEF R
  <2>3. /\ Append(L, Shown(f)) \in Seq(R)
        /\ Len(Append(L, Shown(f))) = m + 2
        /\ \A i \in 1..(m + 1) : Append(L, Shown(f))[i] = L[i]
        /\ Append(L, Shown(f))[m + 2] = Shown(f)
    <3>1. (m + 1) + 1 = m + 2
        BY <1>1
    <3> QED
        BY <3>1, <1>1, <1>6, <2>2, AppendProperties
  <2>4. Append(L, Shown(f)) = [i \in 1..(m + 2) |-> Append(L, Shown(f))[i]]
      BY <2>3, LenProperties
  <2> QED
      BY <1>3, <1>4, <1>5, <2>1, <2>3, <2>4
<1> QED
    BY <1>7 DEF L, M

\* InsertFloor adds a floor at the end.
LEMMA InsertReplies ==
    ASSUME IInv, NEW r \in Requests, InsertFloor(r), ~ RankingTaken(r),
           NEW h \in Holes, NEW u \in Users, NEW n \in Names,
           h = req[r].hole, u = req[r].user, n = req[r].name
    PROVE  HT!Reply(h, u, n)
<1>1. PICK k \in Nat : k = req[r].ranking
    BY DEF IInv, TypeOK, Request
<1> DEFINE f == [hole |-> h, ranking |-> k, user |-> u, name |-> n, deleted |-> FALSE]
<1>2. /\ req[r].pc = "locked"
      /\ floor' = floor \cup {f}
      /\ hole' = [hole EXCEPT ![h] = Replied(hole[h], k)]
    BY <1>1 DEF InsertFloor
<1>3. /\ hole \in [Holes -> HoleRow]
      /\ hole[h].state = "live" /\ k = hole[h].reply + 1
    BY <1>1, <1>2 DEF IInv, TypeOK, HandlersInv, RowLock, Live
<1>4. /\ Dense(FloorsOf(h), hole[h].reply)
      /\ Thread(h) = Listed(FloorsOf(h), hole[h].reply)
    BY <1>3, ThreadListed
<1>5. /\ hole'[h].state = "live" /\ hole'[h].reply = k
      /\ \A g \in Holes : g # h => hole'[g] = hole[g]
  <2>1. hole[h] \in HoleRow
      BY <1>3
  <2>2. /\ Replied(hole[h], k).reply = k
        /\ Replied(hole[h], k).state = "live"
      BY <1>3, <2>1, RepliedType
  <2> QED
      BY <1>2, <1>3, <2>2
<1>6. /\ FloorsOf(h)' = FloorsOf(h) \cup {f}
      /\ \A g \in Holes : g # h => FloorsOf(g)' = FloorsOf(g)
    BY <1>2 DEF FloorsOf
<1>7. Thread(h)' = Append(Thread(h), Shown(f))
  <2>1. Thread(h)' = Listed(FloorsOf(h) \cup {f}, k)
      BY <1>5, <1>6 DEF Thread, Listed, Shown
  <2>2. f.ranking = hole[h].reply + 1
      BY <1>3
  <2> HIDE DEF f
  <2>3. Listed(FloorsOf(h) \cup {f}, hole[h].reply + 1) =
           Append(Listed(FloorsOf(h), hole[h].reply), Shown(f))
      BY <1>4, <2>2, ListedAppend
  <2> QED
      BY <1>3, <1>4, <2>1, <2>3
<1>8. \A g \in Holes : g # h => Thread(g)' = Thread(g)
    BY <1>5, <1>6 DEF Thread
<1>9. HT!Consistent(Thread(h), u, n)
    BY <1>2, NameConsistent
<1> HIDE DEF f
<1>10. Shown(f) = [user |-> u, name |-> n, deleted |-> FALSE]
    BY DEF f, Shown
<1>11. [g \in Holes |-> Thread(g)]' =
          [[g \in Holes |-> Thread(g)] EXCEPT ![h] = Append(@, Shown(f))]
    BY <1>7, <1>8
<1>12. [g \in Holes |-> hole[g].state]' = [g \in Holes |-> hole[g].state]
    BY <1>3, <1>5
<1> QED
    BY <1>3, <1>9, <1>10, <1>11, <1>12 DEF HT!Reply

\* A floor with its text taken away.
Blank(f) == [f EXCEPT !.deleted = TRUE]

LEMMA BlankShown ==
    ASSUME NEW f \in FloorRow
    PROVE  /\ Blank(f).hole = f.hole /\ Blank(f).ranking = f.ranking
           /\ Shown(Blank(f)) = [Shown(f) EXCEPT !.deleted = TRUE]
<1>1. /\ Blank(f).hole = f.hole /\ Blank(f).ranking = f.ranking
      /\ Blank(f).user = f.user /\ Blank(f).name = f.name
      /\ Blank(f).deleted = TRUE
    BY DEF FloorRow, Blank
<1>2. ASSUME NEW u, NEW n, NEW b
      PROVE  [[user |-> u, name |-> n, deleted |-> b] EXCEPT !.deleted = TRUE] =
                [user |-> u, name |-> n, deleted |-> TRUE]
  <2>1. PICK X : X = {u, n, b, TRUE}
      OBVIOUS
  <2>2. [user |-> u, name |-> n, deleted |-> b] \in
           [user : X, name : X, deleted : X]
      BY <2>1
  <2>3. [user |-> u, name |-> n, deleted |-> TRUE] \in
           [user : X, name : X, deleted : X]
      BY <2>1
  <2> QED
      BY <2>1, <2>2, <2>3
<1> QED
    BY <1>1, <1>2 DEF Shown

\* Blank floors are listed blank, at the same places.
LEMMA ListedBlank ==
    ASSUME NEW S \in SUBSET FloorRow, NEW m, Dense(S, m)
    PROVE  Listed({Blank(f) : f \in S}, m) =
              [i \in DOMAIN Listed(S, m) |->
                  [Listed(S, m)[i] EXCEPT !.deleted = TRUE]]
<1> DEFINE T == {Blank(f) : f \in S}
<1>1. \A f \in S : Blank(f).ranking = f.ranking
    BY BlankShown
<1>2. {g.ranking : g \in T} = {f.ranking : f \in S}
    BY <1>1
<1>3. \A g \in T : \E f \in S : g = Blank(f) /\ g.ranking = f.ranking
    BY <1>1
<1>4. \A f \in S : Blank(f) \in T
    OBVIOUS
<1> HIDE DEF T
<1>5. Dense(T, m)
    BY <1>2, <1>3 DEF Dense
<1>6. ASSUME NEW i \in 1..(m + 1)
      PROVE  Listed(T, m)[i] = [Listed(S, m)[i] EXCEPT !.deleted = TRUE]
  <2>1. PICK f \in S : f.ranking = i - 1 /\ Listed(S, m)[i] = Shown(f)
      BY ListedFloors
  <2>2. Blank(f) \in T /\ Blank(f).ranking + 1 = i
    <3>1. m \in Nat /\ f.ranking + 1 = i
        BY <2>1 DEF Dense
    <3> QED
        BY <1>1, <1>4, <3>1
  <2>3. Listed(T, m)[i] = Shown(Blank(f))
    <3>1. Listed(T, m)[Blank(f).ranking + 1] = Shown(Blank(f))
        BY <1>5, <2>2, ListedFloors
    <3> QED
        BY <2>2, <3>1
  <2> QED
      BY <2>1, <2>3, BlankShown
<1>7. DOMAIN Listed(S, m) = 1..(m + 1) /\ DOMAIN Listed(T, m) = 1..(m + 1)
    BY DEF Listed
<1>8. Listed(T, m) = [i \in 1..(m + 1) |-> Listed(T, m)[i]]
    BY DEF Listed
<1> QED
    BY <1>6, <1>7, <1>8 DEF T

\* PurgeCommit closes the threads it has selected and blanks their floors.
LEMMA CommitPurges ==
    ASSUME IInv, PurgeCommit, NEW H, H = purging
    PROVE  H \in SUBSET Holes /\ HT!Purge(H)
<1>1. /\ H \subseteq Holes
      /\ \A h \in H : hole[h].state = "live"
      /\ hole \in [Holes -> HoleRow] /\ floor \subseteq FloorRow
    BY DEF IInv, TypeOK, HandlersInv, PurgeInv, PurgeTargets, Live
<1>2. \A h \in Holes : /\ hole'[h].reply = hole[h].reply
                       /\ hole'[h].state = IF h \in H THEN "deleted" ELSE hole[h].state
    BY <1>1 DEF PurgeCommit, Live, HoleRow
<1>3. floor' = {IF f.hole \in H THEN Blank(f) ELSE f : f \in floor}
    BY DEF PurgeCommit, Blank
<1>4. \A f \in floor : Blank(f).hole = f.hole
    BY <1>1, BlankShown
<1>5. ASSUME NEW h \in Holes \ H PROVE Thread(h)' = Thread(h)
  <2>1. FloorsOf(h)' = FloorsOf(h)
      BY <1>3, <1>4 DEF FloorsOf
  <2> QED
      BY <1>2, <2>1 DEF Thread
<1>6. ASSUME NEW h \in H
      PROVE  Thread(h)' = [i \in DOMAIN Thread(h) |->
                              [Thread(h)[i] EXCEPT !.deleted = TRUE]]
  <2>1. /\ Dense(FloorsOf(h), hole[h].reply)
        /\ Thread(h) = Listed(FloorsOf(h), hole[h].reply)
      BY <1>1, ThreadListed
  <2>2. FloorsOf(h)' = {Blank(f) : f \in FloorsOf(h)}
    <3>1. ASSUME NEW g \in FloorsOf(h)' PROVE g \in {Blank(f) : f \in FloorsOf(h)}
      <4>1. PICK f \in floor : g = IF f.hole \in H THEN Blank(f) ELSE f
          BY <1>3 DEF FloorsOf
      <4>2. f.hole = h
          BY <4>1, <1>4 DEF FloorsOf
      <4> QED
          BY <4>1, <4>2 DEF FloorsOf
    <3>2. ASSUME NEW f \in FloorsOf(h) PROVE Blank(f) \in FloorsOf(h)'
        BY <1>3, <1>4 DEF FloorsOf
    <3> QED
        BY <3>1, <3>2
  <2>3. FloorsOf(h) \in SUBSET FloorRow
      BY <1>1 DEF FloorsOf
  <2>4. Thread(h)' = Listed(FloorsOf(h)', hole[h].reply)
      BY <1>1, <1>2 DEF Thread, Listed, Shown
  <2> QED
      BY <2>1, <2>2, <2>3, <2>4, ListedBlank
<1> QED
    BY <1>1, <1>2, <1>5, <1>6 DEF HT!Purge

\* Every step of the write path is a step of the thread or leaves it alone.
LEMMA ThreadStep ==
    ASSUME IInv, [Next]_vars
    PROVE  [HT!Next]_(HT!vars)
<1>t. hole \in [Holes -> HoleRow]
    BY DEF IInv, TypeOK
<1>1. ASSUME NEW r \in Requests, RequestStep(r)
      PROVE  [HT!Next]_(HT!vars)
  <2>1. CASE InsertFloor(r) /\ ~ RankingTaken(r)
    <3>1. PICK h \in Holes, u \in Users, n \in Names :
             h = req[r].hole /\ u = req[r].user /\ n = req[r].name
        BY <2>1 DEF InsertFloor, IInv, LocalsOK, LocalOK
    <3>2. HT!Reply(h, u, n)
        BY <2>1, <3>1, InsertReplies
    <3> QED
        BY <3>2 DEF HT!Next
  <2>2. CASE ~ (InsertFloor(r) /\ ~ RankingTaken(r))
    <3>1. UNCHANGED <<hole, floor>>
        BY <1>1, <2>2 DEF RequestStep, Progress, Fail, CheckHole, FindAnonyname,
                          GenerateAnonyname, LockHole, InsertFloor, Rollback
    <3> QED
        BY <3>1, ThreadsKept
  <2> QED
      BY <2>1, <2>2
<1>2. ASSUME NEW h \in Holes, HoleStep(h)
      PROVE  [HT!Next]_(HT!vars)
  <2>1. ASSUME NEW u \in Users, CreateHole(u, h)
        PROVE  [HT!Next]_(HT!vars)
      BY <2>1, CreateOpens DEF HT!Next
  <2>2. ASSUME NEW u \in Users, DeleteHole(u, h)
        PROVE  [HT!Next]_(HT!vars)
    <3>1. /\ hole[h].state = "live" /\ UNCHANGED floor
          /\ hole' = [hole EXCEPT ![h].state = "deleted"]
        BY <2>2 DEF DeleteHole, Live
    <3>2. /\ \A k \in Holes : hole'[k].reply = hole[k].reply
          /\ \A k \in Holes : hole'[k].state = IF k = h THEN "deleted" ELSE hole[k].state
        BY <1>t, <3>1 DEF HoleRow
    <3>3. \A k \in Holes : (hole'[k].state = "absent") <=> (hole[k].state = "absent")
        BY <3>1, <3>2
    <3>4. \A k \in Holes : FloorsOf(k)' = FloorsOf(k)
        BY <3>1 DEF FloorsOf
    <3>5. \A k \in Holes : Thread(k)' = Thread(k)
        BY <3>2, <3>3, <3>4 DEF Thread
    <3>6. HT!Close(h)
        BY <3>1, <3>2, <3>5 DEF HT!Close
    <3> QED
        BY <3>6 DEF HT!Next
  <2>3. CASE ModifyHole(h) \/ HideHole(h) \/ ApproveFirstFloor(h) \/ Age(h)
    <3>1. UNCHANGED floor
        BY <2>3 DEF ModifyHole, HideHole, ApproveFirstFloor, Age
    <3>2. ASSUME NEW k \in Holes
          PROVE  hole'[k].state = hole[k].state /\ hole'[k].reply = hole[k].reply
      <4>1. CASE ModifyHole(h)
          BY <1>t, <4>1 DEF ModifyHole, HoleRow
      <4>2. CASE HideHole(h) \/ ApproveFirstFloor(h) \/ Age(h)
          BY <1>t, <4>2 DEF HideHole, ApproveFirstFloor, Age, HoleRow
      <4> QED
          BY <2>3, <4>1, <4>2
    <3> QED
        BY <3>1, <3>2, ThreadsKept
  <2> QED
      BY <1>2, <2>1, <2>2, <2>3 DEF HoleStep, Moderation
<1>3. CASE PurgeCommit
  <2>1. PICK H : H = purging
      OBVIOUS
  <2>2. H \in SUBSET Holes /\ HT!Purge(H)
      BY <1>3, <2>1, CommitPurges
  <2> QED
      BY <2>2 DEF HT!Next
<1>4. CASE PurgeSelect \/ PurgeFail \/ UNCHANGED vars
  <2>1. UNCHANGED <<hole, floor>>
      BY <1>4 DEF PurgeSelect, PurgeFail, vars
  <2> QED
      BY <2>1, ThreadsKept
<1> QED
    BY <1>1, <1>2, <1>3, <1>4 DEF Next

\* At the start no thread is open.
LEMMA ThreadInit == Init => HT!Init
  BY DEF Init, HT!Init, Thread

\* The write path, with all its handlers, locks and the purge, implements the
\* thread a hole promises its readers: opened once, longer by one floor at its
\* end per reply, consistent in its names, closed for good.
THEOREM Refinement == Spec => ImplementsThread
<1>1. IInv /\ [Next]_vars => [HT!Next]_(HT!vars)
    BY ThreadStep
<1> QED
    BY <1>1, ThreadInit, Invariance, PTL DEF Spec, ImplementsThread, HT!Spec
=============================================================================
