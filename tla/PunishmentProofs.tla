-------------------------- MODULE PunishmentProofs --------------------------
(***************************************************************************)
(* Proofs about Punishment for any number of users, floors, reports and    *)
(* handlers, and any durations.  The row lock makes what a handler read    *)
(* the row it saves over; so offences are counted once, bans from          *)
(* reporting follow one another, and a ban from a division ends after the  *)
(* days of the floors it was made longer for.  Those days are counted one  *)
(* by one (DaysIn), for a sum over a set has no recursion to unfold here.  *)
(***************************************************************************)
EXTENDS Punishment, FiniteSetTheorems, SequenceTheorems, TLAPS

\* The part of the invariant about rows, locks and records.
RowInv ==
    /\ TypeOK /\ LockInv /\ LocalsInv
    /\ OffencesCounted /\ ReportBansConsecutive

\* What LocalsInv says of one request.
LocalOK(l) ==
    /\ l.step \in {"ban", "forever", "report"} => l.user \in Users
    /\ l.step = "ban" =>
         /\ l.floor \in Floors /\ l.division \in Divisions
         /\ l.user = Author[l.floor]
    /\ l.step = "report" => l.report \in Reports /\ l.user = Reporter[l.report]
    /\ l.step \in {"ban", "report"} => l.days \in Durations

\* A request that holds no lock after its step, while the rows other handlers
\* hold stay as they are.
LEMMA LocalsStep ==
    ASSUME TypeOK, LockInv, LocalsInv, NEW r \in Requests, NEW l \in Request,
           req' = [req EXCEPT ![r] = l], l.row = None, LocalOK(l),
           \A q \in Requests :
              q # r /\ req[q].row # None => user'[req[q].user] = user[req[q].user]
    PROVE  req' \in [Requests -> Request] /\ LockInv' /\ LocalsInv'
<1>1. req' \in [Requests -> Request]
  BY DEF TypeOK
<1>2. req'[r] = l /\ \A q \in Requests : q # r => req'[q] = req[q]
  BY DEF TypeOK
<1>3. LockInv'
  BY <1>2 DEF LockInv
<1>4. LocalsInv'
  BY <1>2 DEF LocalsInv, LocalOK
<1> QED
  BY <1>1, <1>3, <1>4

LEMMA AnswerStep ==
    ASSUME TypeOK, LockInv, LocalsInv, NEW r \in Requests, Answer(r),
           \A q \in Requests :
              q # r /\ req[q].row # None => user'[req[q].user] = user[req[q].user]
    PROVE  req' \in [Requests -> Request] /\ LockInv' /\ LocalsInv'
<1>1. PICK l \in Request : l = [New EXCEPT !.step = "done"]
  BY DEF New, Request
<1>2. l.row = None /\ LocalOK(l)
  BY <1>1 DEF New, LocalOK
<1> QED
  BY <1>1, <1>2, LocalsStep DEF Answer

\* The holder of a lock may write the row of its user: nobody else holds it.
LEMMA HolderOnly ==
    ASSUME LockInv, NEW r \in Requests, req[r].row # None,
           \A v \in Users : v # req[r].user => user'[v] = user[v],
           LocalsInv
    PROVE  \A q \in Requests :
              q # r /\ req[q].row # None => user'[req[q].user] = user[req[q].user]
BY DEF LockInv, LocalsInv

LEMMA InitRowInv == Init => RowInv
<1> SUFFICES ASSUME Init PROVE RowInv
  OBVIOUS
<1> USE DEF Init
<1>1. New \in Request
  BY DEF New, Request
<1>2. TypeOK
  <2>1. user \in [Users -> UserRow]
    BY DEF UserRow, Ban
  <2>2. reportPunishment \in [Users -> Seq(ReportRecord)]
    BY EmptySeq
  <2>3. \A u \in Users : counted[u] \in [Divisions -> SUBSET Floors]
    OBVIOUS
  <2> QED
    BY <1>1, <2>1, <2>2, <2>3 DEF TypeOK, Time
<1>3. LockInv /\ LocalsInv
  BY DEF LockInv, LocalsInv, New
<1>4. OffencesCounted
  <2>1. \A u \in Users : Punished(u) = {}
    BY DEF Punished
  <2>2. \A u \in Users : user[u].OffenceCount = 0 /\ forever[u] = 0
    OBVIOUS
  <2>3. \A u \in Users : Cardinality(Punished(u)) = 0
    BY <2>1, FS_EmptySet
  <2>4. \A u \in Users :
          user[u].OffenceCount = Cardinality(Punished(u)) + forever[u]
    BY <2>2, <2>3
  <2> QED
    BY <2>4 DEF OffencesCounted
<1>5. ReportBansConsecutive
  BY DEF ReportBansConsecutive
<1> QED
  BY <1>2, <1>3, <1>4, <1>5 DEF RowInv

-----------------------------------------------------------------------------
(* Steps that do not change rows of users *)

\* A handler starts, or ends without a change.
LEMMA OnlyLocals ==
    ASSUME RowInv, NEW r \in Requests, NEW l \in Request,
           req' = [req EXCEPT ![r] = l], l.row = None, LocalOK(l),
           UNCHANGED <<now, division, user, punishment, forever, reportPunishment,
                       history>>
    PROVE  RowInv'
<1> USE DEF RowInv
<1>1. req' \in [Requests -> Request] /\ LockInv' /\ LocalsInv'
  BY LocalsStep
<1>2. TypeOK'
  BY <1>1 DEF TypeOK, history
<1>3. OffencesCounted' /\ ReportBansConsecutive'
  BY DEF OffencesCounted, Punished, ReportBansConsecutive
<1> QED
  BY <1>1, <1>2, <1>3

LEMMA StartStep ==
    ASSUME RowInv, NEW r \in Requests,
           \/ \E f \in Floors, n \in Days : BanUser(r, f, n)
           \/ \E f \in Floors : BanUserForever(r, f)
           \/ \E p \in Reports, n \in Days : BanReporter(r, p, n)
           \/ Fail(r)
    PROVE  RowInv'
<1>1. ASSUME NEW f \in Floors, NEW n \in Days, BanUser(r, f, n)
      PROVE  RowInv'
  <2>1. division[f] \in Divisions /\ Author[f] \in Users /\ n \in Nat
    BY PeopleAssumption, DaysAssumption DEF RowInv, TypeOK
  <2>2. PICK l \in Request :
          l = [New EXCEPT !.step = "ban", !.user = Author[f],
                 !.floor = f, !.division = division[f], !.days = n]
    BY <2>1 DEF New, Request
  <2>3. l.row = None /\ LocalOK(l)
    BY <2>1, <2>2 DEF New, LocalOK, Durations
  <2> QED
    BY <1>1, <2>2, <2>3, OnlyLocals DEF BanUser
<1>2. ASSUME NEW f \in Floors, BanUserForever(r, f)
      PROVE  RowInv'
  <2>1. Author[f] \in Users
    BY PeopleAssumption
  <2>2. PICK l \in Request : l = [New EXCEPT !.step = "forever", !.user = Author[f]]
    BY <2>1 DEF New, Request
  <2>3. l.row = None /\ LocalOK(l)
    BY <2>1, <2>2 DEF New, LocalOK
  <2> QED
    BY <1>2, <2>2, <2>3, OnlyLocals DEF BanUserForever
<1>3. ASSUME NEW p \in Reports, NEW n \in Days, BanReporter(r, p, n)
      PROVE  RowInv'
  <2>1. Reporter[p] \in Users
    BY PeopleAssumption
  <2>2. PICK m \in Nat : m = (IF n = 0 THEN 1 ELSE n) /\ m \in Durations
    BY DaysAssumption DEF Durations
  <2>3. PICK l \in Request :
          l = [New EXCEPT !.step = "report", !.user = Reporter[p],
                 !.report = p, !.days = m]
    BY <2>1 DEF New, Request
  <2>4. l.row = None /\ LocalOK(l)
    BY <2>1, <2>2, <2>3 DEF New, LocalOK
  <2> QED
    BY <1>3, <2>2, <2>3, <2>4, OnlyLocals DEF BanReporter
<1>4. CASE Fail(r)
  <2>1. PICK l \in Request : l = [New EXCEPT !.step = "done"]
    BY DEF New, Request
  <2>2. l.row = None /\ LocalOK(l)
    BY <2>1 DEF New, LocalOK
  <2> QED
    BY <1>4, <2>1, <2>2, OnlyLocals DEF Fail, Answer
<1> QED
  BY <1>1, <1>2, <1>3, <1>4

\* The lock is taken when nobody holds it, and the row read as it is.
LEMMA LockStep ==
    ASSUME RowInv, NEW r \in Requests, LockUser(r)
    PROVE  RowInv'
<1> USE DEF RowInv
<1>1. /\ req[r] \in Request /\ req[r].step \in {"ban", "forever", "report"}
      /\ req[r].user \in Users
  BY DEF LockUser, TypeOK, LocalsInv
<1>2. PICK x \in UserRow : x = user[req[r].user]
  BY <1>1 DEF TypeOK
<1>3. PICK l \in Request : l = [req[r] EXCEPT !.row = x]
  BY <1>1 DEF Request
<1>4. /\ l.row = x /\ l.step = req[r].step /\ l.user = req[r].user
      /\ l.floor = req[r].floor /\ l.division = req[r].division
      /\ l.report = req[r].report /\ l.days = req[r].days
  BY <1>1, <1>3 DEF Request
<1>5. /\ req' = [req EXCEPT ![r] = l]
      /\ \A q \in Requests : req[q].user = req[r].user => req[q].row = None
      /\ UNCHANGED <<now, division, user, punishment, forever, reportPunishment,
                     from, counted, drifted>>
  BY <1>2, <1>3 DEF LockUser, LockFree, history
<1>6. req' \in [Requests -> Request]
  BY <1>5 DEF TypeOK
<1>7. req'[r] = l /\ \A q \in Requests : q # r => req'[q] = req[q]
  BY <1>5 DEF TypeOK
<1>8. LockInv'
  BY <1>1, <1>2, <1>4, <1>5, <1>7 DEF LockInv
<1>9. LocalsInv'
  BY <1>4, <1>7 DEF LocalsInv
<1>10. TypeOK'
  BY <1>5, <1>6 DEF TypeOK
<1>11. OffencesCounted' /\ ReportBansConsecutive'
  BY <1>5 DEF OffencesCounted, Punished, ReportBansConsecutive
<1> QED
  BY <1>8, <1>9, <1>10, <1>11

LEMMA EnvironmentStep ==
    ASSUME RowInv,
           \/ \E f \in Floors, d \in Divisions : MoveHole(f, d)
           \/ Tick \/ UNCHANGED vars
    PROVE  RowInv'
<1> USE DEF RowInv
<1>1. /\ now' \in Time /\ division' \in [Floors -> Divisions]
      /\ UNCHANGED <<user, punishment, forever, reportPunishment, req, from, counted,
                     drifted>>
  <2>1. CASE \E f \in Floors, d \in Divisions : MoveHole(f, d)
    BY <2>1 DEF MoveHole, history, TypeOK
  <2>2. CASE Tick
    BY <2>2 DEF Tick, history, TypeOK, Time
  <2>3. CASE UNCHANGED vars
    BY <2>3 DEF vars, history, TypeOK
  <2> QED
    BY <2>1, <2>2, <2>3
<1>2. TypeOK'
  BY <1>1 DEF TypeOK
<1>3. LockInv' /\ LocalsInv'
  BY <1>1 DEF LockInv, LocalsInv
<1>4. OffencesCounted' /\ ReportBansConsecutive'
  BY <1>1 DEF OffencesCounted, Punished, ReportBansConsecutive
<1> QED
  BY <1>2, <1>3, <1>4

-----------------------------------------------------------------------------
(* Steps that save a row *)

\* The row of one user, and what a handler read of it.
LEMMA RowRead ==
    ASSUME RowInv, NEW r \in Requests, req[r].row # None
    PROVE  /\ req[r] \in Request
           /\ req[r].user \in Users
           /\ req[r].row = user[req[r].user]
           /\ user[req[r].user] \in UserRow
BY DEF RowInv, TypeOK, LockInv, LocalsInv

\* Saving the columns BanDivision and OffenceCount.
LEMMA BansSaved ==
    ASSUME user \in [Users -> UserRow], NEW u \in Users,
           NEW c \in Nat, NEW b \in [Divisions -> Ban],
           user' = [user EXCEPT ![u].OffenceCount = c, ![u].BanDivision = b]
    PROVE  /\ user' \in [Users -> UserRow]
           /\ user'[u].OffenceCount = c
           /\ user'[u].BanReport = user[u].BanReport
           /\ user'[u].BanReportCount = user[u].BanReportCount
           /\ \A v \in Users : v # u => user'[v] = user[v]
<1>1. user[u] \in UserRow
  OBVIOUS
<1>2. PICK x \in UserRow : x = [user[u] EXCEPT !.OffenceCount = c, !.BanDivision = b]
  BY <1>1 DEF UserRow
<1>3. /\ x.OffenceCount = c /\ x.BanReport = user[u].BanReport
      /\ x.BanReportCount = user[u].BanReportCount
  BY <1>1, <1>2 DEF UserRow
<1>4. user' = [user EXCEPT ![u] = x]
  BY <1>2
<1> QED
  BY <1>3, <1>4

LEMMA LoginStep ==
    ASSUME RowInv, NEW u \in Users, Login(u)
    PROVE  RowInv'
<1> USE DEF RowInv
<1> DEFINE over == {d \in Divisions : /\ user[u].BanDivision[d] # None
                                      /\ user[u].BanDivision[d] < now}
           b == [d \in Divisions |-> IF d \in over THEN None ELSE user[u].BanDivision[d]]
           k == [d \in Divisions |-> IF d \in over THEN {} ELSE counted[u][d]]
<1>1. user[u] \in UserRow /\ counted[u] \in [Divisions -> SUBSET Floors]
  BY DEF TypeOK
<1>2. b \in [Divisions -> Ban] /\ k \in [Divisions -> SUBSET Floors]
  BY <1>1 DEF UserRow, Ban
<1>3. /\ user' = [user EXCEPT ![u].BanDivision = b]
      /\ counted' = [counted EXCEPT ![u] = k]
      /\ drifted' = drifted \ {<<u, d>> : d \in over}
      /\ UNCHANGED <<now, division, punishment, forever, reportPunishment, req, from>>
  BY DEF Login
<1>4. \A q \in Requests : req[q].user = u => req[q].row = None
  BY DEF Login, LockFree
<1> HIDE DEF over, b, k
<1>5. /\ user' \in [Users -> UserRow]
      /\ user'[u].OffenceCount = user[u].OffenceCount
      /\ user'[u].BanReport = user[u].BanReport
      /\ user'[u].BanReportCount = user[u].BanReportCount
      /\ \A v \in Users : v # u => user'[v] = user[v]
  BY <1>1, <1>2, <1>3 DEF TypeOK, UserRow
<1>6. TypeOK'
  <2>1. counted' \in [Users -> [Divisions -> SUBSET Floors]]
    BY <1>2, <1>3 DEF TypeOK
  <2> QED
    BY <1>3, <1>5, <2>1 DEF TypeOK
<1>7. LockInv' /\ LocalsInv'
  BY <1>3, <1>4, <1>5 DEF LockInv, LocalsInv
<1>8. OffencesCounted'
  BY <1>3, <1>5 DEF OffencesCounted, Punished
<1>9. ReportBansConsecutive'
  BY <1>3, <1>5 DEF ReportBansConsecutive
<1> QED
  BY <1>6, <1>7, <1>8, <1>9

\* One record and one offence more.
LEMMA PunishStep ==
    ASSUME RowInv, NEW r \in Requests, Punish(r)
    PROVE  RowInv'
<1> USE DEF RowInv
<1>1. req[r].step = "ban" /\ req[r].row # None
  BY DEF Punish
<1>2. PICK u \in Users, f \in Floors, d \in Divisions, n \in Nat, x \in UserRow :
        /\ u = req[r].user /\ f = req[r].floor /\ d = req[r].division
        /\ n = req[r].days /\ x = req[r].row
        /\ x = user[u] /\ u = Author[f]
  BY <1>1, RowRead DEF LocalsInv, Request
<1>3. PICK e \in Ban : e = IF x.BanDivision[d] = None THEN now + n
                           ELSE x.BanDivision[d] + n
  <2>1. now + n \in Ban
    BY DEF Ban, TypeOK, Time
  <2>2. x.BanDivision[d] # None => x.BanDivision[d] + n \in Ban
    BY DEF UserRow, Ban
  <2> QED
    BY <2>1, <2>2
<1>4. PICK b \in [Divisions -> Ban] : b = [x.BanDivision EXCEPT ![d] = e]
  BY DEF UserRow
<1>5. PICK p \in Record : p = [start |-> now, end |-> now + n, days |-> n, division |-> d]
  <2>1. now \in Nat /\ now + n \in Nat
    BY DEF TypeOK, Time
  <2> QED
    BY <2>1 DEF Record, Time
<1>6. /\ punishment[f] = None
      /\ punishment' = [punishment EXCEPT ![f] = p]
      /\ user' = [user EXCEPT ![u].OffenceCount = x.OffenceCount + 1,
                              ![u].BanDivision = b]
      /\ from' = IF x.BanDivision[d] = None THEN [from EXCEPT ![u][d] = now] ELSE from
      /\ counted' = [counted EXCEPT ![u][d] = @ \cup {f}]
      /\ Answer(r)
      /\ UNCHANGED <<now, division, forever, reportPunishment, drifted>>
  BY <1>2, <1>3, <1>4, <1>5 DEF Punish
<1>7. /\ user' \in [Users -> UserRow]
      /\ user'[u].OffenceCount = user[u].OffenceCount + 1
      /\ user'[u].BanReport = user[u].BanReport
      /\ user'[u].BanReportCount = user[u].BanReportCount
      /\ \A v \in Users : v # u => user'[v] = user[v]
  <2>1. PICK c \in Nat : c = x.OffenceCount + 1
    BY DEF UserRow
  <2>2. user' = [user EXCEPT ![u].OffenceCount = c, ![u].BanDivision = b]
    BY <1>6, <2>1
  <2>3. user \in [Users -> UserRow]
    BY DEF TypeOK
  <2>4. /\ user' \in [Users -> UserRow]
        /\ user'[u].OffenceCount = c
        /\ user'[u].BanReport = user[u].BanReport
        /\ user'[u].BanReportCount = user[u].BanReportCount
        /\ \A v \in Users : v # u => user'[v] = user[v]
    BY <2>2, <2>3, BansSaved
  <2> QED
    BY <1>2, <2>1, <2>4
<1>8. req' \in [Requests -> Request] /\ LockInv' /\ LocalsInv'
  BY <1>1, <1>2, <1>6, <1>7, HolderOnly, AnswerStep
<1>9. /\ punishment' \in [Floors -> Record \cup {None}]
      /\ punishment'[f] # None
      /\ \A g \in Floors : g # f => punishment'[g] = punishment[g]
  <2>1. p # None
    BY RecordAssumption
  <2> QED
    BY <1>6, <2>1 DEF TypeOK
<1>10. TypeOK'
  <2>1. from' \in [Users -> [Divisions -> Nat]]
    BY <1>6 DEF TypeOK, Time
  <2>2. counted' \in [Users -> [Divisions -> SUBSET Floors]]
    BY <1>6 DEF TypeOK
  <2> QED
    BY <1>6, <1>7, <1>8, <1>9, <2>1, <2>2 DEF TypeOK
<1>11. OffencesCounted'
  <2>1. Punished(u)' = Punished(u) \cup {f} /\ f \notin Punished(u)
    BY <1>2, <1>6, <1>9 DEF Punished
  <2>2. \A v \in Users : v # u => Punished(v)' = Punished(v)
    BY <1>2, <1>9 DEF Punished
  <2>3. IsFiniteSet(Punished(u)) /\ Cardinality(Punished(u)) \in Nat
    BY FiniteAssumption, FS_Subset, FS_CardinalityType DEF Punished
  <2>4. Cardinality(Punished(u) \cup {f}) = Cardinality(Punished(u)) + 1
    BY <2>1, <2>3, FS_AddElement
  <2>5. user'[u].OffenceCount = Cardinality(Punished(u)') + forever'[u]
    <3>1. user[u].OffenceCount = Cardinality(Punished(u)) + forever[u]
      BY DEF OffencesCounted
    <3>2. forever' = forever /\ forever[u] \in Nat
      BY <1>6 DEF TypeOK
    <3> QED
      BY <1>7, <2>1, <2>3, <2>4, <3>1, <3>2
  <2>6. ASSUME NEW v \in Users, v # u
        PROVE  user'[v].OffenceCount = Cardinality(Punished(v)') + forever'[v]
    BY <1>6, <1>7, <2>2, <2>6 DEF OffencesCounted
  <2> QED
    BY <2>5, <2>6 DEF OffencesCounted
<1>12. ReportBansConsecutive'
  BY <1>6, <1>7 DEF ReportBansConsecutive
<1> QED
  BY <1>8, <1>10, <1>11, <1>12

\* A revision keeps the number of records, and of offences.
LEMMA ReviseStep ==
    ASSUME RowInv, NEW r \in Requests, Revise(r)
    PROVE  RowInv'
<1> USE DEF RowInv
<1>1. req[r].step = "ban" /\ req[r].row # None
  BY DEF Revise
<1>2. PICK u \in Users, f \in Floors, d \in Divisions, n \in Nat, x \in UserRow :
        /\ u = req[r].user /\ f = req[r].floor /\ d = req[r].division
        /\ n = req[r].days /\ x = req[r].row
        /\ x = user[u] /\ u = Author[f]
  BY <1>1, RowRead DEF LocalsInv, Request
<1>3. PICK p \in Record : p = punishment[f]
  BY <1>2 DEF Revise, TypeOK
<1>4. PICK e \in Ban : e = IF x.BanDivision[d] = None THEN p.start + n
                           ELSE Changed(x.BanDivision[d], n, p.days)
  <2>1. p.start + n \in Ban
    BY DEF Ban, Record, Time
  <2>2. x.BanDivision[d] # None => Changed(x.BanDivision[d], n, p.days) \in Ban
    BY DEF UserRow, Ban, Changed, Record
  <2> QED
    BY <2>1, <2>2
<1>5. PICK b \in [Divisions -> Ban] : b = [x.BanDivision EXCEPT ![d] = e]
  BY DEF UserRow
<1>6. PICK q \in Record : q = Revised(p, d, n)
  <2>1. p.start + n \in Nat
    BY DEF Record, Time
  <2> QED
    BY <2>1 DEF Revised, Record, Time
<1>7. /\ punishment' = [punishment EXCEPT ![f] = q]
      /\ user' = [user EXCEPT ![u].BanDivision = b]
      /\ from' = IF x.BanDivision[d] = None THEN [from EXCEPT ![u][d] = p.start]
                 ELSE from
      /\ counted' = IF x.BanDivision[d] = None THEN [counted EXCEPT ![u][d] = {f}]
                    ELSE counted
      /\ Answer(r)
      /\ UNCHANGED <<now, division, forever, reportPunishment>>
  BY <1>2, <1>3, <1>4, <1>5, <1>6 DEF Revise
<1>8. /\ user' \in [Users -> UserRow]
      /\ user'[u].OffenceCount = user[u].OffenceCount
      /\ user'[u].BanReport = user[u].BanReport
      /\ user'[u].BanReportCount = user[u].BanReportCount
      /\ \A v \in Users : v # u => user'[v] = user[v]
  BY <1>2, <1>7 DEF TypeOK, UserRow
<1>9. req' \in [Requests -> Request] /\ LockInv' /\ LocalsInv'
  BY <1>1, <1>2, <1>7, <1>8, HolderOnly, AnswerStep
<1>10. /\ punishment' \in [Floors -> Record \cup {None}]
       /\ \A g \in Floors : punishment'[g] # None <=> punishment[g] # None
  <2>1. p # None /\ q # None
    BY RecordAssumption
  <2> QED
    BY <1>3, <1>7, <2>1 DEF TypeOK
<1>11. TypeOK'
  <2>1. from' \in [Users -> [Divisions -> Nat]]
    BY <1>7 DEF TypeOK, Record, Time
  <2>2. counted' \in [Users -> [Divisions -> SUBSET Floors]]
    BY <1>7 DEF TypeOK
  <2>3. drifted' \subseteq Users \X Divisions
    BY <1>2 DEF Revise, TypeOK
  <2> QED
    BY <1>7, <1>8, <1>9, <1>10, <2>1, <2>2, <2>3 DEF TypeOK
<1>12. OffencesCounted'
  <2>1. \A v \in Users : Punished(v)' = Punished(v)
    BY <1>10 DEF Punished
  <2>2. \A v \in Users : user'[v].OffenceCount = user[v].OffenceCount
    BY <1>8
  <2> QED
    BY <1>7, <2>1, <2>2 DEF OffencesCounted
<1>13. ReportBansConsecutive'
  BY <1>7, <1>8 DEF ReportBansConsecutive
<1> QED
  BY <1>9, <1>11, <1>12, <1>13

\* One record and one offence more for each division that is not excluded.
LEMMA PunishForeverStep ==
    ASSUME RowInv, NEW r \in Requests, PunishForever(r)
    PROVE  RowInv'
<1> USE DEF RowInv
<1>1. req[r].step = "forever" /\ req[r].row # None
  BY DEF PunishForever
<1>2. PICK u \in Users, x \in UserRow :
        u = req[r].user /\ x = req[r].row /\ x = user[u]
  BY <1>1, RowRead
<1> DEFINE all == Divisions \ Excluded
<1>3. PICK m \in Nat : m = Cardinality(all)
  BY FiniteAssumption, FS_Subset, FS_CardinalityType
<1> DEFINE s == [d \in Divisions |-> IF d \in all THEN now + Forever ELSE from[u][d]]
           k == [d \in Divisions |-> IF d \in all THEN {} ELSE counted[u][d]]
<1>4. now + Forever \in Nat /\ now + Forever \in Ban
  BY DaysAssumption DEF Ban, TypeOK, Time
<1>5. PICK b \in [Divisions -> Ban] :
        b = [d \in Divisions |-> IF d \in all THEN now + Forever ELSE x.BanDivision[d]]
  BY <1>4 DEF UserRow
<1>6. /\ forever' = [forever EXCEPT ![u] = @ + m]
      /\ user' = [user EXCEPT ![u].OffenceCount = x.OffenceCount + m,
                              ![u].BanDivision = b]
      /\ from' = [from EXCEPT ![u] = s]
      /\ counted' = [counted EXCEPT ![u] = k]
      /\ drifted' = drifted \ {<<u, d>> : d \in all}
      /\ Answer(r)
      /\ UNCHANGED <<now, division, punishment, reportPunishment>>
  BY <1>2, <1>3, <1>5 DEF PunishForever
<1>7. s \in [Divisions -> Nat] /\ k \in [Divisions -> SUBSET Floors]
  BY <1>4 DEF TypeOK
<1> HIDE DEF all, s, k
<1>8. /\ user' \in [Users -> UserRow]
      /\ user'[u].OffenceCount = user[u].OffenceCount + m
      /\ user'[u].BanReport = user[u].BanReport
      /\ user'[u].BanReportCount = user[u].BanReportCount
      /\ \A v \in Users : v # u => user'[v] = user[v]
  <2>1. PICK c \in Nat : c = x.OffenceCount + m
    BY DEF UserRow
  <2>2. user' = [user EXCEPT ![u].OffenceCount = c, ![u].BanDivision = b]
    BY <1>6, <2>1
  <2>3. user \in [Users -> UserRow]
    BY DEF TypeOK
  <2>4. /\ user' \in [Users -> UserRow]
        /\ user'[u].OffenceCount = c
        /\ user'[u].BanReport = user[u].BanReport
        /\ user'[u].BanReportCount = user[u].BanReportCount
        /\ \A v \in Users : v # u => user'[v] = user[v]
    BY <2>2, <2>3, BansSaved
  <2> QED
    BY <1>2, <2>1, <2>4
<1>9. req' \in [Requests -> Request] /\ LockInv' /\ LocalsInv'
  BY <1>1, <1>2, <1>6, <1>8, HolderOnly, AnswerStep
<1>10. TypeOK'
  <2>1. /\ forever' \in [Users -> Nat]
        /\ from' \in [Users -> [Divisions -> Nat]]
        /\ counted' \in [Users -> [Divisions -> SUBSET Floors]]
    BY <1>6, <1>7 DEF TypeOK
  <2> QED
    BY <1>6, <1>8, <1>9, <2>1 DEF TypeOK
<1>11. OffencesCounted'
  <2>1. \A v \in Users : Punished(v)' = Punished(v)
    BY <1>6 DEF Punished
  <2>2. \A v \in Users : Cardinality(Punished(v)) \in Nat
    BY FiniteAssumption, FS_Subset, FS_CardinalityType DEF Punished
  <2>3. user'[u].OffenceCount = Cardinality(Punished(u)) + forever'[u]
    <3>1. user[u].OffenceCount = Cardinality(Punished(u)) + forever[u]
      BY DEF OffencesCounted
    <3>2. forever[u] \in Nat /\ forever'[u] = forever[u] + m
      BY <1>6 DEF TypeOK
    <3> QED
      BY <1>8, <2>2, <3>1, <3>2
  <2>4. \A v \in Users : v # u => forever'[v] = forever[v]
    BY <1>6 DEF TypeOK
  <2>5. ASSUME NEW v \in Users, v # u
        PROVE  user'[v].OffenceCount = Cardinality(Punished(v)) + forever'[v]
    BY <1>8, <2>4, <2>5 DEF OffencesCounted
  <2> QED
    BY <2>1, <2>3, <2>5 DEF OffencesCounted
<1>12. ReportBansConsecutive'
  BY <1>6, <1>8 DEF ReportBansConsecutive
<1> QED
  BY <1>9, <1>10, <1>11, <1>12

\* A ban from reporting starts when the last one ends, or now.
LEMMA PunishReporterStep ==
    ASSUME RowInv, NEW r \in Requests, PunishReporter(r)
    PROVE  RowInv'
<1> USE DEF RowInv
<1>1. req[r].step = "report" /\ req[r].row # None
  BY DEF PunishReporter
<1>2. PICK u \in Users, p \in Reports, n \in Nat, x \in UserRow :
        /\ u = req[r].user /\ p = req[r].report /\ n = req[r].days
        /\ x = req[r].row /\ x = user[u]
  BY <1>1, RowRead DEF LocalsInv, Request
<1>3. PICK t \in Seq(ReportRecord) : t = reportPunishment[u]
  BY DEF TypeOK
<1>4. /\ Len(t) \in Nat
      /\ \A i \in 1..Len(t) : t[i] \in ReportRecord
      /\ t # << >> => Len(t) \in 1..Len(t)
      /\ DOMAIN t = 1..Len(t)
  BY ElementOfSeq, LenProperties, EmptySeq
<1>5. PICK start \in Nat : start = StartOf(u)
  <2>1. t # << >> => t[Len(t)].end \in Nat
    BY <1>4 DEF ReportRecord, Time
  <2> QED
    BY <1>3, <2>1 DEF StartOf, TypeOK, Time
<1>6. t # << >> => t[Len(t)].end <= start
  <2>1. t # << >> => t[Len(t)].end \in Nat /\ now \in Nat
    BY <1>4 DEF ReportRecord, TypeOK, Time
  <2> QED
    BY <1>3, <1>5, <2>1 DEF StartOf
<1>7. PICK c \in ReportRecord : c = [report |-> p, start |-> start, end |-> start + n]
  <2>1. start + n \in Nat
    OBVIOUS
  <2> QED
    BY <2>1 DEF ReportRecord, Time
<1>8. /\ c.report = p /\ c.start = start /\ c.end = start + n
      /\ start + n \in Ban
  BY <1>7 DEF Ban
<1>9. /\ reportPunishment' = [reportPunishment EXCEPT ![u] = Append(t, c)]
      /\ user' = [user EXCEPT ![u].BanReport = start + n,
                              ![u].BanReportCount = x.BanReportCount + 1]
      /\ \A i \in DOMAIN t : t[i].report # p
      /\ Answer(r)
      /\ UNCHANGED <<now, division, punishment, forever, from, counted, drifted>>
  BY <1>2, <1>3, <1>5, <1>7 DEF PunishReporter, history
<1>10. /\ Append(t, c) \in Seq(ReportRecord)
       /\ Len(Append(t, c)) = Len(t) + 1
       /\ \A i \in 1..Len(t) : Append(t, c)[i] = t[i]
       /\ Append(t, c)[Len(t) + 1] = c
       /\ DOMAIN Append(t, c) = 1..(Len(t) + 1)
       /\ Append(t, c) # << >>
  BY AppendProperties, LenProperties
<1>11. PICK y \in UserRow : y = [x EXCEPT !.BanReport = start + n,
                                          !.BanReportCount = x.BanReportCount + 1]
  <2>1. x.BanReportCount + 1 \in Nat
    BY DEF UserRow
  <2> QED
    BY <1>8, <2>1 DEF UserRow
<1>12. /\ user' = [user EXCEPT ![u] = y]
       /\ y.BanReport = start + n /\ y.BanReportCount = x.BanReportCount + 1
       /\ y.OffenceCount = x.OffenceCount
  BY <1>2, <1>9, <1>11 DEF UserRow
<1>13. /\ user' \in [Users -> UserRow] /\ user'[u] = y
       /\ \A v \in Users : v # u => user'[v] = user[v]
  BY <1>12 DEF TypeOK
<1>14. /\ reportPunishment' \in [Users -> Seq(ReportRecord)]
       /\ reportPunishment'[u] = Append(t, c)
       /\ \A v \in Users : v # u => reportPunishment'[v] = reportPunishment[v]
  BY <1>9, <1>10 DEF TypeOK
<1>15. req' \in [Requests -> Request] /\ LockInv' /\ LocalsInv'
  BY <1>1, <1>2, <1>9, <1>13, HolderOnly, AnswerStep
<1>16. TypeOK'
  BY <1>9, <1>13, <1>14, <1>15 DEF TypeOK
<1>17. OffencesCounted'
  <2>1. \A v \in Users : Punished(v)' = Punished(v)
    BY <1>9 DEF Punished
  <2>2. \A v \in Users : user'[v].OffenceCount = user[v].OffenceCount
    BY <1>2, <1>12, <1>13
  <2> QED
    BY <1>9, <2>1, <2>2 DEF OffencesCounted
<1>18. ReportBansConsecutive'
  <2> DEFINE Consecutive(v, s) ==
               /\ \A i \in 1..(Len(s) - 1) : s[i].end <= s[i + 1].start
               /\ \A i, j \in DOMAIN s : i # j => s[i].report # s[j].report
             Shown(v, s) ==
               /\ user[v].BanReportCount = Len(s)
               /\ user[v].BanReport = IF s = << >> THEN None ELSE s[Len(s)].end
  <2>1. \A v \in Users : /\ Consecutive(v, reportPunishment[v])
                         /\ Shown(v, reportPunishment[v])
    BY DEF ReportBansConsecutive
  <2>2. Consecutive(u, Append(t, c))
    <3>1. Consecutive(u, t)
      BY <1>3, <2>1
    <3>2. ASSUME NEW i \in 1..Len(t)
          PROVE  Append(t, c)[i].end <= Append(t, c)[i + 1].start
      <4>1. CASE i = Len(t)
        BY <1>4, <1>6, <1>8, <1>10, <4>1, EmptySeq
      <4>2. CASE i # Len(t)
        <5>1. i \in 1..(Len(t) - 1) /\ i + 1 \in 1..Len(t)
          <6>1. PICK k \in Nat : k = Len(t)
            BY <1>4
          <6>2. i \in 1..k /\ i # k
            BY <4>2, <6>1
          <6>3. i \in 1..(k - 1) /\ i + 1 \in 1..k
            BY <6>2
          <6> QED
            BY <6>1, <6>3
        <5>2. t[i].end <= t[i + 1].start
          BY <3>1, <5>1
        <5> QED
          BY <1>10, <5>1, <5>2
      <4> QED
        BY <4>1, <4>2
    <3>3. ASSUME NEW i \in 1..(Len(t) + 1), NEW j \in 1..(Len(t) + 1), i # j
          PROVE  Append(t, c)[i].report # Append(t, c)[j].report
      <4>1. CASE i = Len(t) + 1
        BY <1>4, <1>8, <1>9, <1>10, <3>3, <4>1
      <4>2. CASE j = Len(t) + 1
        BY <1>4, <1>8, <1>9, <1>10, <3>3, <4>2
      <4>3. CASE i \in 1..Len(t) /\ j \in 1..Len(t)
        BY <1>4, <1>10, <3>1, <3>3, <4>3
      <4> QED
        BY <1>4, <4>1, <4>2, <4>3
    <3> QED
      BY <1>4, <1>10, <3>2, <3>3
  <2>3. /\ user'[u].BanReportCount = Len(Append(t, c))
        /\ user'[u].BanReport = Append(t, c)[Len(Append(t, c))].end
    BY <1>2, <1>3, <1>8, <1>10, <1>12, <1>13, <2>1
  <2>4. ASSUME NEW v \in Users
        PROVE  /\ Consecutive(v, reportPunishment'[v])
               /\ user'[v].BanReportCount = Len(reportPunishment'[v])
               /\ user'[v].BanReport =
                    IF reportPunishment'[v] = << >> THEN None
                    ELSE reportPunishment'[v][Len(reportPunishment'[v])].end
    <3>1. CASE v = u
      <4>1. reportPunishment'[v] = Append(t, c) /\ Append(t, c) # << >>
        BY <1>10, <1>14, <3>1
      <4> HIDE DEF Consecutive
      <4> QED
        BY <2>2, <2>3, <3>1, <4>1 DEF Consecutive
    <3>2. CASE v # u
      BY <1>13, <1>14, <2>1, <3>2
    <3> QED
      BY <3>1, <3>2
  <2> QED
    BY <2>4 DEF ReportBansConsecutive
<1> QED
  BY <1>15, <1>16, <1>17, <1>18

LEMMA NextRowInv == RowInv /\ [Next]_vars => RowInv'
<1> SUFFICES ASSUME RowInv, [Next]_vars PROVE RowInv'
  OBVIOUS
<1>1. ASSUME NEW r \in Requests,
             \/ Punish(r) \/ Revise(r) \/ PunishForever(r) \/ PunishReporter(r)
             \/ LockUser(r)
      PROVE  RowInv'
  BY <1>1, PunishStep, ReviseStep, PunishForeverStep, PunishReporterStep, LockStep
<1> QED
  BY <1>1, LoginStep, StartStep, EnvironmentStep DEF Next

-----------------------------------------------------------------------------
(* The lengths of bans *)

\* The days of the floors S under the records P.
DaysIn(S, P) == UNION {{f} \X (1..P[f].days) : f \in S}

LEMMA DaysFinite ==
    ASSUME NEW S, IsFiniteSet(S), NEW P, \A f \in S : P[f].days \in Nat
    PROVE  IsFiniteSet(DaysIn(S, P)) /\ Cardinality(DaysIn(S, P)) \in Nat
<1> DEFINE D(f) == {f} \X (1..P[f].days)
           g == [f \in S |-> D(f)]
<1>1. \A f \in S : IsFiniteSet(D(f))
  <2>1. \A c \in Nat : IsFiniteSet(1..c)
    BY FS_Interval
  <2> QED
    BY <2>1, FS_Singleton, FS_Product
<1>2. IsFiniteSet({D(f) : f \in S})
  <2>1. g \in Surjection(S, {D(f) : f \in S})
    <3> HIDE DEF D
    <3> QED
      BY DEF Surjection
  <2> HIDE DEF D, g
  <2> QED
    BY <2>1, FS_Surjection
<1>3. DaysIn(S, P) = UNION {D(f) : f \in S}
  BY DEF DaysIn
<1>4. \A T \in {D(f) : f \in S} : IsFiniteSet(T)
  BY <1>1
<1> HIDE DEF D
<1>5. IsFiniteSet(UNION {D(f) : f \in S})
  BY <1>2, <1>4, FS_UNION
<1> QED
  BY <1>3, <1>5, FS_CardinalityType

\* A floor more has its days more.
LEMMA DaysMore ==
    ASSUME NEW S, IsFiniteSet(S), NEW P, NEW f, f \notin S,
           \A g \in S \cup {f} : P[g].days \in Nat
    PROVE  Cardinality(DaysIn(S \cup {f}, P)) = Cardinality(DaysIn(S, P)) + P[f].days
<1> DEFINE D == DaysIn(S, P)
           n == P[f].days
           E == {f} \X (1..n)
<1>1. DaysIn(S \cup {f}, P) = D \cup E
  BY DEF DaysIn
<1>2. D \cap E = {}
  BY DEF DaysIn
<1>3. IsFiniteSet(D) /\ Cardinality(D) \in Nat
  BY DaysFinite
<1>4. n \in Nat
  OBVIOUS
<1> HIDE DEF D, n
<1>5. IsFiniteSet(E) /\ Cardinality(E) = n
  <2>1. IsFiniteSet({f}) /\ Cardinality({f}) = 1
    BY FS_Singleton
  <2>2. IsFiniteSet(1..n) /\ Cardinality(1..n) = n
    BY <1>4, FS_Interval
  <2>3. IsFiniteSet(E) /\ Cardinality(E) = Cardinality({f}) * Cardinality(1..n)
    BY <2>1, <2>2, FS_Product
  <2>4. Cardinality({f}) * Cardinality(1..n) = n
    BY <1>4, <2>1, <2>2
  <2> QED
    BY <2>3, <2>4
<1> HIDE DEF E
<1>6. Cardinality(D \cup E) = Cardinality(D) + Cardinality(E) - Cardinality(D \cap E)
  BY <1>3, <1>5, FS_Union
<1>7. Cardinality(D \cap E) = 0
  BY <1>2, FS_EmptySet
<1>8. Cardinality(D \cup E) = Cardinality(D) + n
  BY <1>3, <1>4, <1>5, <1>6, <1>7
<1> QED
  BY <1>1, <1>8 DEF D, n

LEMMA DaysNone == \A P : DaysIn({}, P) = {} /\ Cardinality(DaysIn({}, P)) = 0
<1>1. \A P : DaysIn({}, P) = {}
  BY DEF DaysIn
<1> QED
  BY <1>1, FS_EmptySet

\* Only the records of the floors matter.
LEMMA DaysSame ==
    ASSUME NEW S, NEW P, NEW Q, \A f \in S : Q[f] = P[f]
    PROVE  DaysIn(S, Q) = DaysIn(S, P)
BY DEF DaysIn

\* A floor apart.
LEMMA DaysApart ==
    ASSUME NEW S, NEW P, NEW f \in S, IsFiniteSet(S),
           \A g \in S : P[g].days \in Nat
    PROVE  Cardinality(DaysIn(S, P)) = Cardinality(DaysIn(S \ {f}, P)) + P[f].days
<1>1. PICK T : T = S \ {f}
  OBVIOUS
<1>2. T \cup {f} = S /\ f \notin T
  BY <1>1
<1>3. IsFiniteSet(T)
  BY <1>1, FS_RemoveElement
<1>4. \A g \in T \cup {f} : P[g].days \in Nat
  BY <1>2
<1>5. f \notin T
  BY <1>2
<1>6. Cardinality(DaysIn(T \cup {f}, P)) = Cardinality(DaysIn(T, P)) + P[f].days
  BY <1>3, <1>4, <1>5, DaysMore, Zenon
<1> QED
  BY <1>1, <1>2, <1>6

\* From the records P to Q the days of S change by those of f.
MovedBy(S, P, Q, f) ==
    Cardinality(DaysIn(S, Q)) =
        Cardinality(DaysIn(S, P)) + (Q[f].days - P[f].days)

\* A record that is changed changes the days by the difference.
LEMMA DaysChanged ==
    ASSUME NEW S, NEW P, NEW Q, NEW f \in S, IsFiniteSet(S),
           \A g \in S : P[g].days \in Nat,
           \A g \in S : Q[g].days \in Nat,
           \A g \in S \ {f} : Q[g] = P[g]
    PROVE  MovedBy(S, P, Q, f)
<1>1. Cardinality(DaysIn(S, P)) = Cardinality(DaysIn(S \ {f}, P)) + P[f].days
  BY DaysApart, Zenon
<1>2. Cardinality(DaysIn(S, Q)) = Cardinality(DaysIn(S \ {f}, Q)) + Q[f].days
  BY DaysApart, Zenon
<1>3. DaysIn(S \ {f}, Q) = DaysIn(S \ {f}, P)
  BY DaysSame
<1>4. Cardinality(DaysIn(S \ {f}, P)) \in Nat
  <2>1. IsFiniteSet(S \ {f})
    BY FS_RemoveElement
  <2>2. \A g \in S \ {f} : P[g].days \in Nat
    OBVIOUS
  <2> QED
    BY <2>1, <2>2, DaysFinite, Zenon
<1> QED
  <2>1. P[f].days \in Nat /\ Q[f].days \in Nat
    OBVIOUS
  <2> QED
    BY <1>1, <1>2, <1>3, <1>4, <2>1 DEF MovedBy

\* What CountedInv and BanIsSum say of one ban.
BanOK(u, d) ==
    LET end == user[u].BanDivision[d]
    IN /\ \A f \in counted[u][d] : Author[f] = u /\ punishment[f] # None
       /\ end = None => counted[u][d] = {}
       /\ end # None /\ <<u, d>> \notin drifted =>
             end = from[u][d] + Cardinality(DaysIn(counted[u][d], punishment))

SumInv == \A u \in Users, d \in Divisions : BanOK(u, d)

LEMMA SumParts == SumInv <=> CountedInv /\ BanIsSum
<1>1. \A S : DaysOf(S) = DaysIn(S, punishment)
  BY DEF DaysOf, DaysIn
<1> QED
  BY <1>1 DEF SumInv, BanOK, CountedInv, BanIsSum

\* A ban nobody changed, nor the records it is made longer for.
LEMMA BanKept ==
    ASSUME NEW u, NEW d, BanOK(u, d),
           user'[u].BanDivision[d] = user[u].BanDivision[d],
           from'[u][d] = from[u][d], counted'[u][d] = counted[u][d],
           <<u, d>> \in drifted => <<u, d>> \in drifted',
           \A f \in counted[u][d] : punishment'[f] = punishment[f]
    PROVE  BanOK(u, d)'
<1>1. DaysIn(counted[u][d], punishment') = DaysIn(counted[u][d], punishment)
  BY DaysSame
<1> QED
  BY <1>1 DEF BanOK

\* A ban that counts no floor.
LEMMA BanEmpty ==
    ASSUME NEW u, NEW d, counted'[u][d] = {},
           \/ user'[u].BanDivision[d] = None
           \/ user'[u].BanDivision[d] = from'[u][d] /\ from'[u][d] \in Nat
    PROVE  BanOK(u, d)'
<1>1. Cardinality(DaysIn({}, punishment')) = 0
  BY DaysNone
<1> QED
  BY <1>1 DEF BanOK

\* Types of what one ban is about.
LEMMA BanTypes ==
    ASSUME RowInv, SumInv, NEW u \in Users, NEW d \in Divisions
    PROVE  /\ counted[u][d] \subseteq Floors /\ IsFiniteSet(counted[u][d])
           /\ from[u][d] \in Nat /\ user[u].BanDivision[d] \in Ban
           /\ \A f \in counted[u][d] : punishment[f] \in Record /\ punishment[f].days \in Nat
<1>1. /\ counted[u][d] \subseteq Floors /\ from[u][d] \in Nat
      /\ user[u].BanDivision[d] \in Ban
  BY DEF RowInv, TypeOK, UserRow
<1>2. IsFiniteSet(counted[u][d])
  BY <1>1, FiniteAssumption, FS_Subset
<1>3. \A f \in counted[u][d] : punishment[f] \in Record
  <2>1. \A f \in counted[u][d] : punishment[f] # None
    BY DEF SumInv, BanOK
  <2>2. punishment \in [Floors -> Record \cup {None}]
    BY DEF RowInv, TypeOK
  <2> QED
    BY <1>1, <2>1, <2>2
<1> QED
  BY <1>1, <1>2, <1>3 DEF Record

LEMMA LoginSum ==
    ASSUME RowInv, SumInv, NEW u \in Users, Login(u)
    PROVE  SumInv'
<1> SUFFICES ASSUME NEW v \in Users, NEW d \in Divisions
             PROVE  BanOK(v, d)'
  BY DEF SumInv
<1> DEFINE over == {e \in Divisions : /\ user[u].BanDivision[e] # None
                                      /\ user[u].BanDivision[e] < now}
           b == [e \in Divisions |-> IF e \in over THEN None ELSE user[u].BanDivision[e]]
           k == [e \in Divisions |-> IF e \in over THEN {} ELSE counted[u][e]]
<1>1. /\ user' = [user EXCEPT ![u].BanDivision = b]
      /\ counted' = [counted EXCEPT ![u] = k]
      /\ drifted' = drifted \ {<<u, e>> : e \in over}
      /\ UNCHANGED <<punishment, from>>
  BY DEF Login
<1> HIDE DEF over
<1>2. /\ user'[v].BanDivision[d] =
            IF v = u /\ d \in over THEN None ELSE user[v].BanDivision[d]
      /\ counted'[v][d] = IF v = u /\ d \in over THEN {} ELSE counted[v][d]
  BY <1>1 DEF RowInv, TypeOK, UserRow
<1>3. CASE v = u /\ d \in over
  BY <1>2, <1>3, BanEmpty
<1>4. CASE ~ (v = u /\ d \in over)
  <2>1. <<v, d>> \notin {<<u, e>> : e \in over}
    BY <1>4
  <2> HIDE DEF b, k
  <2> QED
    BY <1>1, <1>2, <1>4, <2>1, BanKept DEF SumInv
<1> QED
  BY <1>3, <1>4

\* A ban that another record than its own was changed for.
LEMMA BanDrifted ==
    ASSUME NEW u, NEW d, BanOK(u, d),
           user'[u].BanDivision[d] = user[u].BanDivision[d],
           counted'[u][d] = counted[u][d], <<u, d>> \in drifted',
           \A f \in counted[u][d] : punishment'[f] # None
    PROVE  BanOK(u, d)'
BY DEF BanOK

\* The floor has no record yet: no ban counts it.
LEMMA PunishSum ==
    ASSUME RowInv, SumInv, NEW r \in Requests, Punish(r)
    PROVE  SumInv'
<1> USE DEF RowInv
<1>1. req[r].step = "ban" /\ req[r].row # None
  BY DEF Punish
<1>2. PICK u \in Users, f \in Floors, d \in Divisions, n \in Nat, x \in UserRow :
        /\ u = req[r].user /\ f = req[r].floor /\ d = req[r].division
        /\ n = req[r].days /\ x = req[r].row
        /\ x = user[u] /\ u = Author[f]
  BY <1>1, RowRead DEF LocalsInv, Request
<1> DEFINE end == IF x.BanDivision[d] = None THEN now + n ELSE x.BanDivision[d] + n
           b == [x.BanDivision EXCEPT ![d] = end]
           p == [start |-> now, end |-> now + n, days |-> n, division |-> d]
<1>3. /\ punishment[f] = None
      /\ punishment' = [punishment EXCEPT ![f] = p]
      /\ user' = [user EXCEPT ![u].OffenceCount = x.OffenceCount + 1,
                              ![u].BanDivision = b]
      /\ from' = IF x.BanDivision[d] = None THEN [from EXCEPT ![u][d] = now] ELSE from
      /\ counted' = [counted EXCEPT ![u][d] = @ \cup {f}]
      /\ drifted' = drifted
  BY <1>2 DEF Punish
<1>4. p \in Record /\ p.days = n /\ p # None
  <2>1. now \in Nat /\ now + n \in Nat
    BY DEF TypeOK, Time
  <2> QED
    BY <2>1, RecordAssumption DEF Record, Time
<1>5. punishment'[f] = p /\ \A g \in Floors : g # f => punishment'[g] = punishment[g]
  BY <1>3 DEF TypeOK
<1>6. \A v \in Users, e \in Divisions :
        /\ user'[v].BanDivision[e] =
             IF v = u /\ e = d THEN end ELSE user[v].BanDivision[e]
        /\ counted'[v][e] =
             IF v = u /\ e = d THEN counted[u][d] \cup {f} ELSE counted[v][e]
        /\ from'[v][e] = IF v = u /\ e = d /\ x.BanDivision[d] = None
                         THEN now ELSE from[v][e]
  <2>1. /\ user[u] \in UserRow
        /\ \A v \in Users : user'[v].BanDivision = IF v = u THEN b ELSE user[v].BanDivision
    <3> HIDE DEF b
    <3> QED
      BY <1>2, <1>3 DEF TypeOK, UserRow
  <2>2. \A e \in Divisions : b[e] = IF e = d THEN end ELSE user[u].BanDivision[e]
    <3> HIDE DEF end
    <3> QED
      BY <1>2 DEF UserRow
  <2>3. \A v \in Users, e \in Divisions :
          /\ counted'[v][e] =
               IF v = u /\ e = d THEN counted[u][d] \cup {f} ELSE counted[v][e]
          /\ from'[v][e] = IF v = u /\ e = d /\ x.BanDivision[d] = None
                           THEN now ELSE from[v][e]
    BY <1>3 DEF TypeOK
  <2> HIDE DEF b, end
  <2> QED
    BY <2>1, <2>2, <2>3
<1> HIDE DEF b, p
<1>7. \A v \in Users, e \in Divisions : f \notin counted[v][e] /\ counted[v][e] \subseteq Floors
  <2>1. \A v \in Users, e \in Divisions : \A g \in counted[v][e] : punishment[g] # None
    BY DEF SumInv, BanOK
  <2> QED
    BY <1>3, <2>1, BanTypes
<1>8. \A v \in Users, e \in Divisions :
        \A g \in counted[v][e] : punishment'[g] = punishment[g]
  BY <1>5, <1>7
<1>9. BanOK(u, d)'
  <2> DEFINE C == counted[u][d]
             sum == Cardinality(DaysIn(C, punishment))
  <2>1. /\ C \subseteq Floors /\ IsFiniteSet(C) /\ from[u][d] \in Nat
        /\ user[u].BanDivision[d] \in Ban
        /\ \A g \in C : punishment[g].days \in Nat
    BY BanTypes
  <2>2. DaysIn(C, punishment') = DaysIn(C, punishment)
    BY <1>8, DaysSame
  <2>3. \A g \in C \cup {f} : punishment'[g].days \in Nat
    BY <1>4, <1>5, <1>8, <2>1
  <2>4. f \notin C
    BY <1>7
  <2>5. sum \in Nat
    BY <2>1, DaysFinite
  <2> HIDE DEF C
  <2>6. Cardinality(DaysIn(C \cup {f}, punishment')) = sum + n
    <3>1. Cardinality(DaysIn(C \cup {f}, punishment')) =
            Cardinality(DaysIn(C, punishment')) + punishment'[f].days
      BY <2>1, <2>3, <2>4, DaysMore, Zenon
    <3> QED
      BY <1>4, <1>5, <2>2, <3>1
  <2>7. /\ user'[u].BanDivision[d] = end
        /\ counted'[u][d] = C \cup {f}
        /\ from'[u][d] = IF x.BanDivision[d] = None THEN now ELSE from[u][d]
    BY <1>6 DEF C
  <2>8. \A g \in C \cup {f} : Author[g] = u /\ punishment'[g] # None
    <3>1. \A g \in C : Author[g] = u /\ punishment[g] # None
      BY DEF C, SumInv, BanOK
    <3> QED
      BY <1>2, <1>4, <1>5, <1>8, <3>1 DEF C
  <2>9. now \in Nat /\ end # None
    BY <1>2, <2>1, NoneAssumption DEF TypeOK, Time, Ban
  <2>10. CASE user[u].BanDivision[d] = None
    <3>1. sum = 0
      BY <2>10, DaysNone DEF C, SumInv, BanOK
    <3>2. end = from'[u][d] + Cardinality(DaysIn(counted'[u][d], punishment'))
      <4>1. end = now + n /\ from'[u][d] = now
        BY <1>2, <2>7, <2>10
      <4>2. Cardinality(DaysIn(counted'[u][d], punishment')) = n
        BY <2>6, <2>7, <3>1
      <4> QED
        BY <4>1, <4>2
    <3> HIDE DEF end
    <3> QED
      BY <2>7, <2>8, <2>9, <3>2 DEF BanOK
  <2>11. CASE user[u].BanDivision[d] # None
    <3>1. <<u, d>> \notin drifted => user[u].BanDivision[d] = from[u][d] + sum
      BY <2>11 DEF C, SumInv, BanOK
    <3>2. <<u, d>> \notin drifted =>
            end = from'[u][d] + Cardinality(DaysIn(counted'[u][d], punishment'))
      <4>1. end = user[u].BanDivision[d] + n /\ from'[u][d] = from[u][d]
        BY <1>2, <2>7, <2>11
      <4>2. Cardinality(DaysIn(counted'[u][d], punishment')) = sum + n
        BY <2>6, <2>7
      <4> HIDE DEF end, sum
      <4> QED
        BY <2>1, <2>5, <3>1, <4>1, <4>2
    <3> HIDE DEF end
    <3> QED
      BY <1>3, <2>7, <2>8, <2>9, <3>2 DEF BanOK
  <2> QED
    BY <2>10, <2>11
<1>10. ASSUME NEW v \in Users, NEW e \in Divisions, ~ (v = u /\ e = d)
       PROVE  BanOK(v, e)'
  <2> HIDE DEF end
  <2>1. /\ user'[v].BanDivision[e] = user[v].BanDivision[e]
        /\ counted'[v][e] = counted[v][e] /\ from'[v][e] = from[v][e]
    BY <1>6, <1>10
  <2> QED
    BY <1>3, <1>8, <2>1, BanKept DEF SumInv
<1> QED
  BY <1>9, <1>10 DEF SumInv

\* A revision moves the ban by as many days as the record; other bans that count
\* the floor drift.
LEMMA ReviseSum ==
    ASSUME RowInv, SumInv, NEW r \in Requests, Revise(r)
    PROVE  SumInv'
<1> USE DEF RowInv
<1>1. req[r].step = "ban" /\ req[r].row # None
  BY DEF Revise
<1>2. PICK u \in Users, f \in Floors, d \in Divisions, n \in Nat, x \in UserRow :
        /\ u = req[r].user /\ f = req[r].floor /\ d = req[r].division
        /\ n = req[r].days /\ x = req[r].row
        /\ x = user[u] /\ u = Author[f]
  BY <1>1, RowRead DEF LocalsInv, Request
<1>3. PICK p \in Record : p = punishment[f]
  BY <1>2 DEF Revise, TypeOK
<1> DEFINE old == x.BanDivision[d]
           end == IF old = None THEN p.start + n ELSE old + (n - p.days)
           b == [x.BanDivision EXCEPT ![d] = end]
           others == {<<u, e>> : e \in {e \in Divisions \ {d} : f \in counted[u][e]}}
           this == IF n = 0 \/ (old # None /\ f \notin counted[u][d])
                   THEN {<<u, d>>} ELSE {}
           q == Revised(p, d, n)
<1>4. /\ punishment' = [punishment EXCEPT ![f] = q]
      /\ user' = [user EXCEPT ![u].BanDivision = b]
      /\ from' = IF old = None THEN [from EXCEPT ![u][d] = p.start] ELSE from
      /\ counted' = IF old = None THEN [counted EXCEPT ![u][d] = {f}] ELSE counted
      /\ drifted' = drifted \cup others \cup this
  BY <1>2, <1>3 DEF Revise, Changed
<1>5. q \in Record /\ q # None /\ (n # 0 => q.days = n)
  <2>1. p.start + n \in Nat
    BY DEF Record, Time
  <2> QED
    BY <2>1, RecordAssumption DEF Revised, Record, Time
<1>6. /\ p.start \in Nat /\ p.days \in Nat /\ q.days \in Nat /\ old \in Ban
  BY <1>5 DEF Record, Time, UserRow
<1> HIDE DEF q
<1>7. punishment'[f] = q /\ \A g \in Floors : g # f => punishment'[g] = punishment[g]
  BY <1>4 DEF TypeOK
<1>8. \A v \in Users, e \in Divisions :
        /\ user'[v].BanDivision[e] =
             IF v = u /\ e = d THEN end ELSE user[v].BanDivision[e]
        /\ counted'[v][e] =
             IF v = u /\ e = d /\ old = None THEN {f} ELSE counted[v][e]
        /\ from'[v][e] =
             IF v = u /\ e = d /\ old = None THEN p.start ELSE from[v][e]
  <2>1. \A v \in Users : user'[v].BanDivision = IF v = u THEN b ELSE user[v].BanDivision
    <3> HIDE DEF b
    <3> QED
      BY <1>2, <1>4 DEF TypeOK, UserRow
  <2>2. \A e \in Divisions : b[e] = IF e = d THEN end ELSE user[u].BanDivision[e]
    <3> HIDE DEF end
    <3> QED
      BY <1>2 DEF UserRow
  <2>3. \A v \in Users, e \in Divisions :
          /\ counted'[v][e] =
               IF v = u /\ e = d /\ old = None THEN {f} ELSE counted[v][e]
          /\ from'[v][e] =
               IF v = u /\ e = d /\ old = None THEN p.start ELSE from[v][e]
    <3> HIDE DEF old
    <3> QED
      BY <1>4 DEF TypeOK
  <2> HIDE DEF b, end, old
  <2> QED
    BY <2>1, <2>2, <2>3
<1>9. old = user[u].BanDivision[d]
  BY <1>2
<1> HIDE DEF b, old
<1>10. \A v \in Users, e \in Divisions :
         \A g \in counted[v][e] : /\ Author[g] = v /\ punishment'[g] # None
                                  /\ g # f => punishment'[g] = punishment[g]
  <2>1. \A v \in Users, e \in Divisions :
          \A g \in counted[v][e] : Author[g] = v /\ punishment[g] # None /\ g \in Floors
    BY BanTypes DEF SumInv, BanOK
  <2> QED
    BY <1>5, <1>7, <2>1
<1>11. BanOK(u, d)'
  <2> DEFINE C == counted[u][d]
             sum == Cardinality(DaysIn(C, punishment))
  <2>1. /\ user'[u].BanDivision[d] = end /\ end # None
        /\ counted'[u][d] = IF old = None THEN {f} ELSE C
        /\ from'[u][d] = IF old = None THEN p.start ELSE from[u][d]
    <3>1. end # None
      BY <1>6, NoneAssumption DEF Ban
    <3> HIDE DEF end
    <3> QED
      BY <1>8, <3>1
  <2>2. \A g \in counted'[u][d] : Author[g] = u /\ punishment'[g] # None
    BY <1>2, <1>5, <1>7, <1>10, <2>1
  <2>3. SUFFICES ASSUME <<u, d>> \notin drifted'
                 PROVE  end = from'[u][d] + Cardinality(DaysIn(counted'[u][d], punishment'))
    <3> HIDE DEF end
    <3> QED
      BY <2>1, <2>2 DEF BanOK
  <2>4. /\ <<u, d>> \notin drifted /\ n # 0
        /\ old = None \/ f \in C
    BY <1>4, <2>3
  <2>5. /\ C \subseteq Floors /\ IsFiniteSet(C) /\ from[u][d] \in Nat
        /\ \A g \in C : punishment[g].days \in Nat
    BY BanTypes
  <2>6. CASE old = None
    <3>1. Cardinality(DaysIn({} \cup {f}, punishment')) =
            Cardinality(DaysIn({}, punishment')) + punishment'[f].days
      <4>1. \A g \in {} \cup {f} : punishment'[g].days \in Nat
        BY <1>6, <1>7
      <4>2. IsFiniteSet({}) /\ f \notin {}
        BY FS_EmptySet
      <4> QED
        BY <4>1, <4>2, DaysMore, Zenon
    <3>2. Cardinality(DaysIn({}, punishment')) = 0 /\ {} \cup {f} = {f}
      BY DaysNone
    <3>3. Cardinality(DaysIn({f}, punishment')) = n
      BY <1>5, <1>6, <1>7, <2>4, <3>1, <3>2
    <3> QED
      BY <1>6, <2>1, <2>6, <3>3
  <2>7. CASE old # None
    <3>1. f \in C /\ old = from[u][d] + sum
      BY <1>9, <2>4, <2>7 DEF SumInv, BanOK
    <3>2. sum \in Nat
      BY <2>5, DaysFinite
    <3>3. /\ \A g \in C : punishment[g].days \in Nat
          /\ \A g \in C : punishment'[g].days \in Nat
          /\ \A g \in C : g # f => punishment'[g] = punishment[g]
      BY <1>6, <1>7, <2>5
    <3> HIDE DEF C
    <3>4. Cardinality(DaysIn(C, punishment')) = sum + (n - p.days)
      <4>1. Cardinality(DaysIn(C, punishment')) =
              Cardinality(DaysIn(C, punishment))
                + (punishment'[f].days - punishment[f].days)
        <5>1. PICK P, Q : P = punishment /\ Q = punishment'
          OBVIOUS
        <5>2. IsFiniteSet(C)
          BY <2>5 DEF C
        <5>3. f \in C
          BY <3>1
        <5>4. \A g \in C : P[g].days \in Nat
          BY <3>3, <5>1
        <5>5. \A g \in C : Q[g].days \in Nat
          BY <3>3, <5>1
        <5>6. \A g \in C \ {f} : Q[g] = P[g]
          BY <3>3, <5>1
        <5>7. MovedBy(C, P, Q, f)
          BY <5>2, <5>3, <5>4, <5>5, <5>6, DaysChanged, Zenon
        <5> QED
          BY <5>1, <5>7 DEF MovedBy
      <4> QED
        BY <1>3, <1>5, <1>7, <2>4, <4>1
    <3> QED
      BY <1>6, <2>1, <2>5, <2>7, <3>1, <3>2, <3>4
  <2> QED
    BY <2>6, <2>7
<1>12. ASSUME NEW v \in Users, NEW e \in Divisions, ~ (v = u /\ e = d)
       PROVE  BanOK(v, e)'
  <2>1. /\ user'[v].BanDivision[e] = user[v].BanDivision[e]
        /\ counted'[v][e] = counted[v][e] /\ from'[v][e] = from[v][e]
    <3> HIDE DEF end
    <3> QED
      BY <1>8, <1>12
  <2>2. CASE f \in counted[v][e]
    <3>1. v = u /\ e # d
      BY <1>2, <1>10, <1>12, <2>2
    <3>2. <<v, e>> \in drifted'
      BY <1>4, <2>2, <3>1
    <3> QED
      BY <1>10, <2>1, <3>2, BanDrifted DEF SumInv
  <2>3. CASE f \notin counted[v][e]
    <3>1. \A g \in counted[v][e] : punishment'[g] = punishment[g]
      BY <1>10, <2>3
    <3>2. drifted \subseteq drifted'
      BY <1>4
    <3> QED
      BY <2>1, <3>1, <3>2, BanKept DEF SumInv
  <2> QED
    BY <2>2, <2>3
<1> QED
  BY <1>11, <1>12 DEF SumInv

LEMMA PunishForeverSum ==
    ASSUME RowInv, SumInv, NEW r \in Requests, PunishForever(r)
    PROVE  SumInv'
<1> SUFFICES ASSUME NEW v \in Users, NEW d \in Divisions
             PROVE  BanOK(v, d)'
  BY DEF SumInv
<1> USE DEF RowInv
<1>1. req[r].step = "forever" /\ req[r].row # None
  BY DEF PunishForever
<1>2. PICK u \in Users, x \in UserRow :
        u = req[r].user /\ x = req[r].row /\ x = user[u]
  BY <1>1, RowRead
<1> DEFINE all == Divisions \ Excluded
           end == now + Forever
           c == x.OffenceCount + Cardinality(all)
           b == [e \in Divisions |-> IF e \in all THEN end ELSE x.BanDivision[e]]
           s == [e \in Divisions |-> IF e \in all THEN end ELSE from[u][e]]
           k == [e \in Divisions |-> IF e \in all THEN {} ELSE counted[u][e]]
<1>3. /\ user' = [user EXCEPT ![u].OffenceCount = c, ![u].BanDivision = b]
      /\ from' = [from EXCEPT ![u] = s]
      /\ counted' = [counted EXCEPT ![u] = k]
      /\ drifted' = drifted \ {<<u, e>> : e \in all}
      /\ UNCHANGED punishment
  BY <1>2 DEF PunishForever
<1>4. end \in Nat
  BY DaysAssumption DEF TypeOK, Time
<1> HIDE DEF all, end, c
<1>5. /\ user'[v].BanDivision[d] =
           IF v = u /\ d \in all THEN end ELSE user[v].BanDivision[d]
      /\ from'[v][d] = IF v = u /\ d \in all THEN end ELSE from[v][d]
      /\ counted'[v][d] = IF v = u /\ d \in all THEN {} ELSE counted[v][d]
  <2>1. user'[v].BanDivision = IF v = u THEN b ELSE user[v].BanDivision
    <3> HIDE DEF b
    <3> QED
      BY <1>2, <1>3 DEF TypeOK, UserRow
  <2>2. user'[v].BanDivision[d] =
           IF v = u /\ d \in all THEN end ELSE user[v].BanDivision[d]
    BY <1>2, <2>1
  <2>3. from'[v] = (IF v = u THEN s ELSE from[v]) /\ counted'[v] = (IF v = u THEN k ELSE counted[v])
    <3> HIDE DEF s, k
    <3> QED
      BY <1>3 DEF TypeOK
  <2> QED
    BY <2>2, <2>3
<1> HIDE DEF b, s, k
<1>6. CASE v = u /\ d \in all
  BY <1>4, <1>5, <1>6, BanEmpty
<1>7. CASE ~ (v = u /\ d \in all)
  <2>1. <<v, d>> \notin {<<u, e>> : e \in all}
    BY <1>7
  <2> QED
    BY <1>3, <1>5, <1>7, <2>1, BanKept DEF SumInv
<1> QED
  BY <1>6, <1>7

\* Steps that change no ban from a division and no record for a floor.
LEMMA OthersSum ==
    ASSUME RowInv, SumInv,
           \/ \E r \in Requests :
                \/ \E f \in Floors, n \in Days : BanUser(r, f, n)
                \/ \E f \in Floors : BanUserForever(r, f)
                \/ \E p \in Reports, n \in Days : BanReporter(r, p, n)
                \/ LockUser(r) \/ PunishReporter(r) \/ Fail(r)
           \/ \E f \in Floors, d \in Divisions : MoveHole(f, d)
           \/ Tick \/ UNCHANGED vars
    PROVE  SumInv'
<1>1. /\ UNCHANGED <<punishment, from, counted, drifted>>
      /\ \A v \in Users : user'[v].BanDivision = user[v].BanDivision
  <2>1. ASSUME NEW r \in Requests, PunishReporter(r)
        PROVE  /\ UNCHANGED <<punishment, from, counted, drifted>>
               /\ \A v \in Users : user'[v].BanDivision = user[v].BanDivision
    <3> DEFINE u == req[r].user
               end == StartOf(u) + req[r].days
               c == req[r].row.BanReportCount + 1
    <3>1. user' = [user EXCEPT ![u].BanReport = end, ![u].BanReportCount = c]
      BY <2>1 DEF PunishReporter
    <3>2. \A v \in Users : user[v] \in UserRow
      BY DEF RowInv, TypeOK
    <3> HIDE DEF end, c, u
    <3>3. \A v \in Users : user'[v].BanDivision = user[v].BanDivision
      BY <3>1, <3>2 DEF UserRow, RowInv, TypeOK
    <3> QED
      BY <2>1, <3>3 DEF PunishReporter, history
  <2> QED
    BY <2>1 DEF BanUser, BanUserForever, BanReporter, LockUser, Fail, MoveHole, Tick,
                vars, history
<1> QED
  BY <1>1, BanKept DEF SumInv

-----------------------------------------------------------------------------
(* The inductive invariant *)

LEMMA InitIInv == Init => IInv
<1> SUFFICES ASSUME Init PROVE IInv
  OBVIOUS
<1>1. CountedInv /\ BanIsSum
  BY DEF Init, CountedInv, BanIsSum
<1> QED
  BY <1>1, InitRowInv DEF IInv, RowInv

LEMMA NextIInv == IInv /\ [Next]_vars => IInv'
<1> SUFFICES ASSUME IInv, [Next]_vars PROVE IInv'
  OBVIOUS
<1>1. RowInv /\ SumInv
  BY SumParts DEF IInv, RowInv
<1>2. RowInv'
  BY <1>1, NextRowInv
<1>3. SumInv'
  <2>1. ASSUME NEW r \in Requests, Punish(r) \/ Revise(r) \/ PunishForever(r)
        PROVE  SumInv'
    BY <1>1, <2>1, PunishSum, ReviseSum, PunishForeverSum
  <2> QED
    BY <1>1, <2>1, LoginSum, OthersSum DEF Next
<1>4. (SumInv <=> CountedInv /\ BanIsSum)'
  BY SumParts, PTL
<1> QED
  BY <1>2, <1>3, <1>4 DEF IInv, RowInv

-----------------------------------------------------------------------------
(* The refinement of the ledger *)

\* What the ledger takes from the rows of users.
RowEnds == [u \in Users |-> user[u].BanDivision]
RowOffences == [u \in Users |-> user[u].OffenceCount]
RowSilent == [u \in Users |-> [until |-> user[u].BanReport,
                           count |-> user[u].BanReportCount]]

\* The ledger when one row is saved.
LEMMA LedgerRow ==
    ASSUME NEW u \in Users, NEW x, user \in [Users -> UserRow],
           user' = [user EXCEPT ![u] = x]
    PROVE  /\ RowEnds' = [RowEnds EXCEPT ![u] = x.BanDivision]
           /\ RowOffences' = [RowOffences EXCEPT ![u] = x.OffenceCount]
           /\ RowSilent' = [RowSilent EXCEPT ![u] = [until |-> x.BanReport,
                                                    count |-> x.BanReportCount]]
<1>1. \A v \in Users : user'[v] = IF v = u THEN x ELSE user[v]
  OBVIOUS
<1>2. RowEnds' = [RowEnds EXCEPT ![u] = x.BanDivision]
  BY <1>1 DEF RowEnds
<1>3. RowOffences' = [RowOffences EXCEPT ![u] = x.OffenceCount]
  BY <1>1 DEF RowOffences
<1>4. RowSilent' = [RowSilent EXCEPT ![u] = [until |-> x.BanReport,
                                             count |-> x.BanReportCount]]
  BY <1>1 DEF RowSilent
<1> QED
  BY <1>2, <1>3, <1>4

\* A column that is saved as it was is no change.
LEMMA SameColumn ==
    ASSUME NEW u \in Users
    PROVE  /\ RowEnds[u] = user[u].BanDivision
           /\ RowOffences[u] = user[u].OffenceCount
           /\ RowSilent[u] = [until |-> user[u].BanReport,
                              count |-> user[u].BanReportCount]
           /\ [RowEnds EXCEPT ![u] = user[u].BanDivision] = RowEnds
           /\ [RowOffences EXCEPT ![u] = user[u].OffenceCount] = RowOffences
           /\ [RowSilent EXCEPT ![u] = [until |-> user[u].BanReport,
                                        count |-> user[u].BanReportCount]] = RowSilent
BY DEF RowEnds, RowOffences, RowSilent

\* A step that saves no row stutters, but for the clock.
LEMMA LedgerKept ==
    ASSUME UNCHANGED <<now, user, punishment, forever, reportPunishment>>
    PROVE  UNCHANGED BL!vars
BY DEF BL!vars

LEMMA LedgerPass == Tick => BL!Pass
BY DEF Tick, BL!Pass

\* Saving the ends of bans leaves the rest of the row.
LEMMA EndsSaved ==
    ASSUME user \in [Users -> UserRow], NEW u \in Users,
           NEW b \in [Divisions -> Ban],
           user' = [user EXCEPT ![u].BanDivision = b]
    PROVE  /\ RowEnds' = [RowEnds EXCEPT ![u] = b]
           /\ RowOffences' = RowOffences /\ RowSilent' = RowSilent
<1>1. user[u] \in UserRow
  OBVIOUS
<1>2. PICK x \in UserRow : x = [user[u] EXCEPT !.BanDivision = b]
  BY <1>1 DEF UserRow
<1>3. /\ x.BanDivision = b /\ x.OffenceCount = user[u].OffenceCount
      /\ x.BanReport = user[u].BanReport /\ x.BanReportCount = user[u].BanReportCount
  BY <1>1, <1>2 DEF UserRow
<1>4. user' = [user EXCEPT ![u] = x]
  BY <1>2
<1>5. /\ RowEnds' = [RowEnds EXCEPT ![u] = x.BanDivision]
      /\ RowOffences' = [RowOffences EXCEPT ![u] = x.OffenceCount]
      /\ RowSilent' = [RowSilent EXCEPT ![u] = [until |-> x.BanReport,
                                               count |-> x.BanReportCount]]
  BY <1>4, LedgerRow
<1> QED
  BY <1>3, <1>5, SameColumn

LEMMA BothSaved ==
    ASSUME user \in [Users -> UserRow], NEW u \in Users,
           NEW c \in Nat, NEW b \in [Divisions -> Ban],
           user' = [user EXCEPT ![u].OffenceCount = c, ![u].BanDivision = b]
    PROVE  /\ RowEnds' = [RowEnds EXCEPT ![u] = b]
           /\ RowOffences' = [RowOffences EXCEPT ![u] = c]
           /\ RowSilent' = RowSilent
<1>1. user[u] \in UserRow
  OBVIOUS
<1>2. PICK x \in UserRow : x = [user[u] EXCEPT !.OffenceCount = c, !.BanDivision = b]
  BY <1>1 DEF UserRow
<1>3. /\ x.BanDivision = b /\ x.OffenceCount = c
      /\ x.BanReport = user[u].BanReport /\ x.BanReportCount = user[u].BanReportCount
  BY <1>1, <1>2 DEF UserRow
<1>4. user' = [user EXCEPT ![u] = x]
  BY <1>2
<1>5. /\ RowEnds' = [RowEnds EXCEPT ![u] = x.BanDivision]
      /\ RowOffences' = [RowOffences EXCEPT ![u] = x.OffenceCount]
      /\ RowSilent' = [RowSilent EXCEPT ![u] = [until |-> x.BanReport,
                                               count |-> x.BanReportCount]]
  BY <1>4, LedgerRow
<1> QED
  BY <1>3, <1>5, SameColumn

\* A login drops the bans that are over.
LEMMA LoginLifts ==
    ASSUME IInv, NEW u \in Users, Login(u)
    PROVE  BL!Lift(u)
<1>1. user \in [Users -> UserRow] /\ user[u] \in UserRow
  BY DEF IInv, TypeOK
<1>2. PICK b \in [Divisions -> Ban] :
        b = [d \in Divisions |->
               IF user[u].BanDivision[d] # None /\ user[u].BanDivision[d] < now
               THEN None ELSE user[u].BanDivision[d]]
  BY <1>1 DEF UserRow, Ban
<1>3. /\ user' = [user EXCEPT ![u].BanDivision = b]
      /\ UNCHANGED <<now, punishment, forever, reportPunishment>>
  BY <1>1, <1>2 DEF Login
<1>4. /\ RowEnds' = [RowEnds EXCEPT ![u] = b]
      /\ RowOffences' = RowOffences /\ RowSilent' = RowSilent
  BY <1>1, <1>3, EndsSaved
<1>5. RowEnds' = [RowEnds EXCEPT ![u] =
                    [d \in Divisions |->
                       IF RowEnds[u][d] # None /\ RowEnds[u][d] < now
                       THEN None ELSE RowEnds[u][d]]]
  BY <1>2, <1>4, SameColumn
<1> QED
  BY <1>3, <1>4, <1>5 DEF BL!Lift, RowEnds, RowOffences, RowSilent

\* A first punishment is a verdict on the row as it is stored, for the handler
\* read it under the lock.
LEMMA PunishConvicts ==
    ASSUME IInv, NEW r \in Requests, Punish(r)
    PROVE  \E f \in Floors, d \in Divisions, n \in Durations : BL!Convict(f, d, n)
<1>1. RowInv /\ user \in [Users -> UserRow] /\ now \in Nat
  BY DEF IInv, RowInv, TypeOK, Time
<1>2. PICK u \in Users, f \in Floors, d \in Divisions, n \in Durations, x \in UserRow :
        /\ u = req[r].user /\ f = req[r].floor /\ d = req[r].division
        /\ n = req[r].days /\ x = req[r].row
        /\ x = user[u] /\ u = Author[f]
  BY <1>1, RowRead DEF Punish, RowInv, LocalsInv
<1>3. n \in Nat
  BY DaysAssumption DEF Durations
<1>4. PICK e \in Ban : e = (IF x.BanDivision[d] = None THEN now ELSE x.BanDivision[d]) + n
  <2>1. PICK k \in Int : k = IF x.BanDivision[d] = None THEN now ELSE x.BanDivision[d]
    <3>1. x.BanDivision[d] \in Int \cup {None}
      BY DEF UserRow, Ban
    <3> QED
      BY <1>1, <3>1
  <2>2. k + n \in Ban
    BY <1>3 DEF Ban
  <2> QED
    BY <2>1, <2>2
<1>5. PICK b \in [Divisions -> Ban] : b = [x.BanDivision EXCEPT ![d] = e]
  BY DEF UserRow
<1>6. PICK c \in Nat : c = x.OffenceCount + 1
  BY DEF UserRow
<1>7. /\ punishment[f] = None
      /\ punishment' = [punishment EXCEPT ![f] =
           [start |-> now, end |-> now + n, days |-> n, division |-> d]]
      /\ user' = [user EXCEPT ![u].OffenceCount = c, ![u].BanDivision = b]
      /\ UNCHANGED <<now, forever, reportPunishment>>
  BY <1>2, <1>4, <1>5, <1>6 DEF Punish
<1>8. /\ RowEnds' = [RowEnds EXCEPT ![u] = b]
      /\ RowOffences' = [RowOffences EXCEPT ![u] = c]
      /\ RowSilent' = RowSilent
  BY <1>1, <1>7, BothSaved
<1>9. RowEnds' = [RowEnds EXCEPT ![u][d] = (IF @ = None THEN now ELSE @) + n]
  <2>1. RowEnds[u] = x.BanDivision
    BY <1>2, SameColumn
  <2>2. b = [RowEnds[u] EXCEPT ![d] = (IF @ = None THEN now ELSE @) + n]
    BY <1>4, <1>5, <2>1
  <2> QED
    BY <1>8, <2>2
<1>10. RowOffences' = [RowOffences EXCEPT ![u] = @ + 1]
  BY <1>2, <1>6, <1>8, SameColumn
<1>11. BL!Convict(f, d, n)
  BY <1>2, <1>7, <1>8, <1>9, <1>10 DEF BL!Convict, RowEnds, RowOffences, RowSilent
<1> QED
  BY <1>11

\* A record with three of its four columns replaced.
LEMMA RecordRevised ==
    ASSUME NEW p \in Record, NEW k \in Nat, NEW d \in Divisions, NEW m \in Nat
    PROVE  [p EXCEPT !.end = k, !.division = d, !.days = m]
           = [start |-> p.start, end |-> k, days |-> m, division |-> d]
<1>1. \A y \in Record : y = [start |-> y.start, end |-> y.end, days |-> y.days,
                            division |-> y.division]
  BY DEF Record
<1>2. PICK y \in Record : y = [p EXCEPT !.end = k, !.division = d, !.days = m]
  BY DEF Record, Time
<1>3. y.start = p.start /\ y.end = k /\ y.days = m /\ y.division = d
  BY <1>2 DEF Record
<1> QED
  BY <1>1, <1>2, <1>3

\* The ledger counts with the same cardinality.
LEMMA LedgerCardinality == \A S : BL!Cardinality(S) = Cardinality(S)
BY DEF Cardinality, BL!Cardinality, IsFiniteSet, BL!IsFiniteSet

\* So is a revision.
LEMMA ReviseAmends ==
    ASSUME IInv, NEW r \in Requests, Revise(r)
    PROVE  \E f \in Floors, d \in Divisions, n \in Durations : BL!Amend(f, d, n)
<1>1. RowInv /\ user \in [Users -> UserRow]
  BY DEF IInv, RowInv, TypeOK
<1>2. PICK u \in Users, f \in Floors, d \in Divisions, n \in Durations, x \in UserRow :
        /\ u = req[r].user /\ f = req[r].floor /\ d = req[r].division
        /\ n = req[r].days /\ x = req[r].row
        /\ x = user[u] /\ u = Author[f]
  BY <1>1, RowRead DEF Revise, RowInv, LocalsInv
<1>3. n \in Nat
  BY DaysAssumption DEF Durations
<1>4. PICK p \in Record : p = punishment[f]
  BY <1>2 DEF Revise, IInv, TypeOK
<1>5. PICK e \in Ban : e = IF x.BanDivision[d] = None THEN p.start + n
                           ELSE x.BanDivision[d] + (n - p.days)
  <2>1. p.start + n \in Ban
    BY <1>3 DEF Ban, Record, Time
  <2>2. x.BanDivision[d] # None => x.BanDivision[d] + (n - p.days) \in Ban
    BY <1>3 DEF UserRow, Ban, Record
  <2> QED
    BY <2>1, <2>2
<1>6. PICK b \in [Divisions -> Ban] : b = [x.BanDivision EXCEPT ![d] = e]
  BY DEF UserRow
<1>7. /\ punishment[f] # None
      /\ punishment' = [punishment EXCEPT ![f] = Revised(p, d, n)]
      /\ user' = [user EXCEPT ![u].BanDivision = b]
      /\ UNCHANGED <<now, forever, reportPunishment>>
  BY <1>2, <1>4, <1>5, <1>6 DEF Revise, Changed
<1>8. Revised(p, d, n) = [start |-> p.start, end |-> p.start + n,
                          days |-> IF n = 0 THEN p.days ELSE n, division |-> d]
  <2>1. PICK m \in Nat : m = IF n = 0 THEN p.days ELSE n
    BY <1>3 DEF Record
  <2>2. PICK k \in Nat : k = p.start + n
    BY <1>3 DEF Record, Time
  <2>3. [p EXCEPT !.end = k, !.division = d, !.days = m]
        = [start |-> p.start, end |-> k, days |-> m, division |-> d]
    BY RecordRevised
  <2> QED
    BY <2>1, <2>2, <2>3 DEF Revised
<1>9. /\ RowEnds' = [RowEnds EXCEPT ![u] = b]
      /\ RowOffences' = RowOffences /\ RowSilent' = RowSilent
  BY <1>1, <1>7, EndsSaved
<1>10. RowEnds' = [RowEnds EXCEPT ![u][d] = IF @ = None THEN punishment[f].start + n
                                           ELSE @ + (n - punishment[f].days)]
  <2>1. RowEnds[u] = x.BanDivision
    BY <1>2, SameColumn
  <2>2. b = [RowEnds[u] EXCEPT ![d] = IF @ = None THEN punishment[f].start + n
                                      ELSE @ + (n - punishment[f].days)]
    BY <1>4, <1>5, <1>6, <2>1
  <2> QED
    BY <1>9, <2>2
<1>11. BL!Amend(f, d, n)
  <2>1. punishment' = [punishment EXCEPT ![f] =
          [start |-> punishment[f].start, end |-> punishment[f].start + n,
           days |-> IF n = 0 THEN punishment[f].days ELSE n, division |-> d]]
    BY <1>4, <1>7, <1>8
  <2> QED
    BY <1>2, <1>7, <1>9, <1>10, <2>1 DEF BL!Amend, RowEnds, RowOffences, RowSilent
<1> QED
  BY <1>11

LEMMA ForeverExiles ==
    ASSUME IInv, NEW r \in Requests, PunishForever(r)
    PROVE  \E u \in Users : BL!Exile(u)
<1>1. RowInv /\ user \in [Users -> UserRow]
  BY DEF IInv, RowInv, TypeOK
<1>2. PICK u \in Users, x \in UserRow :
        u = req[r].user /\ x = req[r].row /\ x = user[u]
  BY <1>1, RowRead DEF PunishForever
<1> DEFINE all == Divisions \ Excluded
<1>3. Cardinality(all) \in Nat
  BY FiniteAssumption, FS_Subset, FS_CardinalityType
<1>4. PICK b \in [Divisions -> Ban] :
        b = [d \in Divisions |-> IF d \in all THEN now + Forever ELSE x.BanDivision[d]]
  <2>1. now + Forever \in Ban
    BY DaysAssumption DEF Ban, IInv, TypeOK, Time
  <2> QED
    BY <2>1 DEF UserRow
<1>5. PICK c \in Nat : c = x.OffenceCount + Cardinality(all)
  BY <1>3 DEF UserRow
<1>6. /\ forever' = [forever EXCEPT ![u] = @ + Cardinality(all)]
      /\ user' = [user EXCEPT ![u].OffenceCount = c, ![u].BanDivision = b]
      /\ UNCHANGED <<now, punishment, reportPunishment>>
  BY <1>2, <1>4, <1>5 DEF PunishForever
<1>7. /\ RowEnds' = [RowEnds EXCEPT ![u] = b]
      /\ RowOffences' = [RowOffences EXCEPT ![u] = c]
      /\ RowSilent' = RowSilent
  BY <1>1, <1>6, BothSaved
<1>8. RowEnds' = [RowEnds EXCEPT ![u] =
         [d \in Divisions |-> IF d \in all THEN now + Forever ELSE @[d]]]
  <2>1. RowEnds[u] = x.BanDivision
    BY <1>2, SameColumn
  <2> QED
    BY <1>4, <1>7, <2>1
<1>9. RowOffences' = [RowOffences EXCEPT ![u] = @ + Cardinality(all)]
  BY <1>2, <1>5, <1>7, SameColumn
<1>10. BL!Exile(u)
  BY <1>6, <1>7, <1>8, <1>9, LedgerCardinality DEF BL!Exile, RowEnds, RowOffences, RowSilent, all
<1> QED
  BY <1>10

\* The handler starts a ban from reporting after the last record; the row of the
\* user holds the same end (ReportBansConsecutive).
LEMMA ReporterSilenced ==
    ASSUME IInv, NEW r \in Requests, PunishReporter(r)
    PROVE  \E p \in Reports, n \in Durations : BL!Silence(p, n)
<1>1. RowInv /\ user \in [Users -> UserRow]
  BY DEF IInv, RowInv, TypeOK
<1>2. PICK u \in Users, p \in Reports, n \in Durations, x \in UserRow :
        /\ u = req[r].user /\ p = req[r].report /\ n = req[r].days
        /\ x = req[r].row /\ x = user[u] /\ u = Reporter[p]
  BY <1>1, RowRead DEF PunishReporter, RowInv, LocalsInv
<1>3. n \in Nat /\ now \in Nat
  BY DaysAssumption DEF Durations, IInv, TypeOK, Time
<1>4. PICK t \in Seq(ReportRecord) : t = reportPunishment[u]
  BY DEF IInv, TypeOK
<1>5. t # << >> => t[Len(t)].end \in Nat /\ t[Len(t)].end # None
  <2>1. t # << >> => t[Len(t)] \in ReportRecord
    BY LenProperties, ElementOfSeq, EmptySeq
  <2> QED
    BY <2>1, NoneAssumption DEF ReportRecord, Time
<1>6. user[u].BanReport = IF t = << >> THEN None ELSE t[Len(t)].end
  BY <1>4 DEF IInv, ReportBansConsecutive
<1>7. StartOf(u) = IF user[u].BanReport # None /\ user[u].BanReport >= now
                   THEN user[u].BanReport ELSE now
  BY <1>4, <1>5, <1>6 DEF StartOf
<1>8. PICK s \in Nat : s = StartOf(u)
  BY <1>3, <1>4, <1>5 DEF StartOf
<1>9. /\ \A i \in DOMAIN reportPunishment[u] : reportPunishment[u][i].report # p
      /\ reportPunishment' = [reportPunishment EXCEPT ![u] =
           Append(@, [report |-> p, start |-> s, end |-> s + n])]
      /\ user' = [user EXCEPT ![u].BanReport = s + n,
                              ![u].BanReportCount = x.BanReportCount + 1]
      /\ UNCHANGED <<now, punishment, forever>>
  BY <1>2, <1>8 DEF PunishReporter
<1>10. PICK y \in UserRow : y = [x EXCEPT !.BanReport = s + n,
                                          !.BanReportCount = x.BanReportCount + 1]
  <2>1. x.BanReportCount + 1 \in Nat /\ s + n \in Ban
    BY <1>3 DEF UserRow, Ban
  <2> QED
    BY <2>1 DEF UserRow
<1>11. /\ y.BanReport = s + n /\ y.BanReportCount = x.BanReportCount + 1
       /\ y.OffenceCount = user[u].OffenceCount /\ y.BanDivision = user[u].BanDivision
  BY <1>2, <1>10 DEF UserRow
<1>12. user' = [user EXCEPT ![u] = y]
  BY <1>2, <1>9, <1>10
<1>13. /\ RowEnds' = [RowEnds EXCEPT ![u] = y.BanDivision]
       /\ RowOffences' = [RowOffences EXCEPT ![u] = y.OffenceCount]
       /\ RowSilent' = [RowSilent EXCEPT ![u] = [until |-> y.BanReport,
                                                count |-> y.BanReportCount]]
  BY <1>1, <1>12, LedgerRow
<1>14. RowSilent[u].count = x.BanReportCount /\ RowSilent[u].until = user[u].BanReport
  <2>1. RowSilent[u] = [until |-> user[u].BanReport, count |-> user[u].BanReportCount]
    BY SameColumn
  <2> QED
    BY <1>2, <2>1
<1>15. RowEnds' = RowEnds /\ RowOffences' = RowOffences
  BY <1>11, <1>13, SameColumn
<1>16. RowSilent' = [RowSilent EXCEPT ![u] = [until |-> s + n, count |-> @.count + 1]]
  BY <1>11, <1>13, <1>14
<1>17. s = IF RowSilent[u].until # None /\ RowSilent[u].until >= now
           THEN RowSilent[u].until ELSE now
  BY <1>7, <1>8, <1>14
<1>18. BL!Silence(p, n)
  BY <1>2, <1>9, <1>15, <1>16, <1>17 DEF BL!Silence, RowEnds, RowOffences, RowSilent
<1> QED
  BY <1>18

\* A step of the handlers is one of the ledger, or none.
LEMMA LedgerStep == IInv /\ [Next]_vars => [BL!Next]_(BL!vars)
<1> SUFFICES ASSUME IInv, [Next]_vars PROVE BL!Next \/ UNCHANGED BL!vars
  OBVIOUS
<1>1. ASSUME NEW u \in Users, Login(u) PROVE BL!Next
  BY <1>1, LoginLifts DEF BL!Next
<1>2. ASSUME NEW r \in Requests, Punish(r) PROVE BL!Next
  BY <1>2, PunishConvicts DEF BL!Next
<1>3. ASSUME NEW r \in Requests, Revise(r) PROVE BL!Next
  BY <1>3, ReviseAmends DEF BL!Next
<1>4. ASSUME NEW r \in Requests, PunishForever(r) PROVE BL!Next
  BY <1>4, ForeverExiles DEF BL!Next
<1>5. ASSUME NEW r \in Requests, PunishReporter(r) PROVE BL!Next
  BY <1>5, ReporterSilenced DEF BL!Next
<1>6. CASE Tick
  <2>1. BL!Pass
    BY <1>6, LedgerPass
  <2> QED
    BY <2>1 DEF BL!Next
<1>7. ASSUME NEW r \in Requests,
             \/ \E f \in Floors, n \in Days : BanUser(r, f, n)
             \/ \E f \in Floors : BanUserForever(r, f)
             \/ \E p \in Reports, n \in Days : BanReporter(r, p, n)
             \/ LockUser(r) \/ Fail(r)
      PROVE  UNCHANGED BL!vars
  BY <1>7, LedgerKept DEF BanUser, BanUserForever, BanReporter, LockUser, Fail
<1>8. CASE \E f \in Floors, d \in Divisions : MoveHole(f, d)
  BY <1>8, LedgerKept DEF MoveHole
<1>9. CASE UNCHANGED vars
  BY <1>9, LedgerKept DEF vars
<1> QED
  BY <1>1, <1>2, <1>3, <1>4, <1>5, <1>6, <1>7, <1>8, <1>9 DEF Next

LEMMA LedgerInit == Init => BL!Init
<1> SUFFICES ASSUME Init PROVE BL!Init
  OBVIOUS
<1>1. RowEnds = [u \in Users |-> [d \in Divisions |-> None]]
  BY DEF Init, RowEnds
<1>2. RowOffences = [u \in Users |-> 0]
  BY DEF Init, RowOffences
<1>3. RowSilent = [u \in Users |-> [until |-> None, count |-> 0]]
  BY DEF Init, RowSilent
<1> QED
  BY <1>1, <1>2, <1>3 DEF Init, BL!Init, RowEnds, RowOffences, RowSilent

-----------------------------------------------------------------------------
(* Theorems *)

\* The inductive invariant holds always.
THEOREM Invariance == Spec => []IInv
BY InitIInv, NextIInv, PTL DEF Spec

\* Rows, records and locals keep their types.
THEOREM TypeCorrect == Spec => []TypeOK
BY Invariance, PTL DEF IInv

\* However many admins punish at the same moment, the offences of a user are the
\* records.
THEOREM Offences == Spec => []OffencesCounted
BY Invariance, PTL DEF IInv

\* Bans from reporting follow one another without overlap, and the row of the user
\* shows the last.
THEOREM ReportBans == Spec => []ReportBansConsecutive
BY Invariance, PTL DEF IInv

\* A ban from a division lasts as long as its records say together, except where
\* a revision is known to part them.
THEOREM BansAddUp == Spec => []BanIsSum
BY Invariance, PTL DEF IInv

\* Handlers that read a row, compute and save it punish as if each verdict were
\* one step on the ledger: what is saved is never computed from a row that has
\* changed since.
THEOREM Refinement == Spec => ImplementsLedger
BY LedgerInit, LedgerStep, Invariance, PTL DEF Spec, BL!Spec, ImplementsLedger

=============================================================================
