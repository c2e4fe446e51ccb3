---------------------------- MODULE AdminProofs ----------------------------
(***************************************************************************)
(* Proofs about what users ask of admins and admins do to the site: Report,*)
(* then Catalogue, whose names are prefixed so that one module holds both. *)
(*                                                                         *)
(* Report, for any number of requests, dealers and admins.  IInv is        *)
(* inductive: a request that found a report found the user's own, and while*)
(* handlers do not overlap the counter stays within the list.              *)
(*                                                                         *)
(* Catalogue, for any number of names, holes, divisions and handlers.      *)
(* CatalogueIInv is inductive: beside what the tables promise it counts the*)
(* ids that handlers may still take and says what each has in hand.        *)
(***************************************************************************)
EXTENDS Report, Catalogue, FiniteSetTheorems, WellFoundedInduction, TLAPS

\* A set of natural numbers that is not empty has a least element.
LEMMA LeastId ==
    ASSUME NEW T \in SUBSET Nat, T # {}
    PROVE  \E i \in T : \A j \in T : i <= j
<1>1. PICK i \in T : \A j \in T : ~ (<<j, i>> \in OpToRel(<, Nat))
  BY NatLessThanWellFounded, WFMin
<1>2. \A j \in T : ~ (j < i)
  BY <1>1 DEF OpToRel
<1> QED
  BY <1>2

\* The first report of a user on a floor is a report of that user on it.
LEMMA FirstReportFound ==
    ASSUME TypeOK, NEW u, NEW f
    PROVE  /\ FirstReport(u, f) = NoId <=> ReportsOf(u, f) = {}
           /\ FirstReport(u, f) # NoId => FirstReport(u, f) \in ReportsOf(u, f)
           /\ FirstReport(u, f) \in Nat
<1>1. ReportsOf(u, f) \subseteq 1..Len(report) /\ Len(report) \in Nat
  BY DEF ReportsOf, TypeOK
<1>2. CASE ReportsOf(u, f) = {}
  BY <1>2 DEF FirstReport, NoId
<1>3. CASE ReportsOf(u, f) # {}
  <2>1. ReportsOf(u, f) \in SUBSET Nat
    BY <1>1
  <2>2. \E i \in ReportsOf(u, f) : \A j \in ReportsOf(u, f) : i <= j
    BY <1>3, <2>1, LeastId
  <2>3. FirstReport(u, f) = CHOOSE i \in ReportsOf(u, f) :
                              \A j \in ReportsOf(u, f) : i <= j
    BY <1>3 DEF FirstReport
  <2>4. FirstReport(u, f) \in ReportsOf(u, f)
    BY <2>2, <2>3
  <2> QED
    BY <1>1, <1>3, <2>4 DEF NoId
<1> QED
  BY <1>2, <1>3

\* Int32 arithmetic stays in int32.
LEMMA SuccessorType ==
    ASSUME NEW n \in (-MaxInt - 1)..MaxInt
    PROVE  Successor(n) \in (-MaxInt - 1)..MaxInt
BY AdminsAssumption DEF Successor

LEMMA InitIInv == Init => IInv
<1> SUFFICES ASSUME Init PROVE IInv
  OBVIOUS
<1> USE DEF Init
<1>1. (CHOOSE u \in Users : TRUE) \in Users /\ (CHOOSE f \in Floors : TRUE) \in Floors
  BY SetsAssumption
<1>2. add \in [Requests -> AddLocals] /\ \A r \in Requests : add[r].step = "new"
  <2> DEFINE u0 == CHOOSE u \in Users : TRUE
             f0 == CHOOSE f \in Floors : TRUE
             l0 == [step |-> "new", user |-> u0, floor |-> f0, id |-> NoId,
                    read |-> {}, index |-> 0]
  <2>1. u0 \in Users /\ f0 \in Floors
    BY <1>1
  <2>2. add = [r \in Requests |-> l0]
    OBVIOUS
  <2> HIDE DEF u0, f0
  <2>3. l0 \in AddLocals /\ l0.step = "new"
    BY <2>1, AdminsAssumption DEF AddLocals, NoId
  <2> HIDE DEF l0
  <2> QED
    BY <2>2, <2>3
<1>3. TypeOK
  <2>1. report \in Seq(Row) /\ seen \in Seq(SUBSET Requests) /\ Len(seen) = Len(report)
    OBVIOUS
  <2>2. deal \in [Dealers -> DealLocals]
    BY DEF DealLocals, NoId
  <2>3. counter \in (-MaxInt - 1)..MaxInt
    BY AdminsAssumption
  <2> QED
    BY <1>2, <2>1, <2>2, <2>3 DEF TypeOK
<1>4. LocalsInv
  BY <1>2 DEF LocalsInv
<1>5. DispatchInv
  BY <1>2, AdminsAssumption DEF DispatchInv
<1>6. AdminPicked
  BY <1>2 DEF AdminPicked
<1>7. DealtSeen /\ OneReport
  BY DEF DealtSeen, OneReport
<1>8. NoReasonLost
  BY <1>2 DEF NoReasonLost
<1> QED
  BY <1>3, <1>4, <1>5, <1>6, <1>7, <1>8 DEF IInv

-----------------------------------------------------------------------------
(* AddReport *)

\* A step of one request that leaves the tables and the counter alone.
LEMMA FindReportStep ==
    ASSUME IInv, NEW r \in Requests, NEW u \in Users, NEW f \in Floors,
           FindReport(r, u, f)
    PROVE  IInv'
<1> USE DEF IInv
<1> DEFINE i == FirstReport(u, f)
           l == [step |-> "found", user |-> u, floor |-> f, id |-> i,
                 read |-> IF i = NoId THEN {} ELSE report[i].reasons,
                 index |-> 0]
<1>1. /\ add[r].step = "new" /\ add' = [add EXCEPT ![r] = l]
      /\ UNCHANGED <<report, counter, deal, seen, outdated, overlapped>>
  BY DEF FindReport
<1>2. i \in Nat /\ (i # NoId => i \in ReportsOf(u, f))
  BY FirstReportFound
<1>3. i # NoId => report[i].reasons \subseteq Requests
  <2>1. i # NoId => i \in DOMAIN report
    BY <1>2 DEF ReportsOf
  <2>2. \A j \in DOMAIN report : report[j] \in Row
    BY DEF TypeOK
  <2> QED
    BY <2>1, <2>2 DEF Row
<1> HIDE DEF i
<1>4. /\ l \in AddLocals /\ l.step = "found" /\ l.user = u /\ l.floor = f
      /\ l.id = i
  BY <1>2, <1>3, AdminsAssumption DEF AddLocals
<1> HIDE DEF l
<1>5. add \in [Requests -> AddLocals]
  BY DEF TypeOK
<1>6. \A q \in Requests : add'[q] = IF q = r THEN l ELSE add[q]
  BY <1>1, <1>5
<1>7. TypeOK'
  BY <1>1, <1>4, <1>5 DEF TypeOK
<1>8. LocalsInv'
  BY <1>1, <1>2, <1>4, <1>6 DEF LocalsInv, ReportsOf
<1>9. DispatchInv'
  <2> SUFFICES ASSUME ~ overlapped
               PROVE  DispatchInv'
    BY <1>1 DEF DispatchInv
  <2>1. \A q \in Requests : add[q].step = "counted" => add'[q] = add[q]
    BY <1>1, <1>6
  <2>2. \A q \in Requests : add'[q].step \in {"counted", "picking"} => add'[q] = add[q]
    BY <1>4, <1>6
  <2> QED
    BY <1>1, <2>1, <2>2 DEF DispatchInv
<1>10. AdminPicked'
  BY <1>1, <1>4, <1>6 DEF AdminPicked
<1>11. DealtSeen' /\ OneReport'
  BY <1>1 DEF DealtSeen, OneReport
<1>12. NoReasonLost'
  BY <1>1, <1>4, <1>6 DEF NoReasonLost, ReportsOf
<1> QED
  BY <1>7, <1>8, <1>9, <1>10, <1>11, <1>12

\* A request that moves on after its save changes nothing that the reports'
\* invariants look at.
LEMMA MovesOn ==
    ASSUME IInv, NEW r \in Requests, NEW l \in AddLocals,
           add' = [add EXCEPT ![r] = l],
           counter' \in (-MaxInt - 1)..MaxInt,
           overlapped' \in BOOLEAN,
           UNCHANGED <<report, deal, seen, outdated>>,
           l.user = add[r].user, l.floor = add[r].floor,
           l.step \notin {"new", "found"},
           l.step # "failed" => add[r].step \in {"saved", "counted", "picking"}
    PROVE  /\ TypeOK' /\ LocalsInv' /\ DealtSeen' /\ NoReasonLost' /\ OneReport'
           /\ \A q \in Requests : add'[q] = IF q = r THEN l ELSE add[q]
<1> USE DEF IInv
<1>1. add \in [Requests -> AddLocals]
  BY DEF TypeOK
<1>2. \A q \in Requests : add'[q] = IF q = r THEN l ELSE add[q]
  BY <1>1
<1>3. TypeOK'
  BY <1>1 DEF TypeOK
<1>4. LocalsInv'
  BY <1>2 DEF LocalsInv, ReportsOf
<1>5. DealtSeen' /\ OneReport'
  BY DEF DealtSeen, OneReport
<1>6. NoReasonLost'
  BY <1>2 DEF NoReasonLost, ReportsOf
<1> QED
  BY <1>2, <1>3, <1>4, <1>5, <1>6

LEMMA FailReportStep ==
    ASSUME IInv, NEW r \in Requests, FailReport(r)
    PROVE  IInv'
<1> USE DEF IInv
<1> DEFINE l == [add[r] EXCEPT !.step = "failed"]
<1>1. /\ add[r].step \in {"found", "saved"} /\ add' = [add EXCEPT ![r] = l]
      /\ UNCHANGED <<report, counter, deal, seen, outdated, overlapped>>
  BY DEF FailReport
<1>2. /\ l \in AddLocals /\ l.step = "failed" /\ l.user = add[r].user
      /\ l.floor = add[r].floor
  <2> DEFINE a == add[r]
  <2>1. a \in AddLocals
    BY DEF TypeOK
  <2> HIDE DEF a
  <2>2. /\ l \in AddLocals /\ l.step = "failed" /\ l.user = a.user
        /\ l.floor = a.floor
    BY <2>1 DEF AddLocals, a
  <2> QED
    BY <2>2 DEF a
<1> HIDE DEF l
<1>3. /\ TypeOK' /\ LocalsInv' /\ DealtSeen' /\ NoReasonLost' /\ OneReport'
      /\ \A q \in Requests : add'[q] = IF q = r THEN l ELSE add[q]
  BY <1>1, <1>2, MovesOn DEF TypeOK
<1>4. DispatchInv'
  <2> SUFFICES ASSUME ~ overlapped
               PROVE  DispatchInv'
    BY <1>1 DEF DispatchInv
  <2>1. \A q \in Requests : add[q].step = "counted" => add'[q] = add[q]
    BY <1>1, <1>3
  <2>2. \A q \in Requests : add'[q].step \in {"counted", "picking"} => add'[q] = add[q]
    BY <1>2, <1>3
  <2> QED
    BY <1>1, <2>1, <2>2 DEF DispatchInv
<1>5. AdminPicked'
  BY <1>1, <1>2, <1>3 DEF AdminPicked
<1> QED
  BY <1>3, <1>4, <1>5

LEMMA IncrementStep ==
    ASSUME IInv, NEW r \in Requests, Increment(r)
    PROVE  IInv'
<1> USE DEF IInv
<1> DEFINE c == Successor(counter)
           l == [add[r] EXCEPT !.step = "counted", !.index = c]
<1>1. /\ add[r].step = "saved" /\ add' = [add EXCEPT ![r] = l]
      /\ counter' = c
      /\ overlapped' = (overlapped \/ \E q \in Requests : add[q].step = "counted")
      /\ UNCHANGED <<report, deal, seen, outdated>>
  BY DEF Increment
<1>2. c \in (-MaxInt - 1)..MaxInt
  BY SuccessorType DEF TypeOK
<1>3. counter \in 0..Admins /\ counter # Admins => c = counter + 1
  BY AdminsAssumption DEF Successor
<1> HIDE DEF c
<1>4. /\ l \in AddLocals /\ l.step = "counted" /\ l.user = add[r].user
      /\ l.floor = add[r].floor /\ l.index = c
  <2> DEFINE a == add[r]
  <2>1. a \in AddLocals
    BY DEF TypeOK
  <2> HIDE DEF a
  <2>2. /\ l \in AddLocals /\ l.step = "counted" /\ l.user = a.user
        /\ l.floor = a.floor /\ l.index = c
    BY <1>2, <2>1 DEF AddLocals, a
  <2> QED
    BY <2>2 DEF a
<1> HIDE DEF l
<1>5. /\ TypeOK' /\ LocalsInv' /\ DealtSeen' /\ NoReasonLost' /\ OneReport'
      /\ \A q \in Requests : add'[q] = IF q = r THEN l ELSE add[q]
  BY <1>1, <1>2, <1>4, MovesOn DEF TypeOK
<1>6. DispatchInv'
  <2> SUFFICES ASSUME ~ overlapped'
               PROVE  DispatchInv'
    BY DEF DispatchInv
  <2>1. ~ overlapped /\ \A q \in Requests : add[q].step # "counted"
    BY <1>1
  <2>2. Admins \in Nat /\ Admins > 0 /\ counter \in 0..Admins /\ counter # Admins
    BY <1>1, <2>1, AdminsAssumption DEF DispatchInv, LocalsInv
  <2>3. counter' = counter + 1 /\ l.index = counter + 1
    BY <1>1, <1>3, <1>4, <2>2
  <2>4. \A q \in Requests : add'[q].step = "counted" => q = r
    BY <1>5, <2>1
  <2>5. add'[r].step = "counted"
    BY <1>4, <1>5
  <2>6. \A q \in Requests :
          add'[q].step \in {"counted", "picking"} => add'[q].index \in 1..Admins
    <3> SUFFICES ASSUME NEW q \in Requests, add'[q].step \in {"counted", "picking"}
                 PROVE  add'[q].index \in 1..Admins
      OBVIOUS
    <3>1. CASE q = r
      BY <1>5, <2>2, <2>3, <3>1
    <3>2. CASE q # r
      BY <1>5, <2>1, <3>2 DEF DispatchInv
    <3> QED
      BY <3>1, <3>2
  <2> QED
    BY <2>2, <2>3, <2>4, <2>5, <2>6 DEF DispatchInv
<1>7. AdminPicked'
  BY <1>1, <1>4, <1>5 DEF AdminPicked
<1> QED
  BY <1>5, <1>6, <1>7

LEMMA ResetStep ==
    ASSUME IInv, NEW r \in Requests, Reset(r)
    PROVE  IInv'
<1> USE DEF IInv
<1> DEFINE l == [add[r] EXCEPT !.step = "picking"]
<1>1. /\ add[r].step = "counted" /\ add' = [add EXCEPT ![r] = l]
      /\ counter' = ResetAt(counter)
      /\ UNCHANGED <<report, deal, seen, outdated, overlapped>>
  BY DEF Reset
<1>2. counter' \in (-MaxInt - 1)..MaxInt
  BY <1>1, AdminsAssumption DEF ResetAt, TypeOK
<1>3. /\ l \in AddLocals /\ l.step = "picking" /\ l.user = add[r].user
      /\ l.floor = add[r].floor /\ l.index = add[r].index
  <2> DEFINE a == add[r]
  <2>1. a \in AddLocals
    BY DEF TypeOK
  <2> HIDE DEF a
  <2>2. /\ l \in AddLocals /\ l.step = "picking" /\ l.user = a.user
        /\ l.floor = a.floor /\ l.index = a.index
    BY <2>1 DEF AddLocals, a
  <2> QED
    BY <2>2 DEF a
<1> HIDE DEF l
<1>4. /\ TypeOK' /\ LocalsInv' /\ DealtSeen' /\ NoReasonLost' /\ OneReport'
      /\ \A q \in Requests : add'[q] = IF q = r THEN l ELSE add[q]
  BY <1>1, <1>2, <1>3, MovesOn DEF TypeOK
<1>5. DispatchInv'
  <2> SUFFICES ASSUME ~ overlapped
               PROVE  DispatchInv'
    BY <1>1 DEF DispatchInv
  <2>1. counter \in 0..Admins /\ Admins \in Nat
    BY AdminsAssumption DEF DispatchInv
  <2>2. counter' \in 0..Admins /\ (Admins # 0 => counter' # Admins)
    BY <1>1, <2>1 DEF ResetAt
  <2>3. \A q \in Requests : add'[q].step = "counted" => q # r /\ add'[q] = add[q]
    BY <1>3, <1>4
  <2>4. \A q \in Requests :
          add'[q].step \in {"counted", "picking"} => add'[q].index \in 1..Admins
    BY <1>1, <1>3, <1>4 DEF DispatchInv
  <2> QED
    BY <2>2, <2>3, <2>4 DEF DispatchInv
<1>6. AdminPicked'
  BY <1>1, <1>3, <1>4 DEF AdminPicked
<1> QED
  BY <1>4, <1>5, <1>6

LEMMA PickAdminStep ==
    ASSUME IInv, NEW r \in Requests, PickAdmin(r)
    PROVE  IInv'
<1> USE DEF IInv
<1> DEFINE s == IF add[r].index \in 1..Admins THEN "done" ELSE "panicked"
           l == [add[r] EXCEPT !.step = s]
<1>1. /\ add[r].step = "picking" /\ add' = [add EXCEPT ![r] = l]
      /\ UNCHANGED <<report, counter, deal, seen, outdated, overlapped>>
  BY DEF PickAdmin
<1>2. s \in {"done", "panicked"} /\ (~ overlapped => s = "done")
  BY <1>1 DEF DispatchInv
<1> HIDE DEF s
<1>3. /\ l \in AddLocals /\ l.step = s /\ l.user = add[r].user
      /\ l.floor = add[r].floor
  <2> DEFINE a == add[r]
  <2>1. a \in AddLocals
    BY DEF TypeOK
  <2> HIDE DEF a
  <2>2. /\ l \in AddLocals /\ l.step = s /\ l.user = a.user
        /\ l.floor = a.floor
    BY <1>2, <2>1 DEF AddLocals, a
  <2> QED
    BY <2>2 DEF a
<1> HIDE DEF l
<1>4. /\ TypeOK' /\ LocalsInv' /\ DealtSeen' /\ NoReasonLost' /\ OneReport'
      /\ \A q \in Requests : add'[q] = IF q = r THEN l ELSE add[q]
  BY <1>1, <1>2, <1>3, MovesOn DEF TypeOK
<1>5. DispatchInv'
  <2> SUFFICES ASSUME ~ overlapped
               PROVE  DispatchInv'
    BY <1>1 DEF DispatchInv
  <2>1. \A q \in Requests : add[q].step = "counted" => add'[q] = add[q]
    BY <1>1, <1>4
  <2>2. \A q \in Requests : add'[q].step \in {"counted", "picking"} => add'[q] = add[q]
    BY <1>2, <1>3, <1>4
  <2> QED
    BY <1>1, <2>1, <2>2 DEF DispatchInv
<1>6. AdminPicked'
  BY <1>1, <1>2, <1>3, <1>4 DEF AdminPicked
<1> QED
  BY <1>4, <1>5, <1>6

\* Saving a row for its user and floor again moves no report.
LEMMA RowSaved ==
    ASSUME TypeOK, NEW i \in DOMAIN report, NEW n \in Row,
           n.user = report[i].user, n.floor = report[i].floor,
           report' = [report EXCEPT ![i] = n]
    PROVE  /\ report' \in Seq(Row) /\ Len(report') = Len(report)
           /\ DOMAIN report' = DOMAIN report
           /\ report'[i] = n
           /\ \A j \in DOMAIN report : /\ j # i => report'[j] = report[j]
                                      /\ report'[j].user = report[j].user
                                      /\ report'[j].floor = report[j].floor
<1>1. report \in Seq(Row)
  BY DEF TypeOK
<1>2. /\ report' \in Seq(Row) /\ Len(report') = Len(report)
      /\ DOMAIN report' = DOMAIN report
  BY <1>1
<1>3. report'[i] = n /\ \A j \in DOMAIN report : j # i => report'[j] = report[j]
  BY <1>1
<1> QED
  BY <1>2, <1>3

\* The user's first report on a floor is added at the end of the table.
LEMMA CreatedStep ==
    ASSUME IInv, NEW r \in Requests, SaveReport(r), add[r].id = NoId
    PROVE  IInv'
<1> USE DEF IInv
<1> DEFINE a == add[r]
           s == IF Admins = 0 THEN "done" ELSE "saved"
           l == [a EXCEPT !.step = s]
           n == [user |-> a.user, floor |-> a.floor,
                 reasons |-> a.read \cup {r}, dealt |-> FALSE]
<1>1. /\ a.step = "found" /\ add' = [add EXCEPT ![r] = l]
      /\ report' = Append(report, n) /\ seen' = Append(seen, {})
      /\ outdated' = (outdated \/ ReportsOf(a.user, a.floor) # {})
      /\ UNCHANGED <<counter, deal, overlapped>>
  BY DEF SaveReport
<1>2. /\ a \in AddLocals /\ add \in [Requests -> AddLocals]
      /\ report \in Seq(Row) /\ seen \in Seq(SUBSET Requests)
      /\ Len(seen) = Len(report)
  BY DEF TypeOK
<1>3. s \in {"done", "saved"} /\ (s = "saved" => Admins # 0)
  OBVIOUS
<1> HIDE DEF a, s
<1>4. /\ l \in AddLocals /\ l.step = s /\ l.user = a.user /\ l.floor = a.floor
  BY <1>2, <1>3 DEF AddLocals
<1>5. n \in Row /\ n.user = a.user /\ n.floor = a.floor /\ r \in n.reasons /\ ~ n.dealt
  BY <1>2 DEF AddLocals, Row
<1> HIDE DEF l, n
<1>6. \A q \in Requests : add'[q] = IF q = r THEN l ELSE add[q]
  BY <1>1, <1>2
<1>7. /\ report' \in Seq(Row) /\ seen' \in Seq(SUBSET Requests)
      /\ Len(seen') = Len(report') /\ Len(report') = Len(report) + 1
      /\ Len(report) \in Nat
      /\ \A i \in 1..Len(report) : report'[i] = report[i] /\ seen'[i] = seen[i]
      /\ report'[Len(report) + 1] = n
      /\ DOMAIN report = 1..Len(report) /\ DOMAIN report' = 1..(Len(report) + 1)
  BY <1>1, <1>2, <1>5
<1>8. TypeOK'
  BY <1>1, <1>2, <1>4, <1>7 DEF TypeOK
<1>9. LocalsInv'
  <2>1. \A q \in Requests : add'[q].step = "found" => q # r
    BY <1>3, <1>4, <1>6
  <2>2. \A q \in Requests :
          /\ add'[q].step = "found" /\ add'[q].id # NoId =>
               add'[q].id \in DOMAIN report' /\ report'[add'[q].id].user = add'[q].user
                                            /\ report'[add'[q].id].floor = add'[q].floor
          /\ add'[q].step \in {"saved", "counted", "picking"} => Admins > 0
    BY <1>3, <1>4, <1>6, <1>7, <2>1, AdminsAssumption DEF LocalsInv, ReportsOf
  <2>3. \A d \in Dealers : deal'[d].step = "read" => deal'[d].id \in DOMAIN report'
    BY <1>1, <1>7 DEF LocalsInv
  <2> QED
    BY <2>2, <2>3 DEF LocalsInv, ReportsOf
<1>10. DispatchInv'
  <2> SUFFICES ASSUME ~ overlapped
               PROVE  DispatchInv'
    BY <1>1 DEF DispatchInv
  <2>1. \A q \in Requests : add[q].step = "counted" => add'[q] = add[q]
    BY <1>1, <1>6 DEF a
  <2>2. \A q \in Requests : add'[q].step \in {"counted", "picking"} => add'[q] = add[q]
    BY <1>3, <1>4, <1>6
  <2> QED
    BY <1>1, <2>1, <2>2 DEF DispatchInv
<1>11. AdminPicked'
  BY <1>1, <1>3, <1>4, <1>6 DEF AdminPicked
<1>12. DealtSeen'
  BY <1>5, <1>7 DEF DealtSeen
<1>13. NoReasonLost'
  <2> SUFFICES ASSUME ~ outdated', NEW q \in Requests,
                      add'[q].step \notin {"new", "found", "failed"}
               PROVE  \E i \in DOMAIN report' : /\ report'[i].user = add'[q].user
                                               /\ report'[i].floor = add'[q].floor
                                               /\ q \in report'[i].reasons
    BY DEF NoReasonLost, ReportsOf
  <2>1. CASE q = r
    BY <1>4, <1>5, <1>6, <1>7, <2>1
  <2>2. CASE q # r
    <3>1. PICK i \in DOMAIN report : /\ report[i].user = add[q].user
                                    /\ report[i].floor = add[q].floor
                                    /\ q \in report[i].reasons
      BY <1>1, <1>6, <2>2 DEF NoReasonLost, ReportsOf
    <3> QED
      BY <1>6, <1>7, <2>2, <3>1
  <2> QED
    BY <2>1, <2>2
<1>14. OneReport'
  <2> SUFFICES ASSUME ~ outdated', NEW i \in DOMAIN report', NEW j \in DOMAIN report',
                      report'[i].user = report'[j].user,
                      report'[i].floor = report'[j].floor
               PROVE  i = j
    BY DEF OneReport
  <2>1. /\ ~ outdated
        /\ \A k \in DOMAIN report : ~ (report[k].user = n.user /\ report[k].floor = n.floor)
    BY <1>1, <1>5 DEF ReportsOf
  <2>2. CASE i \in DOMAIN report /\ j \in DOMAIN report
    BY <1>7, <2>1, <2>2 DEF OneReport
  <2>3. CASE i \notin DOMAIN report \/ j \notin DOMAIN report
    BY <1>7, <2>1, <2>3
  <2> QED
    BY <2>2, <2>3
<1> QED
  BY <1>8, <1>9, <1>10, <1>11, <1>12, <1>13, <1>14

\* A reason is added to the report that was found.
LEMMA AddedStep ==
    ASSUME IInv, NEW r \in Requests, SaveReport(r), add[r].id # NoId
    PROVE  IInv'
<1> USE DEF IInv
<1> DEFINE a == add[r]
           i == a.id
           s == IF Admins = 0 THEN "done" ELSE "saved"
           l == [a EXCEPT !.step = s]
           reasons == a.read \cup {r}
           old == report[i]
           n == Again(old, reasons)
<1>1. /\ a.step = "found" /\ add' = [add EXCEPT ![r] = l]
      /\ report' = [report EXCEPT ![i] = n]
      /\ outdated' = (outdated \/ old.reasons # a.read)
      /\ UNCHANGED <<seen, counter, deal, overlapped>>
  BY DEF SaveReport, TypeOK, LocalsInv, ReportsOf
<1>2. /\ a \in AddLocals /\ add \in [Requests -> AddLocals]
      /\ i \in DOMAIN report /\ old \in Row
      /\ old.user = a.user /\ old.floor = a.floor
  BY <1>1 DEF TypeOK, LocalsInv, ReportsOf
<1>3. s \in {"done", "saved"} /\ (s = "saved" => Admins # 0)
  OBVIOUS
<1>4. reasons \in SUBSET Requests
  BY <1>2 DEF AddLocals
<1> HIDE DEF a, s, i, reasons, old
<1>5. /\ l \in AddLocals /\ l.step = s /\ l.user = a.user /\ l.floor = a.floor
      /\ l.id = a.id
  BY <1>2, <1>3 DEF AddLocals
<1>6. /\ n \in Row /\ n.user = old.user /\ n.floor = old.floor
      /\ n.reasons = reasons /\ ~ n.dealt
  BY <1>2, <1>4 DEF Again, Row
<1> HIDE DEF l, n
<1>7. \A q \in Requests : add'[q] = IF q = r THEN l ELSE add[q]
  BY <1>1, <1>2
<1>8. /\ report' \in Seq(Row) /\ Len(report') = Len(report)
      /\ DOMAIN report' = DOMAIN report /\ report'[i] = n
      /\ \A j \in DOMAIN report : /\ j # i => report'[j] = report[j]
                                 /\ report'[j].user = report[j].user
                                 /\ report'[j].floor = report[j].floor
  BY <1>1, <1>2, <1>6, RowSaved DEF old
<1>9. TypeOK'
  BY <1>1, <1>2, <1>5, <1>8 DEF TypeOK
<1>10. LocalsInv'
  <2>1. \A q \in Requests : add'[q].step = "found" => q # r
    BY <1>3, <1>5, <1>7
  <2>2. \A q \in Requests :
          /\ add'[q].step = "found" /\ add'[q].id # NoId =>
               add'[q].id \in DOMAIN report' /\ report'[add'[q].id].user = add'[q].user
                                            /\ report'[add'[q].id].floor = add'[q].floor
          /\ add'[q].step \in {"saved", "counted", "picking"} => Admins > 0
    BY <1>3, <1>5, <1>7, <1>8, <2>1, AdminsAssumption DEF LocalsInv, ReportsOf
  <2>3. \A d \in Dealers : deal'[d].step = "read" => deal'[d].id \in DOMAIN report'
    BY <1>1, <1>8 DEF LocalsInv
  <2> QED
    BY <2>2, <2>3 DEF LocalsInv, ReportsOf
<1>11. DispatchInv'
  <2> SUFFICES ASSUME ~ overlapped
               PROVE  DispatchInv'
    BY <1>1 DEF DispatchInv
  <2>1. \A q \in Requests : add[q].step = "counted" => add'[q] = add[q]
    BY <1>1, <1>7 DEF a
  <2>2. \A q \in Requests : add'[q].step \in {"counted", "picking"} => add'[q] = add[q]
    BY <1>3, <1>5, <1>7
  <2> QED
    BY <1>1, <2>1, <2>2 DEF DispatchInv
<1>12. AdminPicked'
  BY <1>1, <1>3, <1>5, <1>7 DEF AdminPicked
<1>13. DealtSeen'
  BY <1>1, <1>6, <1>8 DEF DealtSeen
<1>14. NoReasonLost'
  <2> SUFFICES ASSUME ~ outdated', NEW q \in Requests,
                      add'[q].step \notin {"new", "found", "failed"}
               PROVE  \E j \in DOMAIN report' : /\ report'[j].user = add'[q].user
                                               /\ report'[j].floor = add'[q].floor
                                               /\ q \in report'[j].reasons
    BY DEF NoReasonLost, ReportsOf
  <2>1. ~ outdated /\ old.reasons = a.read /\ reasons = old.reasons \cup {r}
    BY <1>1 DEF reasons
  <2>2. CASE q = r
    BY <1>2, <1>5, <1>6, <1>7, <1>8, <2>1, <2>2
  <2>3. CASE q # r
    <3>1. PICK j \in DOMAIN report : /\ report[j].user = add[q].user
                                    /\ report[j].floor = add[q].floor
                                    /\ q \in report[j].reasons
      BY <1>7, <2>1, <2>3 DEF NoReasonLost, ReportsOf
    <3>2. q \in report'[j].reasons
      BY <1>6, <1>8, <2>1, <3>1 DEF old
    <3> QED
      BY <1>7, <1>8, <2>3, <3>1, <3>2
  <2> QED
    BY <2>2, <2>3
<1>15. OneReport'
  <2> SUFFICES ASSUME ~ outdated', NEW j \in DOMAIN report', NEW k \in DOMAIN report',
                      report'[j].user = report'[k].user,
                      report'[j].floor = report'[k].floor
               PROVE  j = k
    BY DEF OneReport
  <2>1. ~ outdated /\ j \in DOMAIN report /\ k \in DOMAIN report
    BY <1>1, <1>8
  <2>2. report[j].user = report[k].user /\ report[j].floor = report[k].floor
    BY <1>8, <2>1
  <2> QED
    BY <2>1, <2>2 DEF OneReport
<1> QED
  BY <1>9, <1>10, <1>11, <1>12, <1>13, <1>14, <1>15

-----------------------------------------------------------------------------
(* DeleteReport *)

LEMMA ReadReportStep ==
    ASSUME IInv, NEW d \in Dealers, NEW i \in DOMAIN report, ReadReport(d, i)
    PROVE  IInv'
<1> USE DEF IInv
<1> DEFINE l == [step |-> "read", id |-> i, reasons |-> report[i].reasons]
<1>1. /\ deal' = [deal EXCEPT ![d] = l]
      /\ UNCHANGED <<report, counter, add, seen, outdated, overlapped>>
  BY DEF ReadReport
<1>2. deal \in [Dealers -> DealLocals] /\ i \in Nat /\ report[i] \in Row
  BY DEF TypeOK
<1>3. l \in DealLocals /\ l.id = i
  BY <1>2 DEF DealLocals, Row
<1> HIDE DEF l
<1>4. TypeOK'
  BY <1>1, <1>2, <1>3 DEF TypeOK
<1>5. LocalsInv'
  BY <1>1, <1>2, <1>3 DEF LocalsInv, ReportsOf
<1>6. DispatchInv' /\ AdminPicked'
  BY <1>1 DEF DispatchInv, AdminPicked
<1>7. DealtSeen' /\ NoReasonLost' /\ OneReport'
  BY <1>1 DEF DealtSeen, NoReasonLost, OneReport, ReportsOf
<1> QED
  BY <1>4, <1>5, <1>6, <1>7

LEMMA SaveDealtStep ==
    ASSUME IInv, NEW d \in Dealers, SaveDealt(d)
    PROVE  IInv'
<1> USE DEF IInv
<1> DEFINE a == deal[d]
           i == a.id
           l == [a EXCEPT !.step = "done"]
           old == report[i]
           n == Dealt(old, a.reasons)
<1>1. /\ a.step = "read" /\ deal' = [deal EXCEPT ![d] = l]
      /\ report' = [report EXCEPT ![i] = n]
      /\ seen' = [seen EXCEPT ![i] = a.reasons]
      /\ outdated' = (outdated \/ old.reasons # a.reasons)
      /\ UNCHANGED <<counter, add, overlapped>>
  BY DEF SaveDealt, TypeOK, LocalsInv
<1>2. /\ a \in DealLocals /\ deal \in [Dealers -> DealLocals]
      /\ i \in DOMAIN report /\ old \in Row
      /\ seen \in Seq(SUBSET Requests) /\ Len(seen) = Len(report)
      /\ report \in Seq(Row)
  BY <1>1 DEF TypeOK, LocalsInv
<1> HIDE DEF a, i, old
<1>3. /\ l \in DealLocals /\ l.step = "done" /\ a.reasons \in SUBSET Requests
  BY <1>2 DEF DealLocals
<1>4. /\ n \in Row /\ n.user = old.user /\ n.floor = old.floor
      /\ n.reasons = a.reasons
  BY <1>2, <1>3 DEF Dealt, Row
<1> HIDE DEF l, n
<1>5. /\ report' \in Seq(Row) /\ Len(report') = Len(report)
      /\ DOMAIN report' = DOMAIN report /\ report'[i] = n
      /\ \A j \in DOMAIN report : /\ j # i => report'[j] = report[j]
                                 /\ report'[j].user = report[j].user
                                 /\ report'[j].floor = report[j].floor
  BY <1>1, <1>2, <1>4, RowSaved DEF old
<1>6. /\ seen' \in Seq(SUBSET Requests) /\ Len(seen') = Len(seen)
      /\ seen'[i] = a.reasons
      /\ \A j \in DOMAIN report : j # i => seen'[j] = seen[j]
  BY <1>1, <1>2, <1>3
<1>7. TypeOK'
  BY <1>1, <1>2, <1>3, <1>5, <1>6 DEF TypeOK
<1>8. LocalsInv'
  <2>1. \A q \in Requests :
          /\ add[q].step = "found" /\ add[q].id # NoId =>
               add[q].id \in DOMAIN report' /\ report'[add[q].id].user = add[q].user
                                           /\ report'[add[q].id].floor = add[q].floor
          /\ add[q].step \in {"saved", "counted", "picking"} => Admins > 0
    BY <1>5 DEF LocalsInv, ReportsOf
  <2>2. \A e \in Dealers : deal'[e].step = "read" => deal'[e].id \in DOMAIN report'
    BY <1>1, <1>2, <1>3, <1>5 DEF LocalsInv
  <2> QED
    BY <1>1, <2>1, <2>2 DEF LocalsInv, ReportsOf
<1>9. DispatchInv' /\ AdminPicked'
  BY <1>1 DEF DispatchInv, AdminPicked
<1>10. DealtSeen'
  BY <1>4, <1>5, <1>6 DEF DealtSeen
<1>11. NoReasonLost'
  <2> SUFFICES ASSUME ~ outdated', NEW q \in Requests,
                      add[q].step \notin {"new", "found", "failed"}
               PROVE  \E j \in DOMAIN report' : /\ report'[j].user = add[q].user
                                               /\ report'[j].floor = add[q].floor
                                               /\ q \in report'[j].reasons
    BY <1>1 DEF NoReasonLost, ReportsOf
  <2>1. PICK j \in DOMAIN report : /\ report[j].user = add[q].user
                                  /\ report[j].floor = add[q].floor
                                  /\ q \in report[j].reasons
    BY <1>1 DEF NoReasonLost, ReportsOf
  <2>2. report'[j].reasons = report[j].reasons
    BY <1>1, <1>4, <1>5 DEF old
  <2> QED
    BY <1>5, <2>1, <2>2
<1>12. OneReport'
  <2> SUFFICES ASSUME ~ outdated', NEW j \in DOMAIN report', NEW k \in DOMAIN report',
                      report'[j].user = report'[k].user,
                      report'[j].floor = report'[k].floor
               PROVE  j = k
    BY DEF OneReport
  <2>1. ~ outdated /\ j \in DOMAIN report /\ k \in DOMAIN report
    BY <1>1, <1>5
  <2>2. report[j].user = report[k].user /\ report[j].floor = report[k].floor
    BY <1>5, <2>1
  <2> QED
    BY <2>1, <2>2 DEF OneReport
<1> QED
  BY <1>7, <1>8, <1>9, <1>10, <1>11, <1>12

-----------------------------------------------------------------------------
(* The specification *)

LEMMA NextIInv == IInv /\ [Next]_vars => IInv'
<1> SUFFICES ASSUME IInv, [Next]_vars PROVE IInv'
  OBVIOUS
<1>1. CASE UNCHANGED vars
  BY <1>1 DEF vars, IInv, TypeOK, LocalsInv, DispatchInv, AdminPicked, DealtSeen,
              NoReasonLost, OneReport, ReportsOf
<1>2. ASSUME NEW r \in Requests, NEW u \in Users, NEW f \in Floors,
             FindReport(r, u, f)
      PROVE  IInv'
  BY <1>2, FindReportStep
<1>3. ASSUME NEW r \in Requests, SaveReport(r)
      PROVE  IInv'
  BY <1>3, CreatedStep, AddedStep
<1>4. ASSUME NEW r \in Requests,
             FailReport(r) \/ Increment(r) \/ Reset(r) \/ PickAdmin(r)
      PROVE  IInv'
  BY <1>4, FailReportStep, IncrementStep, ResetStep, PickAdminStep
<1>5. ASSUME NEW d \in Dealers,
             (\E i \in DOMAIN report : ReadReport(d, i)) \/ SaveDealt(d)
      PROVE  IInv'
  BY <1>5, ReadReportStep, SaveDealtStep
<1> QED
  BY <1>1, <1>2, <1>3, <1>4, <1>5 DEF Next

\* The invariant of reporting, dispatching and dealing.
THEOREM Invariance == Spec => []IInv
BY InitIInv, NextIInv, PTL DEF Spec

\* Rows and locals keep their types; the counter stays an int32.
THEOREM TypeCorrect == Spec => []TypeOK
<1>1. IInv => TypeOK
  BY DEF IInv
<1> QED
  BY <1>1, Invariance, PTL

\* Only overlapping dispatches make a handler miss the list of admins.
THEOREM AdminsReached == Spec => []AdminPicked
<1>1. IInv => AdminPicked
  BY DEF IInv
<1> QED
  BY <1>1, Invariance, PTL

\* An admin has seen every reason of a report marked as dealt.
THEOREM DealtKnown == Spec => []DealtSeen
<1>1. IInv => DealtSeen
  BY DEF IInv
<1> QED
  BY <1>1, Invariance, PTL

\* Only a handler that saves over another's change loses a reason ...
THEOREM ReasonsKept == Spec => []NoReasonLost
<1>1. IInv => NoReasonLost
  BY DEF IInv
<1> QED
  BY <1>1, Invariance, PTL

\* ... or makes a second report of a user on a floor.
THEOREM ReportsUnique == Spec => []OneReport
<1>1. IInv => OneReport
  BY DEF IInv
<1> QED
  BY <1>1, Invariance, PTL

-----------------------------------------------------------------------------
(* The catalogue: the invariant by handlers *)

\* The request q, given a table, a next id, holes and what happened to tags.
HeldBy(q, table, next, holes, changed) ==
    q.step \in {"check", "store", "stuck"} =>
        /\ q.ids \subseteq 0..(next - 1)
        /\ q.new \subseteq q.names /\ FoundOne(q)
        /\ q.step = "check" => q.new # {}
        /\ q.step = "store" => q.ids # {}
        /\ q.hole = None => q.division # None
        /\ q.hole # None => holes[q.hole] # None /\ (q.step = "store" => q.new = {})
        /\ \/ q.ids \cap changed # {}
           \/ ~ (q.ids \subseteq {t \in TagIds : table[t] # None})
           \/ {table[t].name : t \in q.ids} =
                IF q.step = "store" THEN q.names ELSE q.names \ q.new

ReadBy(q, next, gone, kept) ==
    /\ q.step = "edit" => q.id < next /\ (q.id \in gone => q.id \in kept)
    /\ q.step \in {"source", "merge"} => q.from < next
    /\ q.step = "merge" => q.to < next

May(q) == q.step \in {"new", "check", "edit"}

LEMMA HandlersIs ==
    FilingInv /\ AskedInv /\ EditInv
      <=> \A r \in Handlers : /\ HeldBy(req[r], tag, nextTag, hole, renamed)
                              /\ ReadBy(req[r], nextTag, removed, resaved)
<1>1. FilingInv /\ AskedInv <=> \A r \in Handlers : HeldBy(req[r], tag, nextTag, hole, renamed)
  BY DEF FilingInv, AskedInv, HeldBy, Filing, TagsExist, Live
<1>2. EditInv <=> \A r \in Handlers : ReadBy(req[r], nextTag, removed, resaved)
  BY DEF EditInv, ReadBy
<1> QED
  BY <1>1, <1>2

Kept == \A p \in Handlers : /\ HeldBy(req[p], tag, nextTag, hole, renamed)
                             /\ ReadBy(req[p], nextTag, removed, resaved)

LEMMA CatalogueParts ==
    CatalogueIInv <=> /\ CatalogueTypeOK /\ ReferencesHold /\ HolesKeepTags
                      /\ DeletedTagsGone /\ TemperatureExact /\ IdsInv /\ FreshInv
                      /\ Kept
BY HandlersIs DEF CatalogueIInv, TablesOK, Kept

\* What a request has, by its step.
LEMMA RequestIs ==
    ASSUME NEW q \in Request
    PROVE  /\ q.step \in {"new", "done", "check", "store", "stuck", "edit", "source",
                          "merge", "moved"}
           /\ q.step = "source" => q.from \in TagIds /\ q.fromRow \in TagRow
           /\ q.step \in {"check", "store", "stuck"} =>
                /\ q \in [step : {"check", "store", "stuck"}, hole : Holes \cup {None},
                          division : Divisions \cup {None}, names : SUBSET Names,
                          ids : SUBSET (TagIds \cup {0}), new : SUBSET Names]
           /\ q.step = "edit" => q.id \in TagIds \cup {0} /\ q.row \in TagRow
           /\ q.step = "merge" => /\ q.from \in TagIds /\ q.to \in TagIds
                                  /\ q.fromRow \in TagRow /\ q.toRow \in TagRow
           /\ q.step = "moved" => q.division \in Divisions
BY DEF Request

\* Handlers that may still insert a tag, and the ids.
LEMMA IdsKept ==
    ASSUME IdsInv, CatalogueTypeOK, NEW r \in Handlers, NEW q, To(r, q),
           \/ nextTag' = nextTag /\ (May(q) => May(req[r]))
           \/ nextTag' = nextTag + 1 /\ May(req[r]) /\ ~ May(q)
    PROVE  IdsInv'
<1>1. /\ req'[r] = q /\ \A p \in Handlers : p # r => req'[p] = req[p]
  BY DEF To, CatalogueTypeOK
<1>2. IsFiniteSet(Pending) /\ Cardinality(Pending) \in Nat /\ IsFiniteSet(Handlers)
  BY FiniteAssumption, FS_Subset, FS_CardinalityType DEF Pending
<1>3. nextTag \in Nat /\ MaxTag \in Nat
  BY BoundAssumption DEF CatalogueTypeOK
<1>4. ASSUME May(q) PROVE Pending' = Pending
  <2>1. May(req[r])
    BY <1>3, <1>4
  <2>2. \A p \in Handlers : p \in Pending' <=> p \in Pending
    BY <1>1, <1>4, <2>1 DEF Pending, May
  <2> QED
    BY <2>2 DEF Pending
<1>5. ASSUME ~ May(q) PROVE Pending' = Pending \ {r}
  <2>1. \A p \in Handlers : p \in Pending' <=> p \in Pending \ {r}
    BY <1>1, <1>5 DEF Pending, May
  <2> QED
    BY <2>1 DEF Pending
<1>6. Cardinality(Pending \ {r}) = IF r \in Pending THEN Cardinality(Pending) - 1
                                                   ELSE Cardinality(Pending)
  BY <1>2, FS_RemoveElement
<1>7. CASE nextTag' = nextTag
  BY <1>2, <1>3, <1>4, <1>5, <1>6, <1>7 DEF IdsInv
<1>8. CASE nextTag' = nextTag + 1
  <2>1. ~ May(q) /\ r \in Pending
    BY <1>3, <1>8 DEF Pending, May
  <2> QED
    BY <1>2, <1>3, <1>5, <1>6, <1>8, <2>1 DEF IdsInv
<1> QED
  BY <1>7, <1>8

\* There is an id for a handler that may insert.
LEMMA IdLeft ==
    ASSUME IdsInv, CatalogueTypeOK, NEW r \in Handlers, May(req[r])
    PROVE  nextTag \in TagIds /\ nextTag + 1 \in 1..(MaxTag + 1)
<1>1. IsFiniteSet(Pending) /\ Cardinality(Pending) \in Nat /\ r \in Pending
  BY FiniteAssumption, FS_Subset, FS_CardinalityType DEF Pending, May
<1>2. Cardinality(Pending) # 0
  BY <1>1, FS_EmptySet
<1> QED
  BY <1>1, <1>2, BoundAssumption DEF IdsInv, CatalogueTypeOK, TagIds

\* What tables may do to the handlers: names change and tags come back only as noted.
TablesMove ==
    /\ nextTag <= nextTag' /\ nextTag' \in Nat
    /\ renamed \subseteq renamed' /\ resaved \subseteq resaved'
    /\ \A h \in Holes : hole[h] # None => hole'[h] # None
    /\ \A t \in TagIds : t < nextTag /\ tag'[t] # None =>
          \/ t \in renamed'
          \/ tag[t] # None /\ tag'[t].name = tag[t].name
    /\ \A t \in removed' : \/ t \in removed
                           \/ \A p \in Handlers : req[p].step = "edit" /\ req[p].id = t
                                                    => t \in resaved'

LEMMA OthersKept ==
    ASSUME CatalogueIInv, TablesMove, NEW p \in Handlers
    PROVE  /\ HeldBy(req[p], tag', nextTag', hole', renamed')
           /\ ReadBy(req[p], nextTag', removed', resaved')
<1> DEFINE q == req[p]
<1>1. /\ CatalogueTypeOK /\ HeldBy(q, tag, nextTag, hole, renamed)
      /\ ReadBy(q, nextTag, removed, resaved)
  BY CatalogueParts DEF Kept
<1>2. q \in Request /\ nextTag \in Nat
  BY <1>1 DEF CatalogueTypeOK
<1>3. q.step = "edit" => q.id \in TagIds \cup {0}
  BY <1>2, RequestIs
<1>4. /\ q.step \in {"source", "merge"} => q.from \in TagIds
      /\ q.step = "merge" => q.to \in TagIds
  BY <1>2, RequestIs
<1>5. ReadBy(q, nextTag', removed', resaved')
  BY <1>1, <1>2, <1>3, <1>4, BoundAssumption DEF ReadBy, TablesMove, TagIds
<1>6. ASSUME q.step \in {"check", "store", "stuck"}
      PROVE  HeldBy(q, tag', nextTag', hole', renamed')
  <2> HIDE DEF q
  <2>1. q.hole \in Holes \cup {None} /\ q.ids \subseteq TagIds \cup {0}
    BY <1>2, <1>6, RequestIs
  <2>2. q.ids \subseteq 0..(nextTag - 1)
    BY <1>1, <1>6 DEF HeldBy
  <2>3. q.ids \subseteq 0..(nextTag' - 1)
    BY <1>2, <2>2 DEF TablesMove
  <2>4. q.hole # None => hole'[q.hole] # None
    BY <1>1, <1>6, <2>1 DEF HeldBy, TablesMove
  <2>5. \/ q.ids \cap renamed' # {}
        \/ ~ (q.ids \subseteq {t \in TagIds : tag'[t] # None})
        \/ {tag'[t].name : t \in q.ids} =
             IF q.step = "store" THEN q.names ELSE q.names \ q.new
    <3> SUFFICES ASSUME q.ids \cap renamed' = {}, \A t \in q.ids : t \in TagIds /\ tag'[t] # None
                 PROVE  {tag'[t].name : t \in q.ids} =
                          IF q.step = "store" THEN q.names ELSE q.names \ q.new
      OBVIOUS
    <3>1. \A t \in q.ids : tag[t] # None /\ tag'[t].name = tag[t].name
      BY <1>2, <2>2 DEF TablesMove
    <3>2. q.ids \cap renamed = {} /\ q.ids \subseteq {t \in TagIds : tag[t] # None}
      BY <3>1 DEF TablesMove
    <3>3. {tag[t].name : t \in q.ids} =
             IF q.step = "store" THEN q.names ELSE q.names \ q.new
      BY <1>1, <1>6, <3>2 DEF HeldBy
    <3>4. {tag'[t].name : t \in q.ids} = {tag[t].name : t \in q.ids}
      BY <3>1
    <3> QED
      BY <3>3, <3>4
  <2> QED
    BY <1>1, <1>6, <2>3, <2>4, <2>5 DEF HeldBy
<1>7. ASSUME q.step \notin {"check", "store", "stuck"}
      PROVE  HeldBy(q, tag', nextTag', hole', renamed')
  BY <1>7 DEF HeldBy
<1> QED
  BY <1>5, <1>6, <1>7

\* A step of one handler.
LEMMA HandlerStep ==
    ASSUME CatalogueIInv, TablesMove, NEW r \in Handlers, NEW q, To(r, q),
           HeldBy(q, tag', nextTag', hole', renamed'), ReadBy(q, nextTag', removed', resaved'),
           \/ nextTag' = nextTag /\ (May(q) => May(req[r]))
           \/ nextTag' = nextTag + 1 /\ May(req[r]) /\ ~ May(q),
           CatalogueTypeOK', ReferencesHold', HolesKeepTags', DeletedTagsGone',
           TemperatureExact', FreshInv'
    PROVE  CatalogueIInv'
<1>1. IdsInv /\ CatalogueTypeOK
  BY CatalogueParts
<1>2. IdsInv'
  BY <1>1, IdsKept
<1>3. req'[r] = q /\ \A p \in Handlers : p # r => req'[p] = req[p]
  BY <1>1 DEF To, CatalogueTypeOK
<1>4. \A p \in Handlers : /\ HeldBy(req'[p], tag', nextTag', hole', renamed')
                          /\ ReadBy(req'[p], nextTag', removed', resaved')
  BY <1>3, OthersKept
<1>5. (CatalogueIInv <=> /\ CatalogueTypeOK /\ ReferencesHold /\ HolesKeepTags
                      /\ DeletedTagsGone /\ TemperatureExact /\ IdsInv /\ FreshInv
                      /\ Kept)'
  BY CatalogueParts, PTL
<1>6. Kept'
  BY <1>4 DEF Kept
<1> QED
  BY <1>2, <1>5, <1>6

-----------------------------------------------------------------------------
(* The catalogue: steps that leave the tables *)

SameTables == UNCHANGED <<tag, nextTag, hole, holeTags, division, history>>

LEMMA SameInvariants ==
    ASSUME CatalogueIInv, SameTables
    PROVE  /\ TablesMove /\ ReferencesHold' /\ HolesKeepTags' /\ DeletedTagsGone'
           /\ TemperatureExact' /\ FreshInv'
<1>1. /\ CatalogueTypeOK /\ ReferencesHold /\ HolesKeepTags /\ DeletedTagsGone
      /\ TemperatureExact /\ FreshInv
  BY CatalogueParts
<1>2. /\ tag' = tag /\ nextTag' = nextTag /\ hole' = hole /\ holeTags' = holeTags
      /\ division' = division /\ drifted' = drifted /\ renamed' = renamed
      /\ stripped' = stripped /\ removed' = removed /\ resaved' = resaved
  BY DEF SameTables, history
<1>3. TablesMove
  BY <1>1, <1>2 DEF TablesMove, CatalogueTypeOK
<1>4. ReferencesHold' /\ HolesKeepTags' /\ DeletedTagsGone' /\ FreshInv'
  BY <1>1, <1>2 DEF ReferencesHold, HolesKeepTags, DeletedTagsGone, FreshInv, Live, LiveDivision
<1>5. TemperatureExact'
  BY <1>1, <1>2 DEF TemperatureExact, Live, HolesOf
<1> QED
  BY <1>3, <1>4, <1>5

LEMMA OnlyHandler ==
    ASSUME CatalogueIInv, SameTables, NEW r \in Handlers, NEW q \in Request, To(r, q),
           HeldBy(q, tag, nextTag, hole, renamed), ReadBy(q, nextTag, removed, resaved),
           May(q) => May(req[r])
    PROVE  CatalogueIInv'
<1>1. /\ tag' = tag /\ nextTag' = nextTag /\ hole' = hole /\ holeTags' = holeTags
      /\ division' = division /\ drifted' = drifted /\ renamed' = renamed
      /\ stripped' = stripped /\ removed' = removed /\ resaved' = resaved
  BY DEF SameTables, history
<1>2. CatalogueTypeOK
  BY CatalogueParts
<1>3. CatalogueTypeOK'
  BY <1>1, <1>2 DEF CatalogueTypeOK, To, Live
<1>4. /\ HeldBy(q, tag', nextTag', hole', renamed')
      /\ ReadBy(q, nextTag', removed', resaved')
  BY <1>1
<1>5. nextTag' = nextTag
  BY <1>1
<1> QED
  BY <1>3, <1>4, <1>5, SameInvariants, HandlerStep

LEMMA DoneIs == Done \in Request /\ ~ May(Done)
                  /\ (\A table, next, holes, changed : HeldBy(Done, table, next, holes, changed))
                  /\ \A next, gone, kept : ReadBy(Done, next, gone, kept)
BY DEF Done, Request, May, HeldBy, ReadBy

\* A handler gives up.
LEMMA FailStep ==
    ASSUME CatalogueIInv, NEW r \in Handlers,
           FailFiling(r) \/ FailEdit(r) \/ FailMerge(r) \/ FailDrop(r)
    PROVE  CatalogueIInv'
<1>1. To(r, Done) /\ SameTables
  BY DEF FailFiling, FailEdit, FailMerge, FailDrop, SameTables
<1>2. /\ Done \in Request /\ ~ May(Done) /\ HeldBy(Done, tag, nextTag, hole, renamed)
      /\ ReadBy(Done, nextTag, removed, resaved)
  BY DoneIs
<1> QED
  BY <1>1, <1>2, OnlyHandler

LEMMA CheckFailsStep ==
    ASSUME CatalogueIInv, NEW r \in Handlers, CheckFails(r)
    PROVE  CatalogueIInv'
<1> DEFINE q == [req[r] EXCEPT !.step = "stuck"]
<1>1. To(r, q) /\ SameTables /\ req[r].step = "check"
  BY DEF CheckFails, SameTables
<1>2. /\ CatalogueTypeOK /\ HeldBy(req[r], tag, nextTag, hole, renamed)
  BY CatalogueParts DEF Kept
<1>3. req[r] \in [step : {"check", "store", "stuck"}, hole : Holes \cup {None},
                  division : Divisions \cup {None}, names : SUBSET Names,
                  ids : SUBSET (TagIds \cup {0}), new : SUBSET Names]
  BY <1>1, <1>2, RequestIs DEF CatalogueTypeOK
<1>4. /\ q \in Request /\ q.step = "stuck" /\ q.ids = req[r].ids /\ q.new = req[r].new
      /\ q.names = req[r].names /\ q.hole = req[r].hole /\ q.division = req[r].division
  BY <1>3 DEF Request
<1> HIDE DEF q
<1>5. HeldBy(q, tag, nextTag, hole, renamed)
  BY <1>1, <1>2, <1>4 DEF HeldBy, FoundOne
<1>6. ReadBy(q, nextTag, removed, resaved) /\ ~ May(q)
  BY <1>4 DEF ReadBy, May
<1> QED
  BY <1>1, <1>4, <1>5, <1>6, OnlyHandler

\* What FindOrCreateTags has found.
LEMMA FindIs ==
    ASSUME CatalogueIInv, NEW h \in Holes \cup {None}, NEW d \in Divisions \cup {None},
           NEW S \in SUBSET Names, S # {}, FoundOne(Find(h, d, S)),
           h = None => d # None, h # None => hole[h] # None
    PROVE  /\ Find(h, d, S) \in Request
           /\ HeldBy(Find(h, d, S), tag, nextTag, hole, renamed)
           /\ ReadBy(Find(h, d, S), nextTag, removed, resaved)
<1> DEFINE found == {t \in Live : tag[t].name \in S}
           new == S \ {tag[t].name : t \in found}
           q == Find(h, d, S)
<1>1. CatalogueTypeOK
  BY CatalogueParts
<1>2. q = [step |-> IF new = {} THEN "store" ELSE "check", hole |-> h, division |-> d,
           names |-> S, ids |-> found, new |-> new]
  BY DEF Find
<1>3. found \subseteq Live /\ \A t \in found : t \in TagIds /\ t < nextTag /\ tag[t].name \in S
  BY <1>1 DEF CatalogueTypeOK, Live
<1>4. {tag[t].name : t \in found} = S \ new /\ new \subseteq S
  BY <1>3
<1>5. found \subseteq 0..(nextTag - 1)
  BY <1>1, <1>3, BoundAssumption DEF TagIds, CatalogueTypeOK
<1>6. found = {} => new # {}
  OBVIOUS
<1> HIDE DEF found, new
<1>7. /\ q \in Request /\ q.ids = found /\ q.new = new /\ q.names = S /\ q.hole = h
      /\ q.division = d /\ q.step = IF new = {} THEN "store" ELSE "check"
  BY <1>2, <1>3, <1>4 DEF Request
<1> HIDE DEF q
<1>8. q.step = "store" => S \ new = S
  BY <1>7
<1>9. HeldBy(q, tag, nextTag, hole, renamed)
  BY <1>3, <1>4, <1>5, <1>6, <1>7, <1>8 DEF HeldBy, q
<1>10. ReadBy(q, nextTag, removed, resaved)
  BY <1>7 DEF ReadBy
<1> QED
  BY <1>7, <1>9, <1>10 DEF q

LEMMA FilingBegins ==
    ASSUME CatalogueIInv, NEW r \in Handlers, NEW S \in SUBSET Names,
           \/ \E d \in Divisions : CreateHole(r, d, S)
           \/ \E h \in Holes : ModifyHole(r, h, S)
    PROVE  CatalogueIInv'
<1>1. ASSUME NEW h \in Holes \cup {None}, NEW d \in Divisions \cup {None},
             h = None => d # None, h # None => hole[h] # None,
             S # {}, FoundOne(Find(h, d, S)), To(r, Find(h, d, S)), SameTables,
             req[r].step = "new"
      PROVE  CatalogueIInv'
  <2>1. /\ Find(h, d, S) \in Request
        /\ HeldBy(Find(h, d, S), tag, nextTag, hole, renamed)
        /\ ReadBy(Find(h, d, S), nextTag, removed, resaved)
    BY <1>1, FindIs
  <2>2. May(req[r])
    BY <1>1 DEF May
  <2> QED
    BY <1>1, <2>1, <2>2, OnlyHandler
<1>2. ASSUME NEW d \in Divisions, CreateHole(r, d, S) PROVE CatalogueIInv'
  BY <1>1, <1>2, NoneAssumption DEF CreateHole, SameTables
<1>3. ASSUME NEW h \in Holes, ModifyHole(r, h, S) PROVE CatalogueIInv'
  BY <1>1, <1>3, NoneAssumption DEF ModifyHole, SameTables
<1> QED
  BY <1>2, <1>3

LEMMA ReadStep ==
    ASSUME CatalogueIInv, NEW r \in Handlers,
           \/ \E t \in TagIds, n \in Names, temp \in Temps : ReadTag(r, t, n, temp)
           \/ \E t \in TagIds : ReadSource(r, t)
           \/ \E u \in TagIds : ReadTarget(r, u)
    PROVE  CatalogueIInv'
<1>1. CatalogueTypeOK /\ DeletedTagsGone
  BY CatalogueParts
<1>2. ASSUME NEW t \in TagIds, NEW n \in Names, NEW temp \in Temps, ReadTag(r, t, n, temp)
      PROVE  CatalogueIInv'
  <2> DEFINE q == [step |-> "edit", id |-> IF t \in Live THEN t ELSE 0,
                   row |-> [name |-> n, temperature |-> temp]]
  <2>1. To(r, q) /\ SameTables /\ req[r].step = "new"
    BY <1>2 DEF ReadTag, SameTables
  <2>2. /\ q \in Request /\ q.step = "edit" /\ q.id = IF t \in Live THEN t ELSE 0
    BY BoundAssumption DEF Request, TagRow
  <2> HIDE DEF q
  <2>3. nextTag \in Nat /\ nextTag > 0 /\ (t \in Live => t < nextTag)
    BY <1>1, BoundAssumption DEF CatalogueTypeOK
  <2>4. t \in Live /\ t \in removed => t \in resaved
    BY <1>1 DEF DeletedTagsGone
  <2>5. 0 \notin removed
    BY <1>1 DEF CatalogueTypeOK, TagIds
  <2>6. ReadBy(q, nextTag, removed, resaved) /\ HeldBy(q, tag, nextTag, hole, renamed)
    BY <2>2, <2>3, <2>4, <2>5 DEF ReadBy, HeldBy
  <2>7. May(req[r])
    BY <2>1 DEF May
  <2> QED
    BY <2>1, <2>2, <2>6, <2>7, OnlyHandler
<1>3. ASSUME NEW t \in TagIds, ReadSource(r, t)
      PROVE  CatalogueIInv'
  <2> DEFINE q == [step |-> "source", from |-> t, fromRow |-> tag[t]]
  <2>1. To(r, q) /\ SameTables /\ t \in Live
    BY <1>3 DEF ReadSource, SameTables
  <2>2. tag[t] \in TagRow /\ t < nextTag
    BY <1>1, <2>1 DEF CatalogueTypeOK, Live
  <2>3. q \in Request /\ q.step = "source" /\ q.from = t
    BY <2>2 DEF Request
  <2> HIDE DEF q
  <2>4. /\ ReadBy(q, nextTag, removed, resaved) /\ HeldBy(q, tag, nextTag, hole, renamed)
        /\ ~ May(q)
    BY <2>2, <2>3 DEF ReadBy, HeldBy, May
  <2> QED
    BY <2>1, <2>3, <2>4, OnlyHandler
<1>4. ASSUME NEW u \in TagIds, ReadTarget(r, u)
      PROVE  CatalogueIInv'
  <2> DEFINE q == [step |-> "merge", from |-> req[r].from, fromRow |-> req[r].fromRow,
                   to |-> u, toRow |-> tag[u]]
  <2>1. To(r, q) /\ SameTables /\ u \in Live /\ req[r].step = "source"
    BY <1>4 DEF ReadTarget, SameTables
  <2>2. tag[u] \in TagRow /\ u < nextTag
    BY <1>1, <2>1 DEF CatalogueTypeOK, Live
  <2>3. req[r].from \in TagIds /\ req[r].fromRow \in TagRow /\ req[r].from < nextTag
    BY <1>1, <2>1, RequestIs, CatalogueParts DEF CatalogueTypeOK, Kept, ReadBy
  <2>4. q \in Request /\ q.step = "merge" /\ q.from = req[r].from /\ q.to = u
    BY <2>2, <2>3 DEF Request
  <2> HIDE DEF q
  <2>5. /\ ReadBy(q, nextTag, removed, resaved) /\ HeldBy(q, tag, nextTag, hole, renamed)
        /\ ~ May(q)
    BY <2>2, <2>3, <2>4 DEF ReadBy, HeldBy, May
  <2> QED
    BY <2>1, <2>4, <2>5, OnlyHandler
<1> QED
  BY <1>2, <1>3, <1>4

-----------------------------------------------------------------------------
(* The catalogue: new tags *)

\* The table with a new tag, or the table as it is.
Grown(table, n) ==
    /\ nextTag' = nextTag + 1 /\ nextTag \in TagIds
    /\ table = [tag EXCEPT ![nextTag] = [name |-> n, temperature |-> 0]]

LEMMA GrownIs ==
    ASSUME CatalogueIInv, NEW table, NEW n \in Names, Grown(table, n)
    PROVE  /\ table \in [TagIds -> TagRow \cup {None}]
           /\ table[nextTag] # None /\ table[nextTag].name = n /\ table[nextTag].temperature = 0
           /\ \A t \in TagIds : t # nextTag => table[t] = tag[t]
           /\ tag[nextTag] = None /\ nextTag \notin removed /\ HolesOf(nextTag) = {}
           /\ \A h \in Holes : nextTag \notin holeTags[h]
           /\ \A t \in Live \cup removed : t # nextTag
<1>1. CatalogueTypeOK /\ ReferencesHold
  BY CatalogueParts
<1>2. [name |-> n, temperature |-> 0] \in TagRow
  BY DEF TagRow
<1>3. nextTag \in TagIds /\ nextTag \in Nat
  BY BoundAssumption DEF Grown, TagIds
<1>4. \A t \in Live \cup removed : t # nextTag
  BY <1>1, <1>3 DEF CatalogueTypeOK
<1>5. \A h \in Holes : nextTag \notin holeTags[h]
  BY <1>1, <1>4 DEF ReferencesHold
<1>6. tag[nextTag] = None
  BY <1>3, <1>4 DEF Live
<1>7. /\ table \in [TagIds -> TagRow \cup {None}]
      /\ table[nextTag] = [name |-> n, temperature |-> 0]
      /\ \A t \in TagIds : t # nextTag => table[t] = tag[t]
  BY <1>1, <1>2, <1>3 DEF Grown, CatalogueTypeOK
<1>8. table[nextTag] # None
  BY <1>2, <1>7, NoneAssumption
<1>9. HolesOf(nextTag) = {}
  BY <1>5 DEF HolesOf
<1> QED
  BY <1>4, <1>5, <1>6, <1>7, <1>8, <1>9

SameHoles == UNCHANGED <<hole, holeTags, division, history>>

\* A tag that no hole has yet.
LEMMA InsertKeeps ==
    ASSUME CatalogueIInv, NEW n \in Names, Grown(tag', n), SameHoles
    PROVE  /\ TablesMove /\ ReferencesHold' /\ HolesKeepTags' /\ DeletedTagsGone'
           /\ TemperatureExact' /\ FreshInv'
           /\ tag' \in [TagIds -> TagRow \cup {None}]
           /\ Live' = Live \cup {nextTag}
<1>1. /\ CatalogueTypeOK /\ ReferencesHold /\ HolesKeepTags /\ DeletedTagsGone
      /\ TemperatureExact /\ FreshInv
  BY CatalogueParts
<1>2. /\ hole' = hole /\ holeTags' = holeTags
      /\ division' = division /\ drifted' = drifted /\ renamed' = renamed
      /\ stripped' = stripped /\ removed' = removed /\ resaved' = resaved
  BY DEF SameHoles, history
<1>3. /\ tag' \in [TagIds -> TagRow \cup {None}]
      /\ tag'[nextTag] # None /\ tag'[nextTag].name = n /\ tag'[nextTag].temperature = 0
      /\ \A t \in TagIds : t # nextTag => tag'[t] = tag[t]
      /\ nextTag \notin removed /\ HolesOf(nextTag) = {}
      /\ nextTag \in TagIds /\ nextTag' = nextTag + 1
  BY GrownIs DEF Grown
<1>4. Live' = Live \cup {nextTag}
  BY <1>3 DEF Live
<1>5. nextTag \in Nat
  BY <1>1, BoundAssumption DEF CatalogueTypeOK
<1>6. TablesMove
  BY <1>1, <1>2, <1>3, <1>5 DEF TablesMove
<1>7. ReferencesHold' /\ HolesKeepTags' /\ DeletedTagsGone' /\ FreshInv'
  <2>1. ReferencesHold'
    BY <1>1, <1>2, <1>4 DEF ReferencesHold, LiveDivision
  <2>2. HolesKeepTags' /\ FreshInv'
    BY <1>1, <1>2 DEF HolesKeepTags, FreshInv
  <2>3. DeletedTagsGone'
    BY <1>1, <1>2, <1>3, <1>4 DEF DeletedTagsGone
  <2> QED
    BY <2>1, <2>2, <2>3
<1>8. TemperatureExact'
  <2> SUFFICES ASSUME NEW t \in Live', t \notin drifted
               PROVE  tag'[t].temperature = Cardinality(HolesOf(t)')
    BY <1>2 DEF TemperatureExact
  <2>1. HolesOf(t)' = HolesOf(t)
    BY <1>2 DEF HolesOf
  <2>2. CASE t = nextTag
    BY <1>3, <2>1, <2>2, FS_EmptySet
  <2>3. CASE t # nextTag
    <3>1. t \in Live /\ tag'[t] = tag[t]
      BY <1>3, <1>4, <2>3 DEF Live
    <3> QED
      BY <1>1, <2>1, <3>1 DEF TemperatureExact
  <2> QED
    BY <2>2, <2>3
<1> QED
  BY <1>3, <1>4, <1>6, <1>7, <1>8

LEMMA InsertTypes ==
    ASSUME CatalogueIInv, NEW n \in Names, Grown(tag', n), SameHoles,
           NEW r \in Handlers, NEW q \in Request, To(r, q), nextTag + 1 \in 1..(MaxTag + 1)
    PROVE  CatalogueTypeOK'
<1>1. CatalogueTypeOK
  BY CatalogueParts
<1>2. /\ tag' \in [TagIds -> TagRow \cup {None}] /\ Live' = Live \cup {nextTag}
      /\ nextTag' = nextTag + 1
  BY InsertKeeps DEF Grown
<1>3. /\ hole' = hole /\ holeTags' = holeTags
      /\ division' = division /\ drifted' = drifted /\ renamed' = renamed
      /\ stripped' = stripped /\ removed' = removed /\ resaved' = resaved
  BY DEF SameHoles, history
<1>4. \A t \in Live' \cup removed' : t < nextTag'
  <2>1. \A t \in Live \cup removed : t < nextTag
    BY <1>1 DEF CatalogueTypeOK
  <2>2. Live \subseteq Int /\ removed \subseteq Int /\ nextTag \in Int
    BY <1>1, BoundAssumption DEF CatalogueTypeOK, TagIds, Live
  <2>3. \A t \in Live' \cup removed' : t \in Live \cup removed \/ t = nextTag
    BY <1>2, <1>3
  <2> QED
    BY <1>2, <2>1, <2>2, <2>3
<1> QED
  BY <1>1, <1>2, <1>3, <1>4 DEF CatalogueTypeOK, To

LEMMA CreateTagStep ==
    ASSUME CatalogueIInv, NEW r \in Handlers, NEW n \in Names, CreateTag(r, n)
    PROVE  CatalogueIInv'
<1>1. CatalogueTypeOK /\ IdsInv
  BY CatalogueParts
<1>2. /\ To(r, Done) /\ SameHoles /\ May(req[r])
      /\ Insert(n) \/ (tag' = tag /\ nextTag' = nextTag)
  BY DEF CreateTag, SameHoles, May
<1>3. CASE Insert(n)
  <2>1. nextTag \in TagIds /\ nextTag + 1 \in 1..(MaxTag + 1)
    BY <1>1, <1>2, IdLeft
  <2>2. Grown(tag', n) /\ nextTag' = nextTag + 1
    BY <1>3, <2>1 DEF Insert, Grown
  <2>3. /\ Done \in Request /\ ~ May(Done) /\ HeldBy(Done, tag', nextTag', hole', renamed')
        /\ ReadBy(Done, nextTag', removed', resaved')
    BY DoneIs
  <2>4. CatalogueTypeOK'
    BY <1>2, <2>1, <2>2, <2>3, InsertTypes
  <2> QED
    BY <1>2, <2>2, <2>3, <2>4, InsertKeeps, HandlerStep
<1>4. CASE tag' = tag /\ nextTag' = nextTag
  <2>1. SameTables
    BY <1>2, <1>4 DEF SameHoles, SameTables
  <2>2. /\ Done \in Request /\ ~ May(Done) /\ HeldBy(Done, tag, nextTag, hole, renamed)
        /\ ReadBy(Done, nextTag, removed, resaved)
    BY DoneIs
  <2> QED
    BY <1>2, <2>1, <2>2, OnlyHandler
<1> QED
  BY <1>2, <1>3, <1>4

LEMMA CreateTagsStep ==
    ASSUME CatalogueIInv, NEW r \in Handlers, CreateTags(r)
    PROVE  CatalogueIInv'
<1>1. CatalogueTypeOK /\ IdsInv /\ HeldBy(req[r], tag, nextTag, hole, renamed)
  BY CatalogueParts DEF Kept
<1>2. req[r].step = "check" /\ req[r].hole = None /\ SameHoles
  BY DEF CreateTags, Creating, SameHoles
<1>3. req[r] \in [step : {"check", "store", "stuck"}, hole : Holes \cup {None},
                  division : Divisions \cup {None}, names : SUBSET Names,
                  ids : SUBSET (TagIds \cup {0}), new : SUBSET Names]
  BY <1>1, <1>2, RequestIs DEF CatalogueTypeOK
<1>4. /\ req[r].ids \subseteq 0..(nextTag - 1) /\ req[r].new \subseteq req[r].names
      /\ FoundOne(req[r]) /\ req[r].division # None
      /\ req[r].new \subseteq Names
  BY <1>1, <1>2, <1>3 DEF HeldBy
<1>5. /\ nextTag \in TagIds /\ nextTag \in Nat /\ nextTag > 0
      /\ nextTag + 1 \in 1..(MaxTag + 1) /\ May(req[r])
  <2>1. May(req[r])
    BY <1>2 DEF May
  <2> QED
    BY <1>1, <2>1, IdLeft, BoundAssumption DEF TagIds
<1>6. ASSUME NEW id \in {0, nextTag}
      PROVE  LET q == [req[r] EXCEPT !.step = "store", !.ids = @ \cup {id}]
             IN  /\ q \in Request /\ q.step = "store" /\ q.ids = req[r].ids \cup {id}
                 /\ q.new = req[r].new /\ q.names = req[r].names
                 /\ q.hole = None /\ q.division = req[r].division
  BY <1>2, <1>3, <1>5 DEF Request
<1>7. ASSUME NEW n \in req[r].new, Insert(n),
             To(r, [req[r] EXCEPT !.step = "store", !.ids = @ \cup {nextTag}])
      PROVE  CatalogueIInv'
  <2> DEFINE q == [req[r] EXCEPT !.step = "store", !.ids = @ \cup {nextTag}]
  <2>1. /\ q \in Request /\ q.step = "store" /\ q.ids = req[r].ids \cup {nextTag}
        /\ q.new = req[r].new /\ q.names = req[r].names
        /\ q.hole = None /\ q.division = req[r].division /\ To(r, q)
    BY <1>6, <1>7
  <2> HIDE DEF q
  <2>2. Grown(tag', n) /\ nextTag' = nextTag + 1 /\ n \in Names
    BY <1>4, <1>5, <1>7 DEF Insert, Grown
  <2>3. CatalogueTypeOK'
    BY <1>2, <1>5, <2>1, <2>2, InsertTypes
  <2>4. HeldBy(req[r], tag', nextTag', hole', renamed')
    BY <1>2, <2>2, InsertKeeps, OthersKept
  <2>5. HeldBy(q, tag', nextTag', hole', renamed')
    <3>1. q.ids \subseteq 0..(nextTag' - 1) /\ q.ids # {}
      BY <1>4, <1>5, <2>1, <2>2
    <3>2. req[r].new = {n} /\ n \in req[r].names
      BY <1>4 DEF FoundOne
    <3>3. tag'[nextTag].name = n
      BY <2>2, GrownIs
    <3>4. ASSUME q.ids \cap renamed' = {},
                 q.ids \subseteq {t \in TagIds : tag'[t] # None}
          PROVE  {tag'[t].name : t \in q.ids} = q.names
      <4>1. {tag'[t].name : t \in req[r].ids} = req[r].names \ req[r].new
        BY <1>2, <2>1, <2>4, <3>4 DEF HeldBy
      <4>2. {tag'[t].name : t \in q.ids} = {tag'[t].name : t \in req[r].ids} \cup {n}
        BY <2>1, <3>3
      <4> QED
        BY <2>1, <3>2, <4>1, <4>2
    <3>5. q.new \subseteq q.names /\ FoundOne(q) /\ q.division # None
      BY <1>4, <2>1 DEF FoundOne
    <3> QED
      BY <2>1, <3>1, <3>4, <3>5 DEF HeldBy
  <2>6. ReadBy(q, nextTag', removed', resaved') /\ ~ May(q) /\ May(req[r])
    BY <1>5, <2>1 DEF ReadBy, May
  <2> QED
    BY <1>2, <2>1, <2>2, <2>3, <2>5, <2>6, InsertKeeps, HandlerStep
<1>8. ASSUME tag' = tag, nextTag' = nextTag,
             To(r, [req[r] EXCEPT !.step = "store", !.ids = @ \cup {0}])
      PROVE  CatalogueIInv'
  <2> DEFINE q == [req[r] EXCEPT !.step = "store", !.ids = @ \cup {0}]
  <2>1. /\ q \in Request /\ q.step = "store" /\ q.ids = req[r].ids \cup {0}
        /\ q.new = req[r].new /\ q.names = req[r].names
        /\ q.hole = None /\ q.division = req[r].division /\ To(r, q)
    BY <1>6, <1>8
  <2> HIDE DEF q
  <2>2. SameTables
    BY <1>2, <1>8 DEF SameHoles, SameTables
  <2>3. HeldBy(q, tag, nextTag, hole, renamed)
    <3>1. 0 \in q.ids /\ 0 \notin TagIds /\ q.ids \subseteq 0..(nextTag - 1)
      BY <1>4, <1>5, <2>1 DEF TagIds
    <3>2. q.new \subseteq q.names /\ FoundOne(q) /\ q.division # None
      BY <1>4, <2>1 DEF FoundOne
    <3> QED
      BY <2>1, <3>1, <3>2 DEF HeldBy
  <2>4. ReadBy(q, nextTag, removed, resaved) /\ ~ May(q)
    BY <2>1 DEF ReadBy, May
  <2> QED
    BY <2>1, <2>2, <2>3, <2>4, OnlyHandler
<1> QED
  BY <1>7, <1>8 DEF CreateTags

-----------------------------------------------------------------------------
(* The catalogue: filing holes *)

LEMMA RetaggedIs ==
    ASSUME NEW table \in [TagIds -> TagRow \cup {None}], NEW old, NEW ids
    PROVE  /\ Retagged(table, old, ids) \in [TagIds -> TagRow \cup {None}]
           /\ \A t \in TagIds :
                IF table[t] = None THEN Retagged(table, old, ids)[t] = None
                ELSE /\ Retagged(table, old, ids)[t] # None
                     /\ Retagged(table, old, ids)[t].name = table[t].name
                     /\ table[t].temperature \in Int
                     /\ Retagged(table, old, ids)[t].temperature =
                          table[t].temperature - (IF t \in old THEN 1 ELSE 0)
                                               + (IF t \in ids THEN 1 ELSE 0)
<1> DEFINE new == Retagged(table, old, ids)
<1>1. ASSUME NEW t \in TagIds, table[t] # None
      PROVE  /\ new[t] \in TagRow /\ new[t].name = table[t].name /\ new[t] # None
             /\ table[t].temperature \in Int
             /\ new[t].temperature = table[t].temperature - (IF t \in old THEN 1 ELSE 0)
                                                          + (IF t \in ids THEN 1 ELSE 0)
  <2>1. table[t] \in TagRow
    BY <1>1
  <2>2. new[t] = [table[t] EXCEPT !.temperature =
                    @ - (IF t \in old THEN 1 ELSE 0) + (IF t \in ids THEN 1 ELSE 0)]
    BY <1>1 DEF Retagged
  <2>3. /\ new[t] \in TagRow /\ new[t].name = table[t].name
        /\ table[t].temperature \in Int
        /\ new[t].temperature = table[t].temperature - (IF t \in old THEN 1 ELSE 0)
                                                     + (IF t \in ids THEN 1 ELSE 0)
    BY <2>1, <2>2 DEF TagRow
  <2> QED
    BY <2>3, NoneAssumption
<1>2. \A t \in TagIds : table[t] = None => new[t] = None
  BY DEF Retagged
<1>3. new \in [TagIds -> TagRow \cup {None}]
  <2>1. \A t \in TagIds : new[t] \in TagRow \cup {None}
    BY <1>1, <1>2
  <2>2. new = [t \in TagIds |-> new[t]]
    BY DEF Retagged
  <2> HIDE DEF new
  <2> QED
    BY <2>1, <2>2
<1> HIDE DEF new
<1>4. \A t \in TagIds :
        IF table[t] = None THEN new[t] = None
        ELSE /\ new[t] # None /\ new[t].name = table[t].name
             /\ table[t].temperature \in Int
             /\ new[t].temperature = table[t].temperature - (IF t \in old THEN 1 ELSE 0)
                                                          + (IF t \in ids THEN 1 ELSE 0)
  BY <1>1, <1>2
<1> QED
  BY <1>3, <1>4 DEF new

\* The holes of a tag when one hole changes its tags.
Counted(t, h, ids) ==
    /\ Cardinality(HolesOf(t)) \in Nat
    /\ Cardinality(HolesOf(t)') = Cardinality(HolesOf(t))
         - (IF t \in holeTags[h] THEN 1 ELSE 0) + (IF t \in ids THEN 1 ELSE 0)

LEMMA HolesCounted ==
    ASSUME CatalogueTypeOK, NEW h \in Holes, NEW ids, NEW t,
           holeTags' = [holeTags EXCEPT ![h] = ids]
    PROVE  Counted(t, h, ids)
<1> USE DEF Counted
<1>1. IsFiniteSet(HolesOf(t)) /\ Cardinality(HolesOf(t)) \in Nat
  BY FiniteAssumption, FS_Subset, FS_CardinalityType DEF HolesOf
<1>2. \A g \in Holes : holeTags'[g] = IF g = h THEN ids ELSE holeTags[g]
  BY DEF CatalogueTypeOK
<1>3. CASE t \in ids
  <2>1. HolesOf(t)' = HolesOf(t) \cup {h}
    BY <1>2, <1>3 DEF HolesOf
  <2>2. h \in HolesOf(t) <=> t \in holeTags[h]
    BY DEF HolesOf
  <2>3. Cardinality(HolesOf(t) \cup {h}) = IF h \in HolesOf(t) THEN Cardinality(HolesOf(t))
                                            ELSE Cardinality(HolesOf(t)) + 1
    BY <1>1, FS_AddElement
  <2> QED
    BY <1>1, <1>3, <2>1, <2>2, <2>3
<1>4. CASE t \notin ids
  <2>1. HolesOf(t)' = HolesOf(t) \ {h}
    BY <1>2, <1>4 DEF HolesOf
  <2>2. h \in HolesOf(t) <=> t \in holeTags[h]
    BY DEF HolesOf
  <2>3. Cardinality(HolesOf(t) \ {h}) = IF h \in HolesOf(t) THEN Cardinality(HolesOf(t)) - 1
                                         ELSE Cardinality(HolesOf(t))
    BY <1>1, FS_RemoveElement
  <2> QED
    BY <1>1, <1>4, <2>1, <2>2, <2>3
<1> QED
  BY <1>3, <1>4

\* The hole h gets the tags ids; one of them may be new.
LEMMA FiledStep ==
    ASSUME CatalogueIInv, NEW r \in Handlers, To(r, Done), NEW h \in Holes,
           NEW table, NEW ids, ids # {}, ids \subseteq {t \in TagIds : table[t] # None},
           \/ table = tag /\ nextTag' = nextTag
           \/ May(req[r]) /\ \E n \in Names : Grown(table, n),
           tag' = Retagged(table, holeTags[h], ids),
           holeTags' = [holeTags EXCEPT ![h] = ids],
           UNCHANGED <<division, history>>,
           hole' \in [Holes -> Divisions \cup {None}],
           hole'[h] # None, \A g \in Holes : g # h => hole'[g] = hole[g],
           \A g \in Holes : hole'[g] # None => LiveDivision(hole'[g])
    PROVE  CatalogueIInv'
<1>1. /\ CatalogueTypeOK /\ ReferencesHold /\ HolesKeepTags /\ DeletedTagsGone
      /\ TemperatureExact /\ FreshInv /\ IdsInv
  BY CatalogueParts
<1>2. /\ division' = division /\ drifted' = drifted /\ renamed' = renamed
      /\ stripped' = stripped /\ removed' = removed /\ resaved' = resaved
  BY DEF history
<1>3. /\ table \in [TagIds -> TagRow \cup {None}]
      /\ nextTag \in Nat /\ nextTag' \in 1..(MaxTag + 1) /\ nextTag <= nextTag'
      /\ \A t \in TagIds : \/ table[t] = tag[t]
                           \/ /\ t = nextTag /\ nextTag < nextTag' /\ tag[t] = None
                              /\ table[t].temperature = 0 /\ HolesOf(t) = {} /\ t \notin removed
      /\ nextTag' = nextTag \/ (May(req[r]) /\ nextTag' = nextTag + 1)
  <2>1. nextTag \in Nat
    BY <1>1, BoundAssumption DEF CatalogueTypeOK
  <2>2. CASE table = tag /\ nextTag' = nextTag
    BY <1>1, <2>1, <2>2 DEF CatalogueTypeOK
  <2>3. ASSUME NEW n \in Names, Grown(table, n), May(req[r])
        PROVE  /\ table \in [TagIds -> TagRow \cup {None}]
               /\ nextTag' \in 1..(MaxTag + 1) /\ nextTag' = nextTag + 1
               /\ \A t \in TagIds : \/ table[t] = tag[t]
                                    \/ /\ t = nextTag /\ tag[t] = None
                                       /\ table[t].temperature = 0
                                       /\ HolesOf(t) = {} /\ t \notin removed
    <3>1. /\ table \in [TagIds -> TagRow \cup {None}]
          /\ table[nextTag].temperature = 0
          /\ \A t \in TagIds : t # nextTag => table[t] = tag[t]
          /\ tag[nextTag] = None /\ nextTag \notin removed /\ HolesOf(nextTag) = {}
      BY <2>3, GrownIs
    <3>2. nextTag' = nextTag + 1
      BY <2>3 DEF Grown
    <3>3. nextTag + 1 \in 1..(MaxTag + 1)
      BY <1>1, <2>3, IdLeft
    <3> QED
      BY <3>1, <3>2, <3>3
  <2> QED
    BY <2>1, <2>2, <2>3
<1>4. /\ tag' \in [TagIds -> TagRow \cup {None}]
      /\ \A t \in TagIds :
                IF table[t] = None THEN tag'[t] = None
                ELSE /\ tag'[t] # None
                     /\ tag'[t].name = table[t].name
                     /\ table[t].temperature \in Int
                     /\ tag'[t].temperature =
                          table[t].temperature - (IF t \in holeTags[h] THEN 1 ELSE 0)
                                               + (IF t \in ids THEN 1 ELSE 0)
  BY <1>3, RetaggedIs
<1>5. \A g \in Holes : holeTags'[g] = IF g = h THEN ids ELSE holeTags[g]
  BY <1>1 DEF CatalogueTypeOK
<1>6. ids \subseteq Live' /\ Live \subseteq Live'
      /\ \A t \in Live' : t \in Live \/ (t = nextTag /\ nextTag < nextTag' /\ t \notin removed)
  <2>1. \A t \in TagIds : tag'[t] # None <=> table[t] # None
    BY <1>4
  <2> QED
    BY <1>3, <2>1 DEF Live
<1>7. CatalogueTypeOK'
  <2>1. \A t \in Live' \cup removed' : t < nextTag'
    <3>1. \A t \in Live \cup removed : t < nextTag
      BY <1>1 DEF CatalogueTypeOK
    <3>2. Live \subseteq Int /\ removed \subseteq Int /\ nextTag' \in Int
      BY <1>1, <1>3, BoundAssumption DEF CatalogueTypeOK, TagIds, Live
    <3>3. \A t \in Live' \cup removed' :
            t \in Live \cup removed \/ (t = nextTag /\ nextTag < nextTag')
      BY <1>2, <1>6
    <3>4. nextTag \in Int /\ nextTag <= nextTag'
      BY <1>3
    <3> SUFFICES ASSUME NEW t \in Live' \cup removed' PROVE t < nextTag'
      OBVIOUS
    <3>5. ASSUME t \in Live \cup removed PROVE t \in Int /\ t < nextTag
      BY <3>1, <3>2, <3>5
    <3>6. (t \in Int /\ t < nextTag) \/ (t = nextTag /\ nextTag < nextTag')
      BY <3>3, <3>5
    <3> QED
      BY <3>2, <3>4, <3>6
  <2>2. holeTags' \in [Holes -> SUBSET TagIds]
    BY <1>1 DEF CatalogueTypeOK
  <2>3. req' \in [Handlers -> Request]
    BY <1>1, DoneIs DEF CatalogueTypeOK, To
  <2> QED
    BY <1>1, <1>2, <1>3, <1>4, <2>1, <2>2, <2>3 DEF CatalogueTypeOK
<1>8. TablesMove
  <2>1. \A g \in Holes : hole[g] # None => hole'[g] # None
    OBVIOUS
  <2>2. \A t \in TagIds : t < nextTag /\ tag'[t] # None =>
          tag[t] # None /\ tag'[t].name = tag[t].name
    BY <1>3, <1>4
  <2> QED
    BY <1>2, <1>3, <2>1, <2>2, BoundAssumption DEF TablesMove
<1>9. ReferencesHold'
  BY <1>1, <1>2, <1>5, <1>6 DEF ReferencesHold, LiveDivision
<1>10. HolesKeepTags' /\ FreshInv'
  BY <1>1, <1>2, <1>5 DEF HolesKeepTags, FreshInv
<1>11. DeletedTagsGone'
  BY <1>1, <1>2, <1>6 DEF DeletedTagsGone
<1>12. TemperatureExact'
  <2> SUFFICES ASSUME NEW t \in Live', t \notin drifted
               PROVE  tag'[t].temperature = Cardinality(HolesOf(t)')
    BY <1>2 DEF TemperatureExact
  <2>1. Counted(t, h, ids)
    BY <1>1, HolesCounted
  <2>2. t \in TagIds /\ table[t] # None
    BY <1>4 DEF Live
  <2>3. table[t].temperature = Cardinality(HolesOf(t))
    <3>1. CASE table[t] = tag[t]
      BY <1>1, <2>2, <3>1 DEF TemperatureExact, Live
    <3>2. CASE table[t].temperature = 0 /\ HolesOf(t) = {}
      BY <3>2, FS_EmptySet
    <3> QED
      BY <1>3, <2>2, <3>1, <3>2
  <2> QED
    BY <1>4, <2>1, <2>2, <2>3 DEF Counted
<1>13. /\ ~ May(Done) /\ HeldBy(Done, tag', nextTag', hole', renamed')
       /\ ReadBy(Done, nextTag', removed', resaved')
  BY DoneIs
<1>14. \/ nextTag' = nextTag /\ (May(Done) => May(req[r]))
       \/ nextTag' = nextTag + 1 /\ May(req[r]) /\ ~ May(Done)
  BY <1>3, <1>13
<1> QED
  BY <1>7, <1>8, <1>9, <1>10, <1>11, <1>12, <1>13, <1>14, HandlerStep

LEMMA StoreHoleStep ==
    ASSUME CatalogueIInv, NEW r \in Handlers, StoreHole(r)
    PROVE  CatalogueIInv'
<1> DEFINE q == req[r]
<1>1. /\ CatalogueTypeOK /\ ReferencesHold /\ FreshInv
      /\ HeldBy(q, tag, nextTag, hole, renamed)
  BY CatalogueParts DEF Kept
<1>2. PICK h \in Holes :
        /\ hole[h] = None /\ hole' = [hole EXCEPT ![h] = q.division]
        /\ holeTags' = [holeTags EXCEPT ![h] = q.ids]
  BY DEF StoreHole
<1>3. /\ q.step = "store" /\ q.hole = None /\ q.ids \subseteq {t \in TagIds : tag[t] # None}
      /\ LiveDivision(q.division) /\ tag' = Retagged(tag, {}, q.ids) /\ To(r, Done)
      /\ nextTag' = nextTag /\ UNCHANGED <<division, history>>
  BY DEF StoreHole, Creating, TagsExist, Live
<1>4. q.ids # {} /\ q.division # None /\ q.division \in Divisions
  BY <1>1, <1>3, RequestIs DEF HeldBy, CatalogueTypeOK
<1>5. holeTags[h] = {}
  BY <1>1, <1>2 DEF FreshInv
<1>6. /\ hole' \in [Holes -> Divisions \cup {None}]
      /\ hole'[h] = q.division /\ \A g \in Holes : g # h => hole'[g] = hole[g]
  BY <1>1, <1>2, <1>4 DEF CatalogueTypeOK
<1>7. \A g \in Holes : hole'[g] # None => LiveDivision(hole'[g])
  BY <1>1, <1>3, <1>6 DEF ReferencesHold
<1>8. hole'[h] # None /\ tag' = Retagged(tag, holeTags[h], q.ids)
  BY <1>3, <1>4, <1>5, <1>6
<1> HIDE DEF q
<1> QED
  BY <1>2, <1>3, <1>4, <1>6, <1>7, <1>8, FiledStep

LEMMA ModifyTagsStep ==
    ASSUME CatalogueIInv, NEW r \in Handlers, ModifyTags(r)
    PROVE  CatalogueIInv'
<1> DEFINE q == req[r]
           h == q.hole
<1>1. /\ CatalogueTypeOK /\ ReferencesHold /\ IdsInv
      /\ HeldBy(q, tag, nextTag, hole, renamed)
  BY CatalogueParts DEF Kept
<1>2. /\ q.step \in {"check", "store"} /\ h # None
      /\ q.ids \subseteq {t \in TagIds : tag[t] # None} /\ To(r, Done)
      /\ hole' = hole /\ UNCHANGED <<division, history>>
  BY DEF ModifyTags, Creating, Filing, TagsExist, Live
<1>3. h \in Holes /\ q.new \subseteq Names
  BY <1>1, <1>2, RequestIs DEF CatalogueTypeOK
<1>4. hole[h] # None /\ (q.new = {} => q.ids # {}) /\ (q.new # {} => q.step = "check")
  BY <1>1, <1>2 DEF HeldBy
<1>5. /\ hole' \in [Holes -> Divisions \cup {None}] /\ hole'[h] # None
      /\ \A g \in Holes : g # h => hole'[g] = hole[g]
      /\ \A g \in Holes : hole'[g] # None => LiveDivision(hole'[g])
  BY <1>1, <1>2, <1>4 DEF CatalogueTypeOK, ReferencesHold
<1>6. CASE /\ q.new = {} /\ nextTag' = nextTag
           /\ tag' = Retagged(tag, holeTags[h], q.ids)
           /\ holeTags' = [holeTags EXCEPT ![h] = q.ids]
  <2> HIDE DEF h, q
  <2> QED
    BY <1>2, <1>3, <1>4, <1>5, <1>6, FiledStep
<1>7. ASSUME NEW n \in q.new, nextTag' = nextTag + 1,
             tag' = Retagged([tag EXCEPT ![nextTag] = [name |-> n, temperature |-> 0]],
                             holeTags[h], q.ids \cup {nextTag}),
             holeTags' = [holeTags EXCEPT ![h] = q.ids \cup {nextTag}]
      PROVE  CatalogueIInv'
  <2> DEFINE table == [tag EXCEPT ![nextTag] = [name |-> n, temperature |-> 0]]
             ids == q.ids \cup {nextTag}
  <2>1. May(req[r]) /\ n \in Names
    BY <1>3, <1>4 DEF May
  <2>2. nextTag \in TagIds
    BY <1>1, <2>1, IdLeft
  <2>3. Grown(table, n)
    BY <1>7, <2>2 DEF Grown
  <2>4. tag' = Retagged(table, holeTags[h], ids) /\ holeTags' = [holeTags EXCEPT ![h] = ids]
    BY <1>7
  <2> HIDE DEF table
  <2>5. /\ table[nextTag] # None
        /\ \A t \in TagIds : t # nextTag => table[t] = tag[t]
    BY <2>1, <2>3, GrownIs
  <2>6. ids \subseteq {t \in TagIds : table[t] # None} /\ ids # {}
    BY <1>2, <2>2, <2>5
  <2> HIDE DEF ids, h, q
  <2>7. May(req[r]) /\ \E m \in Names : Grown(table, m)
    BY <2>1, <2>3
  <2> QED
    BY <1>2, <1>3, <1>5, <2>4, <2>6, <2>7, FiledStep
<1> QED
  BY <1>6, <1>7 DEF ModifyTags

-----------------------------------------------------------------------------
(* The catalogue: editing and merging tags *)

LEMMA SaveTagStep ==
    ASSUME CatalogueIInv, NEW r \in Handlers, SaveTag(r)
    PROVE  CatalogueIInv'
<1> DEFINE q == req[r]
<1>1. /\ CatalogueTypeOK /\ ReferencesHold /\ HolesKeepTags /\ DeletedTagsGone
      /\ TemperatureExact /\ FreshInv /\ IdsInv /\ ReadBy(q, nextTag, removed, resaved)
  BY CatalogueParts DEF Kept
<1>2. /\ q.step = "edit" /\ To(r, Done) /\ hole' = hole /\ holeTags' = holeTags
      /\ division' = division /\ stripped' = stripped /\ removed' = removed
      /\ resaved' = resaved
  BY DEF SaveTag
<1>3. q.id \in TagIds \cup {0} /\ q.row \in TagRow /\ May(q) /\ q.row # None
  BY <1>1, <1>2, RequestIs, NoneAssumption DEF CatalogueTypeOK, May
<1>4. nextTag \in TagIds /\ nextTag \in Nat /\ nextTag + 1 \in 1..(MaxTag + 1)
  BY <1>1, <1>3, IdLeft, BoundAssumption DEF TagIds
<1>5. \E id \in TagIds :
        /\ tag' = [tag EXCEPT ![id] = q.row] /\ drifted' = drifted \cup {id}
        /\ \/ /\ nextTag' = nextTag
              /\ \/ renamed' = renamed \cup {id}
                 \/ renamed' = renamed /\ tag[id] # None /\ tag[id].name = q.row.name
              /\ id < nextTag /\ (id \in removed => id \in resaved)
           \/ /\ nextTag' = nextTag + 1 /\ renamed' = renamed
              /\ id = nextTag /\ id \notin removed
  <2>1. nextTag \notin removed
    BY <1>1, <1>4 DEF CatalogueTypeOK
  <2>2. CASE q.id # 0 /\ Namesakes(q) = {}
    <3>1. /\ tag' = [tag EXCEPT ![q.id] = q.row] /\ drifted' = drifted \cup {q.id}
          /\ renamed' = renamed \cup {q.id} /\ nextTag' = nextTag
      BY <2>2 DEF SaveTag
    <3>2. q.id \in TagIds /\ q.id < nextTag /\ (q.id \in removed => q.id \in resaved)
      BY <1>1, <1>2, <1>3, <2>2 DEF ReadBy
    <3> QED
      BY <3>1, <3>2
  <2>3. CASE q.id # 0 /\ Namesakes(q) # {}
    <3>1. PICK u \in Namesakes(q) :
            /\ tag' = [tag EXCEPT ![u] = q.row] /\ drifted' = drifted \cup {u}
            /\ renamed' = renamed /\ nextTag' = nextTag
      BY <2>3 DEF SaveTag
    <3>2. u \in Live /\ tag[u].name = q.row.name
      BY DEF Namesakes
    <3>3. u \in TagIds /\ tag[u] # None /\ u < nextTag /\ (u \in removed => u \in resaved)
      BY <1>1, <3>2 DEF CatalogueTypeOK, Live, DeletedTagsGone
    <3> QED
      BY <3>1, <3>2, <3>3
  <2>4. CASE q.id = 0
    <3>1. /\ tag' = [tag EXCEPT ![nextTag] = q.row] /\ drifted' = drifted \cup {nextTag}
          /\ renamed' = renamed /\ nextTag' = nextTag + 1
      BY <2>4 DEF SaveTag
    <3> QED
      BY <1>4, <2>1, <3>1
  <2> QED
    BY <2>2, <2>3, <2>4
<1>6. PICK id \in TagIds :
        /\ tag' = [tag EXCEPT ![id] = q.row] /\ drifted' = drifted \cup {id}
        /\ \/ /\ nextTag' = nextTag
              /\ \/ renamed' = renamed \cup {id}
                 \/ renamed' = renamed /\ tag[id] # None /\ tag[id].name = q.row.name
              /\ id < nextTag /\ (id \in removed => id \in resaved)
           \/ /\ nextTag' = nextTag + 1 /\ renamed' = renamed
              /\ id = nextTag /\ id \notin removed
  BY <1>5
<1>7. /\ tag' \in [TagIds -> TagRow \cup {None}] /\ tag'[id] = q.row
      /\ \A t \in TagIds : t # id => tag'[t] = tag[t]
  BY <1>1, <1>3, <1>6 DEF CatalogueTypeOK
<1> HIDE DEF q
<1>8. Live' = Live \cup {id}
  BY <1>3, <1>7 DEF Live
<1>9. CatalogueTypeOK'
  <2>1. \A t \in Live' \cup removed' : t < nextTag'
    BY <1>1, <1>2, <1>4, <1>6, <1>8, BoundAssumption DEF CatalogueTypeOK, TagIds, Live
  <2>2. req' \in [Handlers -> Request]
    BY <1>1, <1>2, DoneIs DEF CatalogueTypeOK, To
  <2>3. nextTag' \in 1..(MaxTag + 1)
    BY <1>1, <1>4, <1>6 DEF CatalogueTypeOK
  <2> QED
    BY <1>1, <1>2, <1>6, <1>7, <2>1, <2>2, <2>3 DEF CatalogueTypeOK
<1>10. TablesMove
  <2>1. \A t \in TagIds : t < nextTag /\ tag'[t] # None =>
          \/ t \in renamed'
          \/ tag[t] # None /\ tag'[t].name = tag[t].name
    BY <1>4, <1>6, <1>7
  <2> QED
    BY <1>2, <1>4, <1>6, <2>1 DEF TablesMove
<1>11. ReferencesHold' /\ HolesKeepTags' /\ FreshInv'
  BY <1>1, <1>2, <1>8 DEF ReferencesHold, LiveDivision, HolesKeepTags, FreshInv
<1>12. DeletedTagsGone'
  BY <1>1, <1>2, <1>6, <1>8 DEF DeletedTagsGone
<1>13. TemperatureExact'
  <2> SUFFICES ASSUME NEW t \in Live', t \notin drifted'
               PROVE  tag'[t].temperature = Cardinality(HolesOf(t)')
    BY DEF TemperatureExact
  <2>1. t # id /\ t \in Live /\ t \notin drifted /\ tag'[t] = tag[t] /\ HolesOf(t)' = HolesOf(t)
    BY <1>2, <1>6, <1>7, <1>8 DEF HolesOf, Live
  <2> QED
    BY <1>1, <2>1 DEF TemperatureExact
<1>14. /\ ~ May(Done) /\ HeldBy(Done, tag', nextTag', hole', renamed')
       /\ ReadBy(Done, nextTag', removed', resaved')
  BY DoneIs
<1>15. \/ nextTag' = nextTag /\ (May(Done) => May(req[r]))
       \/ nextTag' = nextTag + 1 /\ May(req[r]) /\ ~ May(Done)
  BY <1>3, <1>6, <1>14 DEF q
<1> QED
  BY <1>2, <1>9, <1>10, <1>11, <1>12, <1>13, <1>14, <1>15, HandlerStep

\* The table and the tags of holes after a merge.
LEMMA MergedIs ==
    ASSUME CatalogueTypeOK, NEW t \in TagIds, NEW u \in TagIds,
           NEW a \in TagRow, NEW b \in TagRow, tag' = Merged(t, a, u, b)
    PROVE  /\ tag' \in [TagIds -> TagRow \cup {None}]
           /\ Live' = Live \ {t}
           /\ \A v \in TagIds \ {t, u} : tag'[v] = tag[v]
           /\ u \in Live' =>
                /\ tag'[u].name = b.name /\ tag[u].temperature \in Int
                /\ a.temperature \in Int /\ b.temperature \in Int
                /\ tag'[u].temperature = IF a.temperature + b.temperature = 0
                                         THEN tag[u].temperature
                                         ELSE a.temperature + b.temperature
<1> DEFINE sum == a.temperature + b.temperature
           new == [name |-> b.name,
                   temperature |-> IF sum = 0 THEN tag[u].temperature ELSE sum]
<1>1. sum \in Int /\ b.name \in Names /\ a.temperature \in Int /\ b.temperature \in Int
  BY DEF TagRow
<1>2. tag[u] # None => tag[u].temperature \in Int
  BY DEF CatalogueTypeOK, TagRow
<1>3. tag[u] # None => /\ new \in TagRow /\ new # None /\ new.name = b.name
                       /\ new.temperature = IF sum = 0 THEN tag[u].temperature ELSE sum
  <2> HIDE DEF sum
  <2>1. tag[u] # None => /\ new \in TagRow /\ new.name = b.name
                         /\ new.temperature = IF sum = 0 THEN tag[u].temperature ELSE sum
    BY <1>1, <1>2 DEF TagRow
  <2> QED
    BY <2>1, NoneAssumption
<1>4. tag' = [v \in TagIds |-> IF v = t \/ tag[v] = None THEN None
                               ELSE IF v = u THEN new ELSE tag[v]]
  BY DEF Merged, Sum
<1> HIDE DEF new, sum
<1>5. \A v \in TagIds : tag'[v] = IF v = t \/ tag[v] = None THEN None
                                 ELSE IF v = u THEN new ELSE tag[v]
  BY <1>4
<1>6. tag' \in [TagIds -> TagRow \cup {None}]
  BY <1>3, <1>4 DEF CatalogueTypeOK
<1>7. Live' = Live \ {t}
  BY <1>3, <1>5 DEF Live
<1>8. \A v \in TagIds \ {t, u} : tag'[v] = tag[v]
  BY <1>5
<1>9. ASSUME u \in Live'
      PROVE  /\ tag'[u].name = b.name /\ tag[u].temperature \in Int
             /\ tag'[u].temperature = IF sum = 0 THEN tag[u].temperature ELSE sum
  BY <1>2, <1>3, <1>5, <1>7, <1>9 DEF Live
<1> QED
  BY <1>1, <1>6, <1>7, <1>8, <1>9 DEF sum

LEMMA RelinkedIs ==
    ASSUME CatalogueTypeOK, NEW t \in TagIds, NEW u \in TagIds, holeTags' = Relinked(t, u)
    PROVE  /\ holeTags' \in [Holes -> SUBSET TagIds]
           /\ \A h \in Holes :
                /\ \A v \in TagIds \ {t, u} : v \in holeTags'[h] <=> v \in holeTags[h]
                /\ t \notin holeTags'[h]
                /\ t # u => (u \in holeTags'[h] <=> t \in holeTags[h] \/ u \in holeTags[h])
<1>1. \A h \in Holes :
        /\ holeTags[h] \subseteq TagIds
        /\ holeTags'[h] = IF t \notin holeTags[h] THEN holeTags[h]
                          ELSE IF u \in holeTags[h] THEN holeTags[h] \ {t}
                          ELSE (holeTags[h] \ {t}) \cup {u}
  BY DEF Relinked, CatalogueTypeOK
<1>2. holeTags' \in [Holes -> SUBSET TagIds]
  <2>1. \A h \in Holes : holeTags'[h] \subseteq TagIds
    BY <1>1
  <2>2. holeTags' = [h \in Holes |-> holeTags'[h]]
    BY DEF Relinked
  <2> QED
    BY <2>1, <2>2
<1>3. ASSUME NEW h \in Holes
      PROVE  /\ \A v \in TagIds \ {t, u} : v \in holeTags'[h] <=> v \in holeTags[h]
             /\ t \notin holeTags'[h]
             /\ t # u => (u \in holeTags'[h] <=> t \in holeTags[h] \/ u \in holeTags[h])
  BY <1>1
<1> QED
  BY <1>2, <1>3

LEMMA MergeTagsStep ==
    ASSUME CatalogueIInv, NEW r \in Handlers, MergeTags(r)
    PROVE  CatalogueIInv'
<1> DEFINE q == req[r]
           t == q.from
           u == q.to
           asRead == tag[t] = q.fromRow /\ tag[u] = q.toRow
<1>1. /\ CatalogueTypeOK /\ ReferencesHold /\ HolesKeepTags /\ DeletedTagsGone
      /\ TemperatureExact /\ FreshInv /\ ReadBy(q, nextTag, removed, resaved)
  BY CatalogueParts DEF Kept
<1>2. /\ q.step = "merge" /\ To(r, Done) /\ hole' = hole /\ nextTag' = nextTag
      /\ division' = division
      /\ HolesOf(t) \subseteq HolesOf(u) \/ u \in Live
      /\ holeTags' = Relinked(t, u) /\ tag' = Merged(t, q.fromRow, u, q.toRow)
      /\ drifted' = IF ~ asRead \/ t \in drifted \/ HolesOf(t) \cap HolesOf(u) # {}
                    THEN drifted \cup {u} ELSE drifted
      /\ renamed' = IF u \in Live /\ tag[u].name # q.toRow.name
                    THEN renamed \cup {u} ELSE renamed
      /\ stripped' = IF t = u THEN stripped \cup {h \in Holes : holeTags[h] = {t}}
                     ELSE stripped
      /\ removed' = removed \cup {t}
      /\ resaved' = resaved \cup
           {v \in {t} : \E p \in Handlers : req[p].step = "edit" /\ req[p].id = v}
  BY DEF MergeTags
<1>3. t \in TagIds /\ u \in TagIds /\ q.fromRow \in TagRow /\ q.toRow \in TagRow
  BY <1>1, <1>2, RequestIs DEF CatalogueTypeOK
<1>4. t < nextTag
  BY <1>1, <1>2 DEF ReadBy
<1> HIDE DEF q
<1>5. /\ tag' \in [TagIds -> TagRow \cup {None}]
      /\ Live' = Live \ {t}
      /\ \A v \in TagIds \ {t, u} : tag'[v] = tag[v]
      /\ u \in Live' =>
           /\ tag'[u].name = q.toRow.name /\ tag[u].temperature \in Int
           /\ q.fromRow.temperature \in Int /\ q.toRow.temperature \in Int
           /\ tag'[u].temperature = IF q.fromRow.temperature + q.toRow.temperature = 0
                                    THEN tag[u].temperature
                                    ELSE q.fromRow.temperature + q.toRow.temperature
  BY <1>1, <1>2, <1>3, MergedIs
<1>6. /\ holeTags' \in [Holes -> SUBSET TagIds]
      /\ \A h \in Holes :
           /\ \A v \in TagIds \ {t, u} : v \in holeTags'[h] <=> v \in holeTags[h]
           /\ t \notin holeTags'[h]
           /\ t # u => (u \in holeTags'[h] <=> t \in holeTags[h] \/ u \in holeTags[h])
  BY <1>1, <1>2, <1>3, RelinkedIs
<1> HIDE DEF t, u, asRead
<1>7. CatalogueTypeOK'
  <2>1. \A v \in Live' \cup removed' : v < nextTag'
    BY <1>1, <1>2, <1>4, <1>5 DEF CatalogueTypeOK
  <2>2. req' \in [Handlers -> Request]
    BY <1>1, <1>2, DoneIs DEF CatalogueTypeOK, To
  <2>3. drifted' \cup renamed' \cup removed' \cup resaved' \subseteq TagIds /\ stripped' \subseteq Holes
    BY <1>1, <1>2, <1>3 DEF CatalogueTypeOK
  <2> QED
    BY <1>1, <1>2, <1>5, <1>6, <2>1, <2>2, <2>3 DEF CatalogueTypeOK
<1>8. TablesMove
  <2>1. nextTag <= nextTag' /\ nextTag' \in Nat
    BY <1>1, <1>2, BoundAssumption DEF CatalogueTypeOK
  <2>2. renamed \subseteq renamed' /\ resaved \subseteq resaved' /\ hole' = hole
    BY <1>2
  <2>3. \A v \in TagIds : v < nextTag /\ tag'[v] # None =>
          \/ v \in renamed'
          \/ tag[v] # None /\ tag'[v].name = tag[v].name
    <3> SUFFICES ASSUME NEW v \in TagIds, tag'[v] # None
                 PROVE  v \in renamed' \/ (tag[v] # None /\ tag'[v].name = tag[v].name)
      OBVIOUS
    <3>1. v \in Live' /\ v \in Live /\ v # t /\ tag[v] # None
      BY <1>5 DEF Live
    <3>2. CASE v = u
      BY <1>2, <1>5, <3>1, <3>2
    <3>3. CASE v # u
      BY <1>5, <3>1, <3>3
    <3> QED
      BY <3>2, <3>3
  <2>4. \A v \in removed' : \/ v \in removed
                            \/ \A p \in Handlers : req[p].step = "edit" /\ req[p].id = v
                                                     => v \in resaved'
    BY <1>2
  <2> QED
    BY <2>1, <2>2, <2>3, <2>4 DEF TablesMove
<1>9. ReferencesHold'
  <2>1. \A h \in Holes : hole'[h] # None => division'[hole'[h]] = "live"
    BY <1>1, <1>2 DEF ReferencesHold, LiveDivision
  <2>2. ASSUME NEW h \in Holes, NEW v \in holeTags'[h]
        PROVE  v \in Live'
    <3>1. v \in TagIds /\ v # t
      BY <1>6
    <3>2. CASE v # u
      BY <1>1, <1>5, <1>6, <3>1, <3>2 DEF ReferencesHold
    <3>3. CASE v = u
      <4>1. t \in holeTags[h] \/ u \in holeTags[h]
        BY <1>6, <3>1, <3>3
      <4>2. u \in Live
        BY <1>1, <1>2, <4>1 DEF ReferencesHold, HolesOf
      <4> QED
        BY <1>5, <3>1, <3>3, <4>2
    <3> QED
      BY <3>2, <3>3
  <2> QED
    BY <2>1, <2>2 DEF ReferencesHold, LiveDivision
<1>10. HolesKeepTags' /\ FreshInv'
  <2>1. ASSUME NEW h \in Holes, holeTags[h] = {} PROVE holeTags'[h] = {}
    <3>1. \A v \in holeTags'[h] : v \in TagIds /\ v # t
      BY <1>6
    <3>2. \A v \in TagIds \ {t, u} : v \notin holeTags'[h]
      BY <1>6, <2>1
    <3>3. t # u => u \notin holeTags'[h]
      BY <1>6, <2>1
    <3> QED
      BY <3>1, <3>2, <3>3
  <2>2. ASSUME NEW h \in Holes, holeTags[h] # {}
        PROVE  holeTags'[h] # {} \/ h \in stripped'
    <3>1. PICK v \in holeTags[h] : t = u /\ holeTags[h] # {t} => v # t
      BY <2>2
    <3>2. v \in TagIds
      BY <1>1 DEF CatalogueTypeOK
    <3>3. CASE v \notin {t, u}
      BY <1>6, <3>2, <3>3
    <3>4. CASE v \in {t, u} /\ t # u
      BY <1>6, <3>4
    <3>5. CASE v \in {t, u} /\ t = u
      BY <1>2, <3>1, <3>5
    <3> QED
      BY <3>3, <3>4, <3>5
  <2>3. stripped \subseteq stripped'
    BY <1>2
  <2> QED
    BY <1>1, <1>2, <2>1, <2>2, <2>3 DEF HolesKeepTags, FreshInv
<1>11. DeletedTagsGone'
  BY <1>1, <1>2, <1>5 DEF DeletedTagsGone
<1>12. TemperatureExact'
  <2> SUFFICES ASSUME NEW v \in Live', v \notin drifted'
               PROVE  tag'[v].temperature = Cardinality(HolesOf(v)')
    BY DEF TemperatureExact
  <2>1. v \in Live /\ v # t /\ v \in TagIds /\ v \notin drifted
    BY <1>2, <1>5 DEF Live
  <2>2. CASE v # u
    <3>1. HolesOf(v)' = HolesOf(v) /\ tag'[v] = tag[v]
      BY <1>5, <1>6, <2>1, <2>2 DEF HolesOf
    <3> QED
      BY <1>1, <2>1, <3>1 DEF TemperatureExact
  <2>3. CASE v = u
    <3>1. asRead /\ t \notin drifted /\ HolesOf(t) \cap HolesOf(u) = {}
      BY <1>2, <2>3
    <3>2. tag[t] = q.fromRow /\ tag[u] = q.toRow
      BY <3>1 DEF asRead
    <3>3. t \in Live
      BY <1>3, <3>2, NoneAssumption DEF Live, t
    <3>4. /\ q.fromRow.temperature = Cardinality(HolesOf(t))
          /\ q.toRow.temperature = Cardinality(HolesOf(u))
      BY <1>1, <2>1, <2>3, <3>1, <3>2, <3>3 DEF TemperatureExact
    <3>5. HolesOf(v)' = HolesOf(t) \cup HolesOf(u)
      BY <1>6, <2>1, <2>3 DEF HolesOf
    <3>6. IsFiniteSet(HolesOf(t)) /\ IsFiniteSet(HolesOf(u))
      BY FiniteAssumption, FS_Subset DEF HolesOf
    <3>7. /\ Cardinality(HolesOf(t)) \in Nat /\ Cardinality(HolesOf(u)) \in Nat
          /\ Cardinality(HolesOf(t) \cup HolesOf(u))
               = Cardinality(HolesOf(t)) + Cardinality(HolesOf(u))
      <4>1. /\ Cardinality(HolesOf(t)) \in Nat /\ Cardinality(HolesOf(u)) \in Nat
        BY <3>6, FS_CardinalityType
      <4>2. Cardinality(HolesOf(t) \cup HolesOf(u))
              = Cardinality(HolesOf(t)) + Cardinality(HolesOf(u))
                - Cardinality(HolesOf(t) \cap HolesOf(u))
        BY <3>6, FS_Union
      <4>3. Cardinality(HolesOf(t) \cap HolesOf(u)) = 0
        BY <3>1, FS_EmptySet
      <4> QED
        BY <4>1, <4>2, <4>3
    <3>8. tag'[u].temperature = IF q.fromRow.temperature + q.toRow.temperature = 0
                                THEN tag[u].temperature
                                ELSE q.fromRow.temperature + q.toRow.temperature
      BY <1>5, <2>3
    <3> QED
      BY <2>3, <3>2, <3>4, <3>5, <3>7, <3>8
  <2> QED
    BY <2>2, <2>3
<1>13. /\ ~ May(Done) /\ HeldBy(Done, tag', nextTag', hole', renamed')
       /\ ReadBy(Done, nextTag', removed', resaved')
  BY DoneIs
<1> QED
  BY <1>2, <1>7, <1>8, <1>9, <1>10, <1>11, <1>12, <1>13, HandlerStep

-----------------------------------------------------------------------------
(* The catalogue: divisions *)

\* The division of holes, or of one hole, changes.
SameTags == UNCHANGED <<tag, nextTag, holeTags, history>>

LEMMA DivisionsMove ==
    ASSUME CatalogueIInv, SameTags,
           hole' \in [Holes -> Divisions \cup {None}],
           division' \in [Divisions -> {"unused", "live", "deleted"}],
           \A h \in Holes : hole'[h] = None <=> hole[h] = None,
           \A h \in Holes : hole'[h] # None => division'[hole'[h]] = "live"
    PROVE  /\ TablesMove /\ ReferencesHold' /\ HolesKeepTags' /\ DeletedTagsGone'
           /\ TemperatureExact' /\ FreshInv'
           /\ req' \in [Handlers -> Request] => CatalogueTypeOK'
<1>1. /\ CatalogueTypeOK /\ ReferencesHold /\ HolesKeepTags /\ DeletedTagsGone
      /\ TemperatureExact /\ FreshInv
  BY CatalogueParts
<1>2. /\ tag' = tag /\ nextTag' = nextTag /\ holeTags' = holeTags
      /\ drifted' = drifted /\ renamed' = renamed
      /\ stripped' = stripped /\ removed' = removed /\ resaved' = resaved
  BY DEF SameTags, history
<1>3. TablesMove
  BY <1>1, <1>2, BoundAssumption DEF TablesMove, CatalogueTypeOK
<1>4. ReferencesHold' /\ HolesKeepTags' /\ DeletedTagsGone' /\ FreshInv'
  BY <1>1, <1>2 DEF ReferencesHold, HolesKeepTags, DeletedTagsGone, FreshInv, Live, LiveDivision
<1>5. TemperatureExact'
  BY <1>1, <1>2 DEF TemperatureExact, Live, HolesOf
<1>6. req' \in [Handlers -> Request] => CatalogueTypeOK'
  BY <1>1, <1>2 DEF CatalogueTypeOK, Live
<1> QED
  BY <1>3, <1>4, <1>5, <1>6

\* No handler takes part in the step.
LEMMA StillStep ==
    ASSUME CatalogueIInv, TablesMove, req' = req, nextTag' = nextTag,
           CatalogueTypeOK', ReferencesHold', HolesKeepTags', DeletedTagsGone',
           TemperatureExact', FreshInv'
    PROVE  CatalogueIInv'
<1>1. IdsInv'
  BY CatalogueParts DEF IdsInv, Pending
<1>2. Kept'
  BY OthersKept DEF Kept
<1>3. (CatalogueIInv <=> /\ CatalogueTypeOK /\ ReferencesHold /\ HolesKeepTags
                      /\ DeletedTagsGone /\ TemperatureExact /\ IdsInv /\ FreshInv
                      /\ Kept)'
  BY CatalogueParts, PTL
<1> QED
  BY <1>1, <1>2, <1>3

LEMMA ModifyDivisionStep ==
    ASSUME CatalogueIInv, NEW h \in Holes, NEW d \in Divisions, ModifyDivision(h, d)
    PROVE  CatalogueIInv'
<1>1. CatalogueTypeOK /\ ReferencesHold
  BY CatalogueParts
<1>2. /\ hole' = [hole EXCEPT ![h] = d] /\ hole[h] # None /\ division[d] = "live"
      /\ SameTags /\ division' = division /\ req' = req /\ nextTag' = nextTag
  BY DEF ModifyDivision, SameTags, LiveDivision
<1>3. d # None
  BY NoneAssumption
<1>4. /\ hole' \in [Holes -> Divisions \cup {None}]
      /\ \A g \in Holes : hole'[g] = None <=> hole[g] = None
      /\ \A g \in Holes : hole'[g] # None => division'[hole'[g]] = "live"
      /\ division' \in [Divisions -> {"unused", "live", "deleted"}]
      /\ req' \in [Handlers -> Request]
  BY <1>1, <1>2, <1>3 DEF CatalogueTypeOK, ReferencesHold, LiveDivision
<1> QED
  BY <1>2, <1>4, DivisionsMove, StillStep

LEMMA AddDivisionStep ==
    ASSUME CatalogueIInv, NEW d \in Divisions, AddDivision(d)
    PROVE  CatalogueIInv'
<1>1. CatalogueTypeOK /\ ReferencesHold
  BY CatalogueParts
<1>2. /\ hole' = hole /\ division' = [division EXCEPT ![d] = "live"]
      /\ SameTags /\ req' = req /\ nextTag' = nextTag
  BY DEF AddDivision, SameTags
<1>3. /\ hole' \in [Holes -> Divisions \cup {None}]
      /\ \A g \in Holes : hole'[g] = None <=> hole[g] = None
      /\ \A g \in Holes : hole'[g] # None => division'[hole'[g]] = "live"
      /\ division' \in [Divisions -> {"unused", "live", "deleted"}]
      /\ req' \in [Handlers -> Request]
  BY <1>1, <1>2 DEF CatalogueTypeOK, ReferencesHold, LiveDivision
<1> QED
  BY <1>2, <1>3, DivisionsMove, StillStep

LEMMA MoveHolesStep ==
    ASSUME CatalogueIInv, NEW r \in Handlers, NEW d \in Divisions, NEW e \in Divisions,
           MoveHoles(r, d, e)
    PROVE  CatalogueIInv'
<1> DEFINE q == [step |-> "moved", division |-> d]
<1>1. CatalogueTypeOK /\ ReferencesHold
  BY CatalogueParts
<1>2. /\ hole' = [h \in Holes |-> IF hole[h] = d THEN e ELSE hole[h]]
      /\ \A h \in Holes : hole[h] = d => division[e] = "live"
      /\ SameTags /\ division' = division /\ To(r, q) /\ nextTag' = nextTag
  BY DEF MoveHoles, SameTags, LiveDivision
<1>3. q \in Request /\ q.step = "moved"
  BY DEF Request
<1> HIDE DEF q
<1>4. d # None /\ e # None
  BY NoneAssumption
<1>5. /\ hole' \in [Holes -> Divisions \cup {None}]
      /\ \A g \in Holes : hole'[g] = None <=> hole[g] = None
      /\ \A g \in Holes : hole'[g] # None => division'[hole'[g]] = "live"
      /\ division' \in [Divisions -> {"unused", "live", "deleted"}]
  BY <1>1, <1>2, <1>4 DEF CatalogueTypeOK, ReferencesHold, LiveDivision
<1>6. req' \in [Handlers -> Request]
  BY <1>1, <1>2, <1>3 DEF CatalogueTypeOK, To
<1>7. /\ ~ May(q) /\ HeldBy(q, tag', nextTag', hole', renamed')
      /\ ReadBy(q, nextTag', removed', resaved')
  BY <1>3 DEF May, HeldBy, ReadBy
<1>8. /\ TablesMove /\ ReferencesHold' /\ HolesKeepTags' /\ DeletedTagsGone'
      /\ TemperatureExact' /\ FreshInv' /\ CatalogueTypeOK'
  BY <1>2, <1>5, <1>6, DivisionsMove
<1> QED
  BY <1>2, <1>7, <1>8, HandlerStep

LEMMA DropDivisionStep ==
    ASSUME CatalogueIInv, NEW r \in Handlers, DropDivision(r)
    PROVE  CatalogueIInv'
<1> DEFINE d == req[r].division
<1>1. CatalogueTypeOK /\ ReferencesHold
  BY CatalogueParts
<1>2. /\ hole' = hole /\ \A h \in Holes : hole[h] # d
      /\ division' = [division EXCEPT ![d] = IF @ = "live" THEN "deleted" ELSE @]
      /\ SameTags /\ To(r, Done) /\ nextTag' = nextTag /\ req[r].step = "moved"
  BY DEF DropDivision, DivisionUnused, SameTags
<1>3. d \in Divisions
  BY <1>1, <1>2, RequestIs DEF CatalogueTypeOK
<1> HIDE DEF d
<1>4. /\ hole' \in [Holes -> Divisions \cup {None}]
      /\ \A g \in Holes : hole'[g] = None <=> hole[g] = None
      /\ \A g \in Holes : hole'[g] # None => division'[hole'[g]] = "live"
      /\ division' \in [Divisions -> {"unused", "live", "deleted"}]
  BY <1>1, <1>2, <1>3 DEF CatalogueTypeOK, ReferencesHold, LiveDivision
<1>5. /\ Done \in Request /\ ~ May(Done) /\ HeldBy(Done, tag', nextTag', hole', renamed')
      /\ ReadBy(Done, nextTag', removed', resaved')
  BY DoneIs
<1>6. req' \in [Handlers -> Request]
  BY <1>1, <1>2, <1>5 DEF CatalogueTypeOK, To
<1>7. /\ TablesMove /\ ReferencesHold' /\ HolesKeepTags' /\ DeletedTagsGone'
      /\ TemperatureExact' /\ FreshInv' /\ CatalogueTypeOK'
  BY <1>2, <1>4, <1>6, DivisionsMove
<1> QED
  BY <1>2, <1>5, <1>7, HandlerStep

-----------------------------------------------------------------------------
(* The catalogue: theorems *)

LEMMA CatalogueInitIInv == CatalogueInit => CatalogueIInv
<1> SUFFICES ASSUME CatalogueInit PROVE CatalogueIInv
  OBVIOUS
<1> USE StartAssumption, NoneAssumption
<1>1. /\ hole = [h \in Holes |-> IF FirstTags[h] = {} THEN None ELSE FirstDivision]
      /\ holeTags = FirstTags /\ division \in [Divisions -> {"unused", "live"}]
      /\ division[FirstDivision] = "live"
      /\ req = [r \in Handlers |-> New]
      /\ drifted = {} /\ renamed = {} /\ stripped = {} /\ removed = {} /\ resaved = {}
      /\ nextTag \in 1..(MaxTag + 1)
      /\ \A t \in TagIds : FirstTag[t] # None <=> t < nextTag
  BY DEF CatalogueInit
<1>2. \A t \in TagIds :
        tag[t] = IF FirstTag[t] = None THEN None
                 ELSE [name |-> FirstTag[t],
                       temperature |-> Cardinality({h \in Holes : t \in FirstTags[h]})]
  BY DEF CatalogueInit
<1>3. \A t : HolesOf(t) = {h \in Holes : t \in FirstTags[h]}
  BY <1>1 DEF HolesOf
<1>4. \A t : Cardinality(HolesOf(t)) \in Nat
  BY FiniteAssumption, FS_Subset, FS_CardinalityType DEF HolesOf
<1>5. ASSUME NEW t \in TagIds
      PROVE  /\ tag[t] \in TagRow \cup {None}
             /\ tag[t] # None <=> t < nextTag
             /\ tag[t] # None => tag[t].temperature = Cardinality(HolesOf(t))
  <2>1. CASE FirstTag[t] = None
    BY <1>1, <1>2, <2>1
  <2>2. CASE FirstTag[t] # None
    <3>1. tag[t] = [name |-> FirstTag[t], temperature |-> Cardinality(HolesOf(t))]
      BY <1>2, <1>3, <2>2
    <3>2. FirstTag[t] \in Names /\ Cardinality(HolesOf(t)) \in Int
      BY <1>4, <2>2
    <3>3. tag[t] \in TagRow /\ tag[t].temperature = Cardinality(HolesOf(t))
      BY <3>1, <3>2 DEF TagRow
    <3> QED
      BY <1>1, <2>2, <3>3
  <2> QED
    BY <2>1, <2>2
<1>6. tag \in [TagIds -> TagRow \cup {None}]
  <2>1. DOMAIN tag = TagIds /\ tag = [t \in TagIds |-> tag[t]]
    BY DEF CatalogueInit
  <2> QED
    BY <1>5, <2>1
<1>7. CatalogueTypeOK
  <2>1. req \in [Handlers -> Request]
    BY <1>1 DEF New, Request
  <2>2. \A t \in Live \cup removed : t < nextTag
    BY <1>1, <1>5 DEF Live
  <2>3. holeTags \in [Holes -> SUBSET TagIds]
    BY <1>1
  <2>4. hole \in [Holes -> Divisions \cup {None}]
    BY <1>1
  <2> QED
    BY <1>1, <1>6, <2>1, <2>2, <2>3, <2>4 DEF CatalogueTypeOK
<1>8. ReferencesHold /\ HolesKeepTags /\ DeletedTagsGone /\ FreshInv
  <2>1. \A h \in Holes : holeTags[h] \subseteq Live
    BY <1>1, <1>5 DEF Live
  <2>2. \A h \in Holes : hole[h] = IF holeTags[h] = {} THEN None ELSE FirstDivision
    BY <1>1
  <2> QED
    BY <1>1, <2>1, <2>2
    DEF ReferencesHold, HolesKeepTags, DeletedTagsGone, FreshInv, LiveDivision
<1>9. TemperatureExact
  BY <1>5 DEF TemperatureExact, Live
<1>10. IdsInv
  <2>1. Pending = Handlers
    BY <1>1 DEF Pending, New
  <2>2. {t \in TagIds : FirstTag[t] # None} = 1..(nextTag - 1)
    BY <1>1, BoundAssumption DEF TagIds
  <2>3. Cardinality(1..(nextTag - 1)) = nextTag - 1
    <3>1. nextTag - 1 \in Int /\ nextTag - 1 >= 0
      BY <1>1, BoundAssumption
    <3>2. Cardinality(1..(nextTag - 1)) = IF 1 > nextTag - 1 THEN 0 ELSE nextTag - 1 - 1 + 1
      BY <3>1, FS_Interval
    <3> QED
      BY <1>1, <3>1, <3>2, BoundAssumption
  <2>4. Cardinality(Handlers) \in Nat
    BY FiniteAssumption, FS_CardinalityType
  <2>5. nextTag - 1 + Cardinality(Handlers) <= MaxTag
    BY <2>2, <2>3, BoundAssumption
  <2> QED
    BY <1>1, <2>1, <2>4, <2>5, BoundAssumption DEF IdsInv
<1>11. Kept
  BY <1>1 DEF Kept, HeldBy, ReadBy, New
<1> QED
  BY <1>7, <1>8, <1>9, <1>10, <1>11, CatalogueParts

LEMMA CatalogueNextIInv == CatalogueIInv /\ [CatalogueNext]_catalogueVars => CatalogueIInv'
<1> SUFFICES ASSUME CatalogueIInv, [CatalogueNext]_catalogueVars PROVE CatalogueIInv'
  OBVIOUS
<1>1. ASSUME NEW r \in Handlers, CheckFails(r) \/ Continue(r) PROVE CatalogueIInv'
  BY <1>1, CheckFailsStep, CreateTagsStep, StoreHoleStep, ModifyTagsStep, FailStep,
     SaveTagStep, ReadStep, MergeTagsStep, DropDivisionStep DEF Continue
<1>2. ASSUME NEW r \in Handlers, NEW S \in SUBSET Names,
             \/ \E d \in Divisions : CreateHole(r, d, S)
             \/ \E h \in Holes : ModifyHole(r, h, S)
      PROVE  CatalogueIInv'
  BY <1>2, FilingBegins
<1>3. ASSUME NEW r \in Handlers, NEW n \in Names,
             \/ CreateTag(r, n)
             \/ \E t \in TagIds, temp \in Temps : ReadTag(r, t, n, temp)
      PROVE  CatalogueIInv'
  BY <1>3, CreateTagStep, ReadStep
<1>4. ASSUME NEW r \in Handlers, NEW t \in TagIds, ReadSource(r, t)
      PROVE  CatalogueIInv'
  BY <1>4, ReadStep
<1>5. ASSUME NEW r \in Handlers, NEW d \in Divisions, NEW e \in Divisions, MoveHoles(r, d, e)
      PROVE  CatalogueIInv'
  BY <1>5, MoveHolesStep
<1>6. ASSUME NEW d \in Divisions,
             AddDivision(d) \/ \E h \in Holes : ModifyDivision(h, d)
      PROVE  CatalogueIInv'
  BY <1>6, AddDivisionStep, ModifyDivisionStep
<1>7. CASE UNCHANGED catalogueVars
  <2>1. SameTables /\ req' = req /\ nextTag' = nextTag
    BY <1>7 DEF catalogueVars, SameTables
  <2>2. CatalogueTypeOK'
    BY <1>7, CatalogueParts DEF catalogueVars, history, CatalogueTypeOK, Live
  <2> QED
    BY <2>1, <2>2, SameInvariants, StillStep
<1> QED
  BY <1>1, <1>2, <1>3, <1>4, <1>5, <1>6, <1>7 DEF CatalogueNext

\* The inductive invariant of the catalogue: tables and temperatures agree, and what
\* handlers have in hand is of tags that were there, under the names asked for.
THEOREM CatalogueInvariance == CatalogueSpec => []CatalogueIInv
<1>1. CatalogueInit => CatalogueIInv
  BY CatalogueInitIInv
<1>2. CatalogueIInv /\ [CatalogueNext]_catalogueVars => CatalogueIInv'
  BY CatalogueNextIInv
<1> QED
  BY <1>1, <1>2, PTL DEF CatalogueSpec

\* Holes are in divisions and under tags that are there and keep a tag, and deleted
\* tags stay deleted, with the exceptions the properties name.
THEOREM TablesHold == CatalogueSpec => []TablesOK
<1>1. CatalogueIInv => TablesOK
  BY DEF CatalogueIInv
<1> QED
  BY <1>1, CatalogueInvariance, PTL

\* A tag's temperature is the number of its holes, unless an admin set it or a merge
\* did not add up, through all overlaps of filing, editing and merging.
THEOREM TemperatureHolds == CatalogueSpec => []TemperatureExact
<1>1. CatalogueIInv => TemperatureExact
  BY DEF CatalogueIInv
<1> QED
  BY <1>1, CatalogueInvariance, PTL

\* Only a handler that files a hole ends its request and changes the tags of one.
LEMMA FiledBy ==
    ASSUME CatalogueTypeOK, CatalogueNext, NEW r \in Handlers, Filing(r),
           req'[r] # req[r], holeTags' # holeTags
    PROVE  StoreHole(r) \/ ModifyTags(r)
<1>1. ASSUME NEW p \in Handlers, To(p, Done) PROVE p = r
  BY <1>1 DEF To, CatalogueTypeOK
<1>2. ASSUME NEW p \in Handlers, CheckFails(p) \/ Continue(p)
      PROVE  StoreHole(r) \/ ModifyTags(r)
  <2>1. StoreHole(p) \/ ModifyTags(p) \/ MergeTags(p)
    BY <1>2 DEF Continue, CheckFails, CreateTags, FailFiling, SaveTag, FailEdit, ReadTarget,
                FailMerge, DropDivision, FailDrop
  <2>2. To(p, Done)
    BY <2>1 DEF StoreHole, ModifyTags, MergeTags
  <2>3. p = r
    BY <1>1, <2>2
  <2>4. ~ MergeTags(r)
    BY DEF MergeTags, Filing
  <2> QED
    BY <2>1, <2>3, <2>4
<1>3. \/ \E p \in Handlers : CheckFails(p) \/ Continue(p)
      \/ holeTags' = holeTags
  BY DEF CatalogueNext, CreateHole, ModifyHole, CreateTag, ReadTag, ReadSource, MoveHoles,
         ModifyDivision, AddDivision
<1> QED
  BY <1>2, <1>3

\* What TagsAsAsked says of one handler and one hole.
LEMMA StoredAsAsked ==
    ASSUME CatalogueIInv, NEW r \in Handlers, NEW h \in Holes, StoreHole(r),
           holeTags'[h] # holeTags[h]
    PROVE  \/ {tag'[t].name : t \in holeTags'[h]} = req[r].names
           \/ holeTags'[h] \cap renamed # {}
<1> DEFINE q == req[r]
<1>1. CatalogueTypeOK /\ HeldBy(q, tag, nextTag, hole, renamed)
  BY CatalogueParts DEF Kept
<1>2. /\ q.step = "store" /\ q.ids \subseteq {t \in TagIds : tag[t] # None}
      /\ tag' = Retagged(tag, {}, q.ids)
      /\ \E g \in Holes : holeTags' = [holeTags EXCEPT ![g] = q.ids]
  BY DEF StoreHole, TagsExist, Live
<1>3. holeTags'[h] = q.ids
  BY <1>1, <1>2 DEF CatalogueTypeOK
<1>4. q.ids \cap renamed # {} \/ {tag[t].name : t \in q.ids} = q.names
  BY <1>1, <1>2 DEF HeldBy
<1>5. \A t \in q.ids : tag'[t].name = tag[t].name
  <2>1. tag \in [TagIds -> TagRow \cup {None}]
    BY <1>1 DEF CatalogueTypeOK
  <2>2. \A t \in TagIds : tag[t] # None => tag'[t].name = tag[t].name
    BY <1>2, <2>1, RetaggedIs
  <2> QED
    BY <1>2, <2>2
<1>6. {tag'[t].name : t \in q.ids} = {tag[t].name : t \in q.ids}
  BY <1>5
<1> QED
  BY <1>3, <1>4, <1>6

LEMMA ModifiedAsAsked ==
    ASSUME CatalogueIInv, NEW r \in Handlers, NEW h \in Holes, ModifyTags(r),
           holeTags'[h] # holeTags[h]
    PROVE  \/ {tag'[t].name : t \in holeTags'[h]} = req[r].names
           \/ holeTags'[h] \cap renamed # {}
<1> DEFINE q == req[r]
           g == q.hole
<1>1. CatalogueTypeOK /\ IdsInv /\ HeldBy(q, tag, nextTag, hole, renamed)
  BY CatalogueParts DEF Kept
<1>2. /\ q.step \in {"check", "store"} /\ g # None
      /\ q.ids \subseteq {t \in TagIds : tag[t] # None}
  BY DEF ModifyTags, Creating, Filing, TagsExist, Live
<1>3. q.new \subseteq Names /\ q.new \subseteq q.names /\ FoundOne(q)
      /\ (q.step = "store" => q.new = {})
  BY <1>1, <1>2, RequestIs DEF CatalogueTypeOK, HeldBy
<1>4. q.ids \cap renamed # {} \/ {tag[t].name : t \in q.ids} = q.names \ q.new
  BY <1>1, <1>2, <1>3 DEF HeldBy
<1>5. tag \in [TagIds -> TagRow \cup {None}]
  BY <1>1 DEF CatalogueTypeOK
<1>6. CASE /\ q.new = {} /\ tag' = Retagged(tag, holeTags[g], q.ids)
           /\ holeTags' = [holeTags EXCEPT ![g] = q.ids]
  <2>1. holeTags'[h] = q.ids
    BY <1>1, <1>6 DEF CatalogueTypeOK
  <2>2. \A t \in TagIds : tag[t] # None => tag'[t].name = tag[t].name
    BY <1>5, <1>6, RetaggedIs
  <2>3. {tag'[t].name : t \in q.ids} = {tag[t].name : t \in q.ids}
    BY <1>2, <2>2
  <2> QED
    BY <1>4, <1>6, <2>1, <2>3
<1>7. ASSUME NEW n \in q.new, nextTag' = nextTag + 1,
             tag' = Retagged([tag EXCEPT ![nextTag] = [name |-> n, temperature |-> 0]],
                             holeTags[g], q.ids \cup {nextTag}),
             holeTags' = [holeTags EXCEPT ![g] = q.ids \cup {nextTag}]
      PROVE  \/ {tag'[t].name : t \in holeTags'[h]} = q.names
             \/ holeTags'[h] \cap renamed # {}
  <2> DEFINE table == [tag EXCEPT ![nextTag] = [name |-> n, temperature |-> 0]]
  <2>1. q.step = "check" /\ May(req[r]) /\ n \in Names /\ q.new = {n} /\ n \in q.names
    BY <1>2, <1>3 DEF May, FoundOne
  <2>2. nextTag \in TagIds
    BY <1>1, <2>1, IdLeft
  <2>3. Grown(table, n) /\ tag' = Retagged(table, holeTags[g], q.ids \cup {nextTag})
    BY <1>7, <2>2 DEF Grown
  <2> HIDE DEF table
  <2>4. /\ table \in [TagIds -> TagRow \cup {None}]
        /\ table[nextTag] # None /\ table[nextTag].name = n /\ tag[nextTag] = None
        /\ \A t \in TagIds : t # nextTag => table[t] = tag[t]
    BY <2>1, <2>3, GrownIs
  <2>5. \A t \in TagIds : table[t] # None => tag'[t].name = table[t].name
    BY <2>3, <2>4, RetaggedIs
  <2>6. tag'[nextTag].name = n /\ \A t \in q.ids : tag'[t].name = tag[t].name
    BY <1>2, <2>2, <2>4, <2>5
  <2>7. {tag'[t].name : t \in q.ids \cup {nextTag}} = {tag[t].name : t \in q.ids} \cup {n}
    BY <2>6
  <2>8. holeTags'[h] = q.ids \cup {nextTag}
    BY <1>1, <1>7 DEF CatalogueTypeOK
  <2>9. (q.names \ q.new) \cup {n} = q.names
    BY <2>1
  <2> QED
    BY <1>4, <2>7, <2>8, <2>9
<1> QED
  BY <1>6, <1>7 DEF ModifyTags

\* A hole gets the tags that its request asked for, whatever other handlers make,
\* merge and delete between the search for tags and the transaction; renamed tags
\* excepted.
THEOREM TagsHoldAsAsked == CatalogueSpec => TagsAsAsked
<1> DEFINE Asked(r, h) ==
      /\ Filing(r)
      /\ holeTags'[h] # holeTags[h]
      /\ req'[r] # req[r]
      => \/ {tag'[t].name : t \in holeTags'[h]} = req[r].names
         \/ holeTags'[h] \cap renamed # {}
<1>1. ASSUME CatalogueIInv, [CatalogueNext]_catalogueVars
      PROVE  [\A r \in Handlers, h \in Holes : Asked(r, h)]_catalogueVars
  <2> SUFFICES ASSUME CatalogueNext, NEW r \in Handlers, NEW h \in Holes,
                      Filing(r), holeTags'[h] # holeTags[h], req'[r] # req[r]
               PROVE  \/ {tag'[t].name : t \in holeTags'[h]} = req[r].names
                      \/ holeTags'[h] \cap renamed # {}
    BY <1>1
  <2>1. CatalogueTypeOK
    BY <1>1, CatalogueParts
  <2>2. StoreHole(r) \/ ModifyTags(r)
    BY <2>1, FiledBy
  <2> QED
    BY <1>1, <2>2, StoredAsAsked, ModifiedAsAsked
<1> QED
  BY <1>1, CatalogueInvariance, PTL DEF CatalogueSpec, TagsAsAsked
=============================================================================
