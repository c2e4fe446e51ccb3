----------------------------- MODULE Punishment -----------------------------
(***************************************************************************)
(* Admins ban users: from posting in a division, because of a floor; from  *)
(* posting in every division; and from reporting, because of a report.     *)
(* Each ban is a record, and the row of the user holds when the bans end.  *)
(*                                                                         *)
(* Every handler locks the row of the user, computes new columns from what *)
(* it reads, and saves those columns.  BanUser reads the floor and its     *)
(* hole before that.  Time is counted in days; floors and reports that     *)
(* nobody is punished for are left out.                                    *)
(***************************************************************************)
EXTENDS Integers, Sequences, FiniteSets

CONSTANTS
    Users,
    Divisions,
    Excluded,   \* EXCLUDE_BAN_FOREVER_DIVISION_IDS
    Floors,
    Author,     \* the user of a floor
    Reports,
    Reporter,   \* the user of a report
    Requests,   \* handlers of admins
    Days,       \* the durations a request may ask for; 0 if it names none
    Forever,    \* 3650
    MaxTime,    \* bound: the clock stops here
    None

ASSUME PeopleAssumption ==
    Author \in [Floors -> Users] /\ Reporter \in [Reports -> Users]

ASSUME DaysAssumption == Days \subseteq Nat /\ Forever \in Nat

ASSUME FiniteAssumption == IsFiniteSet(Floors) /\ IsFiniteSet(Divisions)

ASSUME NoneAssumption == None \notin Int \cup Users \cup Floors \cup Divisions

VARIABLES
    now,
    division,         \* floor |-> the division of its hole
    user,             \* the rows of users
    punishment,       \* floor |-> its record, or None
    forever,          \* user |-> how many records are not for a floor
    reportPunishment, \* user |-> the records of bans from reporting, by id
    req,              \* handler |-> where it is and its locals
    from,             \* history: when the ban from a division started
    counted,          \* history: the floors it was made longer for
    drifted           \* history: bans whose records were changed without them

history == <<from, counted, drifted>>

vars == <<now, division, user, punishment, forever, reportPunishment, req, history>>

Time == Nat

Ban == Int \cup {None}

UserRow ==
    [BanDivision : [Divisions -> Ban], OffenceCount : Nat,
     BanReport : Ban, BanReportCount : Nat]

Record == [start : Time, end : Time, days : Nat, division : Divisions]

ASSUME RecordAssumption == None \notin Record

ReportRecord == [report : Reports, start : Time, end : Time]

New == [step |-> "new", user |-> None, floor |-> None, division |-> None,
        report |-> None, days |-> 0, row |-> None]

Request ==
    [step : {"new", "ban", "forever", "report", "done"},
     user : Users \cup {None}, floor : Floors \cup {None},
     division : Divisions \cup {None}, report : Reports \cup {None},
     days : Nat, row : UserRow \cup {None}]

-----------------------------------------------------------------------------
(* The row of a user *)

\* Mutant: the row is read without a lock.
NoLock(u) == TRUE

\* The row lock is held from the read in LockUser to the save.
LockFree(u) == \A r \in Requests : req[r].user = u => req[r].row = None

Answer(r) == req' = [req EXCEPT ![r] = [New EXCEPT !.step = "done"]]

\* GetCurrLoginUser drops the bans that are over.
Login(u) ==
    /\ LockFree(u)
    /\ LET over == {d \in Divisions : /\ user[u].BanDivision[d] # None
                                      /\ user[u].BanDivision[d] < now}
       IN /\ over # {}
          /\ user' = [user EXCEPT ![u].BanDivision =
                        [d \in Divisions |-> IF d \in over THEN None ELSE @[d]]]
          /\ counted' = [counted EXCEPT ![u] =
                           [d \in Divisions |-> IF d \in over THEN {} ELSE @[d]]]
          /\ drifted' = drifted \ {<<u, d>> : d \in over}
    /\ UNCHANGED <<now, division, punishment, forever, reportPunishment, req, from>>

\* BanUser, up to its transaction.
BanUser(r, f, n) ==
    /\ req[r].step = "new"
    /\ req' = [req EXCEPT ![r] = [New EXCEPT !.step = "ban", !.user = Author[f],
                                    !.floor = f, !.division = division[f], !.days = n]]
    /\ UNCHANGED <<now, division, user, punishment, forever, reportPunishment, history>>

\* BanUserForever.
BanUserForever(r, f) ==
    /\ req[r].step = "new"
    /\ req' = [req EXCEPT ![r] = [New EXCEPT !.step = "forever", !.user = Author[f]]]
    /\ UNCHANGED <<now, division, user, punishment, forever, reportPunishment, history>>

\* BanReporter; a request without days asks for one.
BanReporter(r, p, n) ==
    /\ req[r].step = "new"
    /\ req' = [req EXCEPT ![r] = [New EXCEPT !.step = "report", !.user = Reporter[p],
                                    !.report = p, !.days = IF n = 0 THEN 1 ELSE n]]
    /\ UNCHANGED <<now, division, user, punishment, forever, reportPunishment, history>>

\* Each transaction starts with the locking read of the row.
LockUser(r) ==
    /\ req[r].step \in {"ban", "forever", "report"}
    /\ req[r].row = None
    /\ LockFree(req[r].user)
    /\ req' = [req EXCEPT ![r].row = user[req[r].user]]
    /\ UNCHANGED <<now, division, user, punishment, forever, reportPunishment, history>>

-----------------------------------------------------------------------------
(* Bans from divisions *)

\* Mutant: a revision adds its days to the ban it revises.
LongerBy(end, n, old) == end + n

\* A ban that is revised is changed by the difference.
Changed(end, n, old) == end + (n - old)

\* Punishment.Create for the first time: the ban starts now, or is made longer
\* than it was stored.
Punish(r) ==
    LET u == req[r].user
        f == req[r].floor
        d == req[r].division
        n == req[r].days
        old == req[r].row.BanDivision[d]
    IN /\ req[r].step = "ban" /\ req[r].row # None
       /\ punishment[f] = None
       /\ punishment' = [punishment EXCEPT ![f] =
            [start |-> now, end |-> now + n, days |-> n, division |-> d]]
       /\ user' = [user EXCEPT
            ![u].OffenceCount = req[r].row.OffenceCount + 1,
            ![u].BanDivision = [req[r].row.BanDivision EXCEPT ![d] =
                IF old = None THEN now + n ELSE old + n]]
       /\ from' = IF old = None THEN [from EXCEPT ![u][d] = now] ELSE from
       /\ counted' = [counted EXCEPT ![u][d] = @ \cup {f}]
       /\ Answer(r)
       /\ UNCHANGED <<now, division, forever, reportPunishment, drifted>>

\* The record after Updates, which leaves a column alone whose new value is zero.
Revised(p, d, n) ==
    [p EXCEPT !.end = p.start + n, !.division = d,
              !.days = IF n = 0 THEN p.days ELSE n]

\* Punishment.Create for a floor that has a record.  The durations are compared
\* as pointers and never equal.  The hole may have another division by now.  The
\* record is overwritten although another admin made it, which the comment on the
\* type rules out.
Revise(r) ==
    LET u == req[r].user
        f == req[r].floor
        d == req[r].division
        n == req[r].days
        p == punishment[f]
        old == req[r].row.BanDivision[d]
    IN /\ req[r].step = "ban" /\ req[r].row # None
       /\ p # None
       /\ punishment' = [punishment EXCEPT ![f] = Revised(p, d, n)]
       /\ user' = [user EXCEPT ![u].BanDivision =
            [req[r].row.BanDivision EXCEPT ![d] =
                IF old = None THEN p.start + n ELSE Changed(old, n, p.days)]]
       /\ IF old = None
          THEN /\ from' = [from EXCEPT ![u][d] = p.start]
               /\ counted' = [counted EXCEPT ![u][d] = {f}]
          ELSE UNCHANGED <<from, counted>>
       /\ drifted' = drifted
            \cup {<<u, e>> : e \in {e \in Divisions \ {d} : f \in counted[u][e]}}
            \cup (IF n = 0 \/ (old # None /\ f \notin counted[u][d])
                  THEN {<<u, d>>} ELSE {})
       /\ Answer(r)
       /\ UNCHANGED <<now, division, forever, reportPunishment>>

\* Every division that is not excluded is banned anew, whatever was stored.
PunishForever(r) ==
    LET u == req[r].user
        all == Divisions \ Excluded
    IN /\ req[r].step = "forever" /\ req[r].row # None
       /\ all # {}
       /\ forever' = [forever EXCEPT ![u] = @ + Cardinality(all)]
       /\ user' = [user EXCEPT
            ![u].OffenceCount = req[r].row.OffenceCount + Cardinality(all),
            ![u].BanDivision = [d \in Divisions |->
                IF d \in all THEN now + Forever ELSE req[r].row.BanDivision[d]]]
       /\ from' = [from EXCEPT ![u] =
            [d \in Divisions |-> IF d \in all THEN now + Forever ELSE @[d]]]
       /\ counted' = [counted EXCEPT ![u] =
            [d \in Divisions |-> IF d \in all THEN {} ELSE @[d]]]
       /\ drifted' = drifted \ {<<u, d>> : d \in all}
       /\ Answer(r)
       /\ UNCHANGED <<now, division, punishment, reportPunishment>>

-----------------------------------------------------------------------------
(* Bans from reporting *)

\* Mutant: every ban starts at once.
StartsNow(u) == now

\* After the last one, unless that is over.
StartOf(u) ==
    LET s == reportPunishment[u]
    IN IF s # << >> /\ s[Len(s)].end >= now THEN s[Len(s)].end ELSE now

\* ReportPunishment.Create: once for each report.
PunishReporter(r) ==
    LET u == req[r].user
        p == req[r].report
        start == StartOf(u)
        end == start + req[r].days
    IN /\ req[r].step = "report" /\ req[r].row # None
       /\ \A i \in DOMAIN reportPunishment[u] : reportPunishment[u][i].report # p
       /\ reportPunishment' = [reportPunishment EXCEPT ![u] =
            Append(@, [report |-> p, start |-> start, end |-> end])]
       /\ user' = [user EXCEPT ![u].BanReport = end,
                               ![u].BanReportCount = req[r].row.BanReportCount + 1]
       /\ Answer(r)
       /\ UNCHANGED <<now, division, punishment, forever, history>>

\* A refusal, an error, or the end of the process: the transaction is rolled back.
Fail(r) ==
    /\ req[r].step \in {"ban", "forever", "report"}
    /\ Answer(r)
    /\ UNCHANGED <<now, division, user, punishment, forever, reportPunishment, history>>

-----------------------------------------------------------------------------
(* What else happens *)

\* ModifyHole, or the deletion of the division.
MoveHole(f, d) ==
    /\ division[f] # d
    /\ division' = [division EXCEPT ![f] = d]
    /\ UNCHANGED <<now, user, punishment, forever, reportPunishment, req, history>>

Tick ==
    /\ now < MaxTime
    /\ now' = now + 1
    /\ UNCHANGED <<division, user, punishment, forever, reportPunishment, req, history>>

Init ==
    /\ now = 0
    /\ division \in [Floors -> Divisions]
    /\ user = [u \in Users |->
         [BanDivision |-> [d \in Divisions |-> None], OffenceCount |-> 0,
          BanReport |-> None, BanReportCount |-> 0]]
    /\ punishment = [f \in Floors |-> None]
    /\ forever = [u \in Users |-> 0]
    /\ reportPunishment = [u \in Users |-> << >>]
    /\ req = [r \in Requests |-> New]
    /\ from = [u \in Users |-> [d \in Divisions |-> 0]]
    /\ counted = [u \in Users |-> [d \in Divisions |-> {}]]
    /\ drifted = {}

Next ==
    \/ \E u \in Users : Login(u)
    \/ \E r \in Requests :
         \/ \E f \in Floors, n \in Days : BanUser(r, f, n)
         \/ \E f \in Floors : BanUserForever(r, f)
         \/ \E p \in Reports, n \in Days : BanReporter(r, p, n)
         \/ LockUser(r)
         \/ Punish(r) \/ Revise(r) \/ PunishForever(r) \/ PunishReporter(r) \/ Fail(r)
    \/ \E f \in Floors, d \in Divisions : MoveHole(f, d)
    \/ Tick

Spec == Init /\ [][Next]_vars

-----------------------------------------------------------------------------
(* Properties *)

\* The records of a user: those for a floor, and one for each division that was
\* banned forever.
Punished(u) == {f \in Floors : Author[f] = u /\ punishment[f] # None}

\* Rows, records and locals keep their types.
TypeOK ==
    /\ now \in Time
    /\ division \in [Floors -> Divisions]
    /\ user \in [Users -> UserRow]
    /\ punishment \in [Floors -> Record \cup {None}]
    /\ forever \in [Users -> Nat]
    /\ reportPunishment \in [Users -> Seq(ReportRecord)]
    /\ req \in [Requests -> Request]
    /\ from \in [Users -> [Divisions -> Nat]]
    /\ counted \in [Users -> [Divisions -> SUBSET Floors]]
    /\ drifted \subseteq Users \X Divisions

\* The number of offences of a user is the number of records: two admins who
\* punish a user at the same moment both count, and a revision does not.
OffencesCounted ==
    \A u \in Users :
        user[u].OffenceCount = Cardinality(Punished(u)) + forever[u]

\* The days of the records of some floors, one by one.
DaysOf(S) == UNION {{f} \X (1..punishment[f].days) : f \in S}

\* A ban lasts as long as its records say together: it ends after the days of
\* every floor it was made longer for, as they are now, counted from its start.
\* Not so (drifted): revised for a floor it was not made longer for, because the
\* hole changed its division or an earlier ban was over; revised to zero days.
BanIsSum ==
    \A u \in Users, d \in Divisions :
        LET end == user[u].BanDivision[d]
        IN end # None /\ <<u, d>> \notin drifted =>
             end = from[u][d] + Cardinality(DaysOf(counted[u][d]))

\* Bans from reporting follow one another and never overlap, the row of the user
\* holds the end of the last, counts them all, and no report is punished twice.
ReportBansConsecutive ==
    \A u \in Users :
        LET s == reportPunishment[u]
        IN /\ \A i \in 1..(Len(s) - 1) : s[i].end <= s[i + 1].start
           /\ \A i, j \in DOMAIN s : i # j => s[i].report # s[j].report
           /\ user[u].BanReportCount = Len(s)
           /\ user[u].BanReport = IF s = << >> THEN None ELSE s[Len(s)].end

-----------------------------------------------------------------------------
(* The inductive invariant *)

\* What a handler read in its transaction is still so, for it holds the lock.
LockInv ==
    /\ \A r \in Requests :
         req[r].row # None => /\ req[r].step \in {"ban", "forever", "report"}
                              /\ req[r].row = user[req[r].user]
    /\ \A r, q \in Requests :
         req[r].row # None /\ req[q].row # None /\ req[r].user = req[q].user => r = q

\* What a ban may last: BanReporter makes one day of none.
Durations == Days \cup {1}

\* A request names what it is about, and for how long.
LocalsInv ==
    \A r \in Requests :
        /\ req[r].step \in {"ban", "forever", "report"} => req[r].user \in Users
        /\ req[r].step = "ban" =>
             /\ req[r].floor \in Floors /\ req[r].division \in Divisions
             /\ req[r].user = Author[req[r].floor]
        /\ req[r].step = "report" =>
             req[r].report \in Reports /\ req[r].user = Reporter[req[r].report]
        /\ req[r].step \in {"ban", "report"} => req[r].days \in Durations

\* A ban is made longer for floors of its user that have records; one that is over
\* counts none.
CountedInv ==
    \A u \in Users, d \in Divisions :
        /\ \A f \in counted[u][d] : Author[f] = u /\ punishment[f] # None
        /\ user[u].BanDivision[d] = None => counted[u][d] = {}

IInv ==
    /\ TypeOK
    /\ LockInv
    /\ LocalsInv
    /\ OffencesCounted
    /\ ReportBansConsecutive
    /\ CountedInv /\ BanIsSum

-----------------------------------------------------------------------------
(* The promise to admins *)

BL == INSTANCE BanLedger WITH
        ends <- [u \in Users |-> user[u].BanDivision],
        offences <- [u \in Users |-> user[u].OffenceCount],
        record <- punishment,
        silences <- reportPunishment,
        silent <- [u \in Users |-> [until |-> user[u].BanReport,
                                   count |-> user[u].BanReportCount]]

\* Handlers that save over what they read still punish one after another: every
\* step is one whole verdict on what is stored at that moment, the end of bans
\* that are over, or none.  A later verdict for a floor amends the record of the
\* first, as Create does, not as the comment on models.Punishment has it.
ImplementsLedger == BL!Spec
=============================================================================
