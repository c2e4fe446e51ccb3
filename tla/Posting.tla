------------------------------ MODULE Posting ------------------------------
(***************************************************************************)
(* The write path of a hole: creating it, replying to it, locking,         *)
(* freezing, hiding, moving and deleting it, and the background purge.     *)
(*                                                                         *)
(* The tables hole, floor and anonyname_mapping are the committed rows.    *)
(* A reply is a request r whose handler reads the hole without a lock,     *)
(* calls the content check, and then runs one transaction: look the        *)
(* anonymous name up (or lock all names of the hole and insert a new one), *)
(* lock the hole row, read reply, insert the floor, write reply, commit.   *)
(* What a transaction has written is kept in req[r] until it commits, so a *)
(* rollback only has to release its locks.                                 *)
(*                                                                         *)
(* External (MySQL, by the way src/ uses it): a row lock is held until the *)
(* transaction ends; a plain read sees committed rows only; a locking read *)
(* sees the newest committed row; a lock wait may end in an error (1205,   *)
(* 1213), which rolls the waiting transaction back.                        *)
(***************************************************************************)
EXTENDS Naturals, FiniteSets

CONSTANTS
    Users,              \* everyone who may send a request
    Admins,             \* the users with IsAdmin
    Holes,              \* hole ids
    Requests,           \* slots for concurrently running CreateFloor handlers
    Divisions,          \* division ids
    HolePurgeDivisions, \* config HOLE_PURGE_DIVISIONS
    NoPurge,            \* holes whose no_purge column is set
    BanDivision,        \* user |-> divisions the user is banned from
    AnonyNames,         \* the 1000 names of data/names.json
    CodedNames,         \* a name with a random code appended
    MaxReply,           \* bound: replies in one hole, those in flight included
    Purger,             \* lock owner: the purge goroutine
    None                \* no user, no name, no hole, no lock owner

ASSUME RolesAssumption ==
    /\ Admins \subseteq Users
    /\ BanDivision \in [Users -> SUBSET Divisions]
    /\ None \notin Users \cup Holes \cup Divisions

ASSUME PurgeAssumption ==
    /\ HolePurgeDivisions \subseteq Divisions
    /\ NoPurge \subseteq Holes

ASSUME NamesAssumption ==
    /\ None \notin AnonyNames \cup CodedNames
    /\ AnonyNames \cap CodedNames = {}

ASSUME LockAssumption ==
    /\ Purger \notin Requests
    /\ None \notin Requests \cup {Purger}

ASSUME BoundAssumption == MaxReply \in Nat

VARIABLES
    hole,       \* table hole: one row per hole id
    floor,      \* table floor: the set of its rows
    anonyname,  \* table anonyname_mapping: hole |-> user |-> name
    holeLock,   \* who holds the exclusive lock of a hole row
    nameLock,   \* who holds the exclusive locks of a hole's name rows
    req,        \* what the handler running in a slot has in its locals
    purging     \* holeIDs: what the running purge has selected, {} without one

vars == <<hole, floor, anonyname, holeLock, nameLock, req, purging>>
\* The locks, and what a purge has selected under them.
locks == <<holeLock, nameLock, purging>>

Names == AnonyNames \cup CodedNames

HoleRow ==
    [state : {"absent", "live", "deleted"}, owner : Users \cup {None},
     division : Divisions \cup {None}, hidden : BOOLEAN, locked : BOOLEAN,
     frozen : BOOLEAN,
     stale : BOOLEAN,   \* updated_at is older than HOLE_PURGE_DAYS
     reply : Nat]

FloorRow == [hole : Holes, ranking : Nat, user : Users, name : Names,
             deleted : BOOLEAN]

Steps == {"idle", "checked", "unnamed", "named", "locked"}

Request ==
    [pc : Steps, user : Users \cup {None}, hole : Holes \cup {None},
     name : Names \cup {None},
     fresh : BOOLEAN,   \* the transaction has inserted the name itself
     ranking : Nat]

\* A slot in which no handler runs.
Idle == [pc |-> "idle", user |-> None, hole |-> None, name |-> None,
         fresh |-> FALSE, ranking |-> 0]

-----------------------------------------------------------------------------
(* Helpers *)

FloorsOf(h) == {f \in floor : f.hole = h}
Live(h) == hole[h].state = "live"

\* The names taken in a hole, as SELECT ... FOR UPDATE returns them.
TakenNames(h) == {anonyname[h][u] : u \in Users} \ {None}

\* utils.GenerateName: an unused name while there is one, a coded one after.
GenerateName(taken) ==
    IF AnonyNames \subseteq taken THEN CodedNames \ taken
                                  ELSE AnonyNames \ taken

\* An exclusive lock on row h can be granted to o.  The owner of the name
\* locks has inserted a mapping row, whose foreign key keeps the hole row
\* share-locked until that transaction ends.
HoleLockFree(h, o) == holeLock[h] \in {None, o} /\ nameLock[h] \in {None, o}

\* The names of hole h can be locked: SELECT ... WHERE hole_id = h FOR UPDATE.
NameLockFree(h) == nameLock[h] = None

\* Ending a transaction gives up every lock it holds.
Released(lock, o) == [h \in Holes |-> IF lock[h] = o THEN None ELSE lock[h]]

\* MakeHoleQuerySet: an admin's query is Unscoped, a user's skips hidden holes.
Visible(u, h) == IF u \in Admins THEN hole[h].state # "absent"
                 ELSE Live(h) /\ ~ hole[h].hidden

InFlight(h) == {r \in Requests : req[r].pc # "idle" /\ req[r].hole = h}

-----------------------------------------------------------------------------
(* Creating a hole *)

\* hole.Create: hole, first mapping and first floor commit in one transaction.
CreateHole(u, h) ==
    /\ hole[h].state = "absent"
    /\ \E d \in Divisions \ BanDivision[u], n \in AnonyNames :
          /\ hole' = [hole EXCEPT ![h] =
                        [@ EXCEPT !.state = "live", !.owner = u,
                                  !.division = d]]
          /\ anonyname' = [anonyname EXCEPT ![h] =
                             [x \in Users |-> IF x = u THEN n ELSE None]]
          /\ floor' = floor \cup {[hole |-> h, ranking |-> 0, user |-> u,
                                   name |-> n, deleted |-> FALSE]}
    /\ UNCHANGED <<locks, req>>

-----------------------------------------------------------------------------
(* Replying: the handler CreateFloor and floor.Create *)

\* The handler's permission checks, on a row read without a lock.
CheckHole(r, u, h) ==
    /\ req[r].pc = "idle"
    /\ Visible(u, h)
    /\ hole[h].division \notin BanDivision[u]
    /\ hole[h].locked => u \in Admins
    /\ hole[h].reply + Cardinality(InFlight(h)) < MaxReply
    /\ req' = [req EXCEPT ![r] = [pc |-> "checked", user |-> u, hole |-> h,
                                  name |-> None, fresh |-> FALSE,
                                  ranking |-> 0]]
    /\ UNCHANGED <<hole, floor, anonyname, locks>>

\* Begin; look the user's name up without a lock.
FindAnonyname(r) ==
    LET h == req[r].hole
        n == anonyname[h][req[r].user]
    IN /\ req[r].pc = "checked"
       /\ req' = [req EXCEPT ![r] =
                    [@ EXCEPT !.pc = IF n = None THEN "unnamed" ELSE "named",
                              !.name = n]]
       /\ UNCHANGED <<hole, floor, anonyname, locks>>

\* The primary key (hole_id, user_id) rejects a second mapping of the user.
NameExists(r) == anonyname[req[r].hole][req[r].user] # None

\* Lock all names of the hole, generate one that is not among them, insert it.
GenerateAnonyname(r) ==
    LET h == req[r].hole
    IN /\ req[r].pc = "unnamed"
       /\ NameLockFree(h)
       /\ holeLock[h] = None   \* the foreign key share-locks the hole row
       /\ IF NameExists(r)
          THEN /\ req' = [req EXCEPT ![r] = Idle]
               /\ UNCHANGED nameLock
          ELSE \E n \in GenerateName(TakenNames(h)) :
                 /\ req' = [req EXCEPT ![r] =
                              [@ EXCEPT !.pc = "named", !.name = n,
                                        !.fresh = TRUE]]
                 /\ nameLock' = [nameLock EXCEPT ![h] = r]
       /\ UNCHANGED <<hole, floor, anonyname, holeLock, purging>>

\* Mutant: the handler answers, but its transaction is left open.
RollbackForgotten(r) ==
    /\ req' = [req EXCEPT ![r] = Idle]
    /\ UNCHANGED <<hole, floor, anonyname, locks>>

\* Rollback and an error answer; nothing of the transaction is left.
Rollback(r) ==
    /\ req' = [req EXCEPT ![r] = Idle]
    /\ holeLock' = Released(holeLock, r)
    /\ nameLock' = Released(nameLock, r)
    /\ UNCHANGED <<hole, floor, anonyname, purging>>

\* Mutant: the row is taken Unscoped, soft-deleted or not.
LockHoleUnscoped(r) ==
    LET h == req[r].hole
    IN /\ req[r].pc = "named"
       /\ HoleLockFree(h, r)
       /\ holeLock' = [holeLock EXCEPT ![h] = r]
       /\ req' = [req EXCEPT ![r] =
                    [@ EXCEPT !.pc = "locked", !.ranking = hole[h].reply + 1]]
       /\ UNCHANGED <<hole, floor, anonyname, nameLock, purging>>

\* Mutant: the row is read without clause.Locking.
LockHoleUnlocked(r) ==
    LET h == req[r].hole
    IN /\ req[r].pc = "named"
       /\ Live(h)
       /\ req' = [req EXCEPT ![r] =
                    [@ EXCEPT !.pc = "locked", !.ranking = hole[h].reply + 1]]
       /\ UNCHANGED <<hole, floor, anonyname, locks>>

\* Take the hole FOR UPDATE (a soft-deleted row is not found) and count up.
LockHole(r) ==
    LET h == req[r].hole
    IN /\ req[r].pc = "named"
       /\ HoleLockFree(h, r)
       /\ IF Live(h)
          THEN /\ holeLock' = [holeLock EXCEPT ![h] = r]
               /\ req' = [req EXCEPT ![r] =
                            [@ EXCEPT !.pc = "locked",
                                      !.ranking = hole[h].reply + 1]]
               /\ UNCHANGED <<hole, floor, anonyname, nameLock, purging>>
          ELSE Rollback(r)

\* The unique index idx_hole_ranking rejects the row of request r.
RankingTaken(r) ==
    \E f \in FloorsOf(req[r].hole) : f.ranking = req[r].ranking

\* The hole row after a reply: a frozen hole's updated_at is left alone.
Replied(row, ranking) ==
    [row EXCEPT !.reply = ranking,
                !.stale = IF row.frozen THEN row.stale ELSE FALSE]

\* Insert the floor, write the hole row, commit.
InsertFloor(r) ==
    LET h == req[r].hole
        u == req[r].user
    IN /\ req[r].pc = "locked"
       /\ IF RankingTaken(r) THEN Rollback(r)
          ELSE /\ floor' = floor \cup
                     {[hole |-> h, ranking |-> req[r].ranking, user |-> u,
                       name |-> req[r].name, deleted |-> FALSE]}
               /\ hole' = [hole EXCEPT ![h] = Replied(@, req[r].ranking)]
               /\ anonyname' = IF req[r].fresh
                               THEN [anonyname EXCEPT ![h][u] = req[r].name]
                               ELSE anonyname
               /\ holeLock' = Released(holeLock, r)
               /\ nameLock' = Released(nameLock, r)
               /\ req' = [req EXCEPT ![r] = Idle]
               /\ UNCHANGED purging

\* The content check fails, a lock wait ends in an error, the connection drops.
Fail(r) ==
    /\ req[r].pc # "idle"
    /\ Rollback(r)

-----------------------------------------------------------------------------
(* Moderating a hole *)

\* One transaction under the row lock; only admins may change these columns.
ModifyHole(h) ==
    /\ Admins # {}
    /\ Live(h)
    /\ HoleLockFree(h, None)
    /\ \E d \in Divisions, hidden, locked, frozen \in BOOLEAN :
          hole' = [hole EXCEPT ![h] =
                     [@ EXCEPT !.division = d, !.hidden = hidden,
                               !.locked = locked, !.frozen = frozen]]
    /\ UNCHANGED <<floor, anonyname, locks, req>>

\* A single UPDATE; a row already hidden is not affected and answers 404.
HideHole(h) ==
    /\ Admins # {}
    /\ Live(h)
    /\ ~ hole[h].hidden
    /\ HoleLockFree(h, None)
    /\ hole' = [hole EXCEPT ![h].hidden = TRUE]
    /\ UNCHANGED <<floor, anonyname, locks, req>>

\* Soft delete by the owner or an admin; the floors stay as they are.
DeleteHole(u, h) ==
    /\ Live(h)
    /\ u = hole[h].owner \/ u \in Admins
    /\ HoleLockFree(h, None)
    /\ hole' = [hole EXCEPT ![h].state = "deleted"]
    /\ UNCHANGED <<floor, anonyname, locks, req>>

\* ModifyFloorSensitive clears a first floor: the hole is moved to the top.
ApproveFirstFloor(h) ==
    /\ Admins # {}
    /\ Live(h)
    /\ HoleLockFree(h, None)
    /\ hole' = [hole EXCEPT ![h].stale = FALSE]
    /\ UNCHANGED <<floor, anonyname, locks, req>>

-----------------------------------------------------------------------------
(* The purge *)

\* HOLE_PURGE_DAYS pass without a write to updated_at.
Age(h) ==
    /\ Live(h)
    /\ ~ hole[h].stale
    /\ hole' = [hole EXCEPT ![h].stale = TRUE]
    /\ UNCHANGED <<floor, anonyname, locks, req>>

PurgeTargets ==
    {h \in Holes \ NoPurge :
        Live(h) /\ hole[h].stale /\ hole[h].division \in HolePurgeDivisions}

\* Mutant: the holes are selected without clause.Locking.
PurgeSelectUnlocked ==
    /\ purging = {}
    /\ PurgeTargets # {}
    /\ purging' = PurgeTargets
    /\ UNCHANGED <<hole, floor, anonyname, holeLock, nameLock, req>>

\* Select the holes to purge FOR UPDATE; the scan waits for every locked row.
PurgeSelect ==
    /\ purging = {}
    /\ \A h \in Holes : HoleLockFree(h, Purger)
    /\ PurgeTargets # {}
    /\ purging' = PurgeTargets
    /\ holeLock' = [h \in Holes |-> IF h \in PurgeTargets THEN Purger
                                                          ELSE holeLock[h]]
    /\ UNCHANGED <<hole, floor, anonyname, nameLock, req>>

\* Back the floors up, mark them deleted, soft delete the holes, commit.
PurgeCommit ==
    /\ purging # {}
    /\ floor' = {IF f.hole \in purging THEN [f EXCEPT !.deleted = TRUE] ELSE f
                    : f \in floor}
    /\ hole' = [h \in Holes |-> IF h \in purging /\ Live(h)
                                THEN [hole[h] EXCEPT !.state = "deleted"]
                                ELSE hole[h]]
    /\ purging' = {}
    /\ holeLock' = Released(holeLock, Purger)
    /\ UNCHANGED <<anonyname, nameLock, req>>

\* An error in the purge transaction; the next tick tries again.
PurgeFail ==
    /\ purging # {}
    /\ purging' = {}
    /\ holeLock' = Released(holeLock, Purger)
    /\ UNCHANGED <<hole, floor, anonyname, nameLock, req>>

-----------------------------------------------------------------------------
Init ==
    /\ hole = [h \in Holes |->
                 [state |-> "absent", owner |-> None, division |-> None,
                  hidden |-> FALSE, locked |-> FALSE, frozen |-> FALSE,
                  stale |-> FALSE, reply |-> 0]]
    /\ floor = {}
    /\ anonyname = [h \in Holes |-> [u \in Users |-> None]]
    /\ holeLock = [h \in Holes |-> None]
    /\ nameLock = [h \in Holes |-> None]
    /\ req = [r \in Requests |-> Idle]
    /\ purging = {}

\* The steps a running handler takes on its way to an answer.
Progress(r) == \/ FindAnonyname(r) \/ GenerateAnonyname(r)
               \/ LockHole(r) \/ InsertFloor(r)

RequestStep(r) ==
    \/ \E u \in Users, h \in Holes : CheckHole(r, u, h)
    \/ Progress(r)
    \/ Fail(r)

\* The operations that write a hole row while holding its lock for one step.
Moderation(h) ==
    \/ ModifyHole(h)
    \/ HideHole(h)
    \/ \E u \in Users : DeleteHole(u, h)
    \/ ApproveFirstFloor(h)

HoleStep(h) ==
    \/ \E u \in Users : CreateHole(u, h)
    \/ Moderation(h)
    \/ Age(h)

Next ==
    \/ \E r \in Requests : RequestStep(r)
    \/ \E h \in Holes : HoleStep(h)
    \/ PurgeSelect
    \/ PurgeCommit
    \/ PurgeFail

Spec == Init /\ [][Next]_vars

\* A handler runs on until it answers, and InnoDB grants a row lock to its
\* waiters in order, so a lock that is free again and again is obtained.
FairSpec ==
    /\ Spec
    /\ \A r \in Requests : SF_vars(Progress(r))
    /\ WF_vars(PurgeCommit)

-----------------------------------------------------------------------------
(* Properties *)

\* Every row of the tables and every local has the type the code gives it:
\* models.Hole, models.Floor, models.AnonynameMapping.
TypeOK ==
    /\ hole \in [Holes -> HoleRow]
    /\ floor \subseteq FloorRow
    /\ anonyname \in [Holes -> [Users -> Names \cup {None}]]
    /\ holeLock \in [Holes -> Requests \cup {Purger, None}]
    /\ nameLock \in [Holes -> Requests \cup {None}]
    /\ req \in [Requests -> Request]
    /\ purging \subseteq Holes

\* Concurrent replies never leave a gap in a hole's rankings, and its reply
\* column is the number of floors minus one (Hole.Reply).
RankingsDense ==
    \A h \in Holes : {f.ranking : f \in FloorsOf(h)} =
                        IF hole[h].state = "absent" THEN {} ELSE 0..hole[h].reply

\* No two floors of a hole share a ranking (the unique index
\* idx_hole_ranking), whichever replies race.
RankingsUnique ==
    \A f, g \in floor : f.hole = g.hole /\ f.ranking = g.ranking => f = g

\* The ranking a reply is about to insert is never taken: the row lock, and
\* not the unique index, decides between concurrent replies.
IndexNeverRejects ==
    \A r \in Requests : req[r].pc = "locked" => ~ RankingTaken(r)

\* Two users of a hole never share an anonymous name, even if both join the
\* hole at the same moment (FindOrGenerateAnonyname).
NamesDistinct ==
    \A h \in Holes : \A u, v \in Users :
        anonyname[h][u] = anonyname[h][v] /\ anonyname[h][u] # None => u = v

\* All floors a user writes in a hole carry the one name mapped to the user.
OneNamePerUser ==
    \A f \in floor : f.name = anonyname[f.hole][f.user]

\* The purge leaves nothing behind: if one floor of a hole was deleted by it,
\* all are, and the hole is gone; no reply in flight slips in afterwards.
PurgeIsTotal ==
    \A f \in floor : f.deleted =>
        /\ hole[f.hole].state = "deleted"
        /\ \A g \in FloorsOf(f.hole) : g.deleted

\* Row f is a reply that is not in the table yet.
NewReply(f) ==
    /\ f.ranking > 0
    /\ \A g \in FloorsOf(f.hole) : g.ranking # f.ranking

\* A reply whose checks passed before the hole was deleted is not stored.
NoReplyToDeletedHole ==
    [][\A f \in floor' : NewReply(f) => Live(f.hole)]_vars

\* What the purge deletes is still stale, purgeable and not protected at the
\* moment it is deleted, although the holes were selected in an earlier step.
PurgeOnlyTargets ==
    [][\A f \in floor : (~ f.deleted /\ [f EXCEPT !.deleted = TRUE] \in floor')
          => f.hole \in PurgeTargets]_vars

\* Every handler that started gets to an answer: no lock is waited for
\* forever, whatever the other handlers, the admins and the purge do.
RequestsEnd == \A r \in Requests : req[r].pc # "idle" ~> req[r].pc = "idle"

-----------------------------------------------------------------------------
(* The inductive invariant behind the safety properties *)

\* A started handler knows its user and hole; past the lookup it has a name.
LocalOK(q) ==
    /\ q.pc # "idle" => q.user \in Users /\ q.hole \in Holes
    /\ q.pc \in {"named", "locked"} => q.name \in Names
    /\ q.fresh => q.pc \in {"named", "locked"}

LocalsOK == \A r \in Requests : LocalOK(req[r])

\* Between its locking read and its insert a handler holds the row lock, and
\* while it does the ranking it computed stays the next one.
RowLock(r) ==
    req[r].pc = "locked" =>
        /\ holeLock[req[r].hole] = r
        /\ Live(req[r].hole)
        /\ req[r].ranking = hole[req[r].hole].reply + 1

\* A name a transaction has inserted is unused and its hole's names are locked;
\* a name it has only read is the committed one.
NameOK(r) ==
    req[r].pc \in {"named", "locked"} =>
        IF req[r].fresh
        THEN /\ nameLock[req[r].hole] = r
             /\ anonyname[req[r].hole][req[r].user] = None
             /\ req[r].name \notin TakenNames(req[r].hole)
        ELSE req[r].name = anonyname[req[r].hole][req[r].user]

\* What the purge has selected is locked, and stays a target until it commits.
PurgeInv ==
    /\ purging \subseteq PurgeTargets
    /\ \A h \in purging : holeLock[h] = Purger

\* A hole that does not exist yet has no reply and no handler at work.
AbsentInv ==
    \A h \in Holes : hole[h].state = "absent" =>
        /\ hole[h].reply = 0
        /\ \A r \in Requests : req[r].hole # h

HandlersInv ==
    /\ \A r \in Requests : RowLock(r) /\ NameOK(r)
    /\ PurgeInv
    /\ AbsentInv

TablesInv ==
    /\ RankingsDense /\ RankingsUnique
    /\ NamesDistinct /\ OneNamePerUser
    /\ PurgeIsTotal

\* All of it together; each part is preserved with the help of the others.
IInv == TypeOK /\ LocalsOK /\ HandlersInv /\ TablesInv

-----------------------------------------------------------------------------
(* The promise to readers *)

\* The floors of a hole in the order of their rankings, as clients list them.
Thread(h) ==
    IF hole[h].state = "absent" THEN <<>>
    ELSE [i \in 1..(hole[h].reply + 1) |->
            LET f == CHOOSE f \in FloorsOf(h) : f.ranking = i - 1
            IN [user |-> f.user, name |-> f.name, deleted |-> f.deleted]]

HT == INSTANCE HoleThread WITH
        thread <- [h \in Holes |-> Thread(h)],
        state <- [h \in Holes |-> hole[h].state]

\* With all its handlers and locks the write path still is a thread that only
\* grows at its end, under consistent names, until it is closed.
ImplementsThread == HT!Spec

=============================================================================
