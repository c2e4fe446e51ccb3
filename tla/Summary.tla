------------------------------ MODULE Summary ------------------------------
(***************************************************************************)
(* GenerateSummary: users ask for the summary of a hole, which another     *)
(* service writes.  The answer is kept in the cache under a version, the   *)
(* number of replies rounded down.  A request finds the summary there, or  *)
(* the mark that it is being written - then it asks the service - or       *)
(* nothing - then it sends the floors of the hole to the service.  The     *)
(* service knows the hole but no version.                                  *)
(*                                                                         *)
(* There is one hole.  Every call of the cache, the database or the        *)
(* service is a step.  The row of the hole and the floors are read from    *)
(* any replica of the database, each read from another one as may be, the  *)
(* texts that wait for a review from the source.  A summary is the number  *)
(* of replies it was made from.  Who is on the white list, and the tags    *)
(* and lengths of texts that decide about summaries, are one choice.       *)
(***************************************************************************)
EXTENDS Integers, FiniteSets, Sequences, SequencesExt

CONSTANTS
    Requests,
    Replicas,        \* the databases that follow the source
    SummarySteps, SummaryReplyBoundary1, SummaryReplyBoundary2,
    SummaryReplyBoundary3,
    MaxSummaryFloors,
    FirstReply,      \* the replies at the start
    FirstLike,       \* ranking |-> likes at the start
    MaxReply,        \* bound: replies
    MaxChange,       \* bound: edits, likes, reviews and closings
    Touched,         \* bound: floors that are edited, liked or reviewed
    MaxServed        \* bound: requests for a summary

Replies == FirstReply..MaxReply

Rankings == 0..MaxReply

BoundsOK ==
    /\ FirstReply \in Nat /\ MaxReply \in Nat /\ FirstReply <= MaxReply
    /\ FirstLike \in [Rankings -> Nat]
    /\ MaxChange \in Nat /\ MaxServed \in Nat /\ MaxSummaryFloors \in Nat

\* Otherwise the versions of a growing hole go back; true of the defaults
\* (5, 50, 200, 1000).
StepsOK ==
    /\ SummarySteps \in Nat \ {0}
    /\ SummaryReplyBoundary1 \in Nat /\ SummaryReplyBoundary2 \in Nat
    /\ SummaryReplyBoundary3 \in Nat
    /\ SummaryReplyBoundary1 <= SummaryReplyBoundary2
    /\ SummaryReplyBoundary2 <= SummaryReplyBoundary3
    /\ SummaryReplyBoundary1 % (2 * SummarySteps) = 0
    /\ SummaryReplyBoundary2 % (4 * SummarySteps) = 0
    /\ SummaryReplyBoundary3 % (10 * SummarySteps) = 0

ASSUME SettingsAssumption == BoundsOK /\ StepsOK

VARIABLES
    updated,  \* the floors, by ranking, in the order of UpdatedAt
    like,     \* ranking |-> likes
    held,     \* floors stopped by the check that no admin has looked at
    closed,   \* the hole is locked, hidden or frozen
    replica,  \* replica |-> the hole and its floors as far as it has them
    cache,    \* version |-> nothing, the mark, or a summary
    job,      \* the service: the floors it was sent last, and whether it is done
    req,      \* request |-> where it is and its locals
    changes,  \* bound: how many changes there were
    asked,    \* bound: how many requests there were
    crossed   \* history: floors arrived at the service after newer ones, or were
              \* read from an older copy than the hole

summaryVars ==
    <<updated, like, held, closed, replica, cache, job, req, changes, asked, crossed>>

hole == <<updated, like, held, closed, replica, changes>>

Reply == Len(updated) - 1

\* What a read outside a transaction may be answered from.
Source == [updated |-> updated, like |-> like, closed |-> closed]
Copies == {Source} \cup {replica[s] : s \in Replicas}

RepliesIn(c) == Len(c.updated) - 1

\* Mutant: the second boundary is off by one and the third forgotten.
StepSame(n) ==
    CASE n <= SummaryReplyBoundary1 -> SummarySteps
      [] n > SummaryReplyBoundary1 /\ n < SummaryReplyBoundary2 -> 2 * SummarySteps
      [] OTHER -> 10 * SummarySteps

StepOf(n) ==
    CASE n <= SummaryReplyBoundary1 -> SummarySteps
      [] n > SummaryReplyBoundary1 /\ n <= SummaryReplyBoundary2 -> 2 * SummarySteps
      [] n > SummaryReplyBoundary2 /\ n <= SummaryReplyBoundary3 -> 4 * SummarySteps
      [] OTHER -> 10 * SummarySteps

\* Hole.SummaryCacheName.
Version(n) == n - (n % StepOf(n))

Versions == {Version(n) : n \in Replies}

Nothing == [code |-> 0]

Mark == [code |-> 1001]

Finished(n) == [code |-> 1000, basis |-> n]

Entry == {Nothing, Mark} \cup {Finished(n) : n \in Replies}

NoJob == [state |-> "none"]

Job == {NoJob} \cup [state : {"running", "finished"}, basis : Replies]

\* A handler serves one request after the other.  entry is what it will store,
\* floors what it sends, basis the replies it read last, first those of the hole
\* and then those of the floors.  behind, a history: there is a summary for its
\* version that it has not seen; news: held floors it cannot know of.
Idle == [step |-> "idle", version |-> 0, force |-> FALSE, behind |-> FALSE,
         news |-> {}, entry |-> Nothing, basis |-> 0, floors |-> {}]

Request ==
    [step : {"idle", "count", "refresh", "look", "poll", "save", "drop", "generate", "post",
             "mark"},
     version : Nat, force : BOOLEAN, behind : BOOLEAN, news : SUBSET Rankings,
     entry : Entry, basis : Nat, floors : SUBSET Rankings]

Stepped(r, step) == [req[r] EXCEPT !.step = step]

To(r, q) == req' = [req EXCEPT ![r] = q]

At(r, step) == req[r].step = step

\* Requests that act on what they found under a version.
Looked(r) == req[r].step \in {"poll", "save", "drop", "generate", "post", "mark"}

-----------------------------------------------------------------------------
(* The hole *)

\* A floor that is saved comes last.
ChangedLast(f) ==
    LET k == CHOOSE i \in DOMAIN updated : updated[i] = f
    IN [i \in DOMAIN updated |->
          IF i < k THEN updated[i]
          ELSE IF i < Len(updated) THEN updated[i + 1] ELSE f]

\* Requests that have found no held floor learn nothing of this one.
NowHeld(f) ==
    req' = [r \in Requests |-> IF req[r] = Idle THEN Idle
                               ELSE [req[r] EXCEPT !.news = @ \cup {f}]]

\* Mutant: the number of replies before it.
NextRankingOld == Reply

\* hole.Reply++; floor.Ranking = hole.Reply.
NextRanking == Reply + 1

AddFloor(sensitive) ==
    LET f == NextRanking
    IN /\ Reply < MaxReply
       /\ updated' = Append(updated, f)
       /\ IF sensitive THEN held' = held \cup {f} /\ NowHeld(f)
          ELSE UNCHANGED <<held, req>>
       /\ UNCHANGED <<like, closed, replica, changes, cache, job, crossed, asked>>

Change == /\ changes < MaxChange
          /\ changes' = changes + 1
          /\ UNCHANGED <<replica, cache, job, crossed, asked>>

\* ModifyFloor: the new text is checked again.
EditFloor(f, sensitive) ==
    /\ Change
    /\ updated' = ChangedLast(f)
    /\ IF sensitive THEN held' = held \cup {f} /\ NowHeld(f)
       ELSE held' = held \ {f} /\ UNCHANGED req
    /\ UNCHANGED <<like, closed>>

\* A like or its end; saving the number changes UpdatedAt too.
LikeFloor(f, n) ==
    /\ Change
    /\ like' = [like EXCEPT ![f] = n]
    /\ updated' = ChangedLast(f)
    /\ UNCHANGED <<held, closed, req>>

\* ModifyFloorSensitive: a floor is let pass, or deleted.
ReviewFloor(f, sensitive) ==
    /\ Change
    /\ f \in held
    /\ held' = held \ {f}
    /\ updated' = IF sensitive THEN ChangedLast(f) ELSE updated
    /\ UNCHANGED <<like, closed, req>>

\* The hole is locked, hidden or frozen, or no longer.
CloseHole ==
    /\ Change
    /\ closed' = ~ closed
    /\ UNCHANGED <<updated, like, held, req>>

\* A replica has applied all that the source committed.
CatchUp(s) ==
    /\ replica' = [replica EXCEPT ![s] = Source]
    /\ UNCHANGED <<updated, like, held, closed, changes, cache, job, req, crossed, asked>>

-----------------------------------------------------------------------------
(* A request *)

\* The row of the hole is read.
Load(r, force) ==
    /\ At(r, "idle") /\ asked < MaxServed
    /\ asked' = asked + 1
    /\ \E c \in Copies :
          IF c.closed THEN UNCHANGED req
          ELSE To(r, [Idle EXCEPT !.step = "count", !.force = force,
                                  !.version = Version(RepliesIn(c)),
                                  !.basis = RepliesIn(c)])
    /\ UNCHANGED <<hole, cache, job, crossed>>

\* Mutant: held floors do not matter.
AvailableHeld == TRUE

\* Holes.Preprocess, for an open hole with enough replies or text.
Available == held = {}

\* Held floors are counted; the error of the query is ignored, and then none
\* were found.  Whatever else fails is the answer.
CountHeld(r) ==
    LET Going(news) ==
          To(r, [Stepped(r, IF req[r].force THEN "refresh" ELSE "look")
                   EXCEPT !.news = news])
    IN /\ At(r, "count")
       /\ \/ Available /\ Going({})
          \/ Going(held)
          \/ To(r, Idle)
       /\ UNCHANGED <<hole, cache, job, crossed, asked>>

\* force_refresh.
Refresh(r) ==
    /\ At(r, "refresh")
    /\ cache' = [cache EXCEPT ![req[r].version] = Nothing]
    /\ To(r, Stepped(r, "look"))
    /\ UNCHANGED <<hole, job, crossed, asked>>

\* Mutant: a summary is asked for again.
LookAgain(r) ==
    LET found == cache[req[r].version]
    IN /\ At(r, "look")
       /\ To(r, IF found = Nothing THEN Stepped(r, "generate") ELSE Stepped(r, "poll"))
       /\ UNCHANGED <<hole, cache, job, crossed, asked>>

\* A summary is the answer; the mark makes the request ask the service.  If the
\* cache gives an error, it is as if nothing were there.
Look(r) ==
    LET found == cache[req[r].version]
    IN /\ At(r, "look")
       /\ \/ To(r, CASE found = Nothing -> Stepped(r, "generate")
                     [] found = Mark -> Stepped(r, "poll")
                     [] OTHER -> Idle)
          \/ To(r, [Stepped(r, "generate") EXCEPT !.behind = @ \/ found.code = 1000])
       /\ UNCHANGED <<hole, cache, job, crossed, asked>>

\* get_summary fails (the request is answered with an error), says that there is
\* no summary to come, or gives what the service has.  An answer without a code
\* leaves that of the mark.
Poll(r) ==
    /\ At(r, "poll")
    /\ \/ To(r, Idle)
       \/ To(r, Stepped(r, "drop"))
       \/ To(r, [Stepped(r, "save") EXCEPT !.entry = Mark])
       \/ /\ job.state = "finished"
          /\ To(r, [Stepped(r, "save") EXCEPT !.entry = Finished(job.basis)])
    /\ UNCHANGED <<hole, cache, job, crossed, asked>>

\* Requests of this version that looked before r stored a summary for it.
Behind(r) == {q \in Requests \ {r} : Looked(q) /\ req[q].version = req[r].version}

\* Mutant: the renewed entry goes to the version the hole has now.
RenewedNow(r) == [cache EXCEPT ![Version(Reply)] = req[r].entry]

Renewed(r) == [cache EXCEPT ![req[r].version] = req[r].entry]

\* The cache is renewed.
Save(r) ==
    LET entry == req[r].entry
    IN /\ At(r, "save")
       /\ cache' = Renewed(r)
       /\ req' = [q \in Requests |->
                    IF q = r THEN Idle
                    ELSE IF q \in Behind(r) /\ entry # Mark
                         THEN [req[q] EXCEPT !.behind = TRUE]
                    ELSE req[q]]
       /\ UNCHANGED <<hole, job, crossed, asked>>

\* What is in the cache is of no use.
Drop(r) ==
    /\ At(r, "drop")
    /\ cache' = [cache EXCEPT ![req[r].version] = Nothing]
    /\ To(r, Stepped(r, "generate"))
    /\ UNCHANGED <<hole, job, crossed, asked>>

Oldest(c) == {c.updated[i] : i \in 1..(MaxSummaryFloors \div 5)}

Newest(c) ==
    LET n == Len(c.updated)
    IN {c.updated[i] : i \in (n + 1 - (MaxSummaryFloors \div 5) * 2)..n}

\* The n floors with most likes; floors with as many are shuffled.
Chosen(c, middle, n) ==
    {S \in SUBSET middle :
        Cardinality(S) = n /\ \A f \in S, g \in middle \ S : c.like[f] >= c.like[g]}

\* The floors that are sent: all, or a fifth of the oldest, two fifths of the
\* newest and the most liked of those between.
Selections(c) ==
    LET all == ToSet(c.updated)
        ends == Oldest(c) \cup Newest(c)
    IN IF Len(c.updated) <= MaxSummaryFloors THEN {all}
       ELSE {ends \cup S : S \in Chosen(c, all \ ends, MaxSummaryFloors - Cardinality(ends))}

\* The floors are read, maybe from an older copy than the hole.
ReadFloors(r) ==
    /\ At(r, "generate")
    /\ \E c \in Copies :
          /\ \E S \in Selections(c) :
                To(r, [Stepped(r, "post") EXCEPT !.basis = RepliesIn(c), !.floors = S])
          /\ crossed' = (crossed \/ RepliesIn(c) < req[r].basis)
    /\ UNCHANGED <<hole, cache, job, asked>>

\* generate_summary is refused or fails, or the service takes the floors; it may
\* have the summary at once, and its answer may be lost.
Post(r) ==
    /\ At(r, "post")
    /\ \/ To(r, Idle) /\ UNCHANGED <<job, crossed>>
       \/ /\ \E state \in {"running", "finished"} :
                job' = [state |-> state, basis |-> req[r].basis]
          /\ crossed' = (crossed \/ (job # NoJob /\ job.basis > req[r].basis))
          /\ \/ To(r, [Stepped(r, "mark") EXCEPT !.basis = 0, !.floors = {}])
             \/ To(r, Idle)
    /\ UNCHANGED <<hole, cache, asked>>

Marked(r) == [cache EXCEPT ![req[r].version] = Mark]

\* The mark is stored and the request answered: started.
SetMark(r) ==
    /\ At(r, "mark")
    /\ cache' = Marked(r)
    /\ To(r, Idle)
    /\ UNCHANGED <<hole, job, crossed, asked>>

\* The entry cannot be stored; only the log hears of it.
FailCache(r) ==
    /\ \/ req[r].step \in {"save", "mark"} /\ To(r, Idle)
       \/ At(r, "drop") /\ To(r, Stepped(r, "generate"))
       \/ At(r, "refresh") /\ To(r, Stepped(r, "look"))
    /\ UNCHANGED <<hole, cache, job, crossed, asked>>

\* The floors cannot be read.
FailRead(r) ==
    /\ At(r, "generate")
    /\ To(r, Idle)
    /\ UNCHANGED <<hole, cache, job, crossed, asked>>

-----------------------------------------------------------------------------
(* The service and the cache *)

FinishJob ==
    /\ job.state = "running"
    /\ job' = [job EXCEPT !.state = "finished"]
    /\ UNCHANGED <<hole, cache, req, crossed, asked>>

\* An entry lives for a day; in memory it is gone after a restart.
Expire(v) ==
    /\ cache[v] # Nothing
    /\ cache' = [cache EXCEPT ![v] = Nothing]
    /\ UNCHANGED <<hole, job, req, crossed, asked>>

-----------------------------------------------------------------------------
SummaryInit ==
    /\ updated = [i \in 1..(FirstReply + 1) |-> i - 1]
    /\ like = FirstLike
    /\ held = {} /\ closed = FALSE
    /\ cache = [v \in Versions |-> Nothing]
    /\ job = NoJob
    /\ req = [r \in Requests |-> Idle]
    /\ replica = [s \in Replicas |-> Source]
    /\ changes = 0 /\ asked = 0 /\ crossed = FALSE

Floor ==
    \/ \E b \in BOOLEAN : AddFloor(b)
    \/ \E f \in Touched \cap ToSet(updated) :
          \/ \E n \in {like[f] - 1, like[f] + 1} \cap Nat : LikeFloor(f, n)
          \/ \E b \in BOOLEAN : EditFloor(f, b) \/ ReviewFloor(f, b)

GenerateSummary(r) ==
    \/ \E force \in BOOLEAN : Load(r, force)
    \/ CountHeld(r) \/ Refresh(r) \/ Look(r) \/ Poll(r) \/ Save(r) \/ Drop(r)
    \/ ReadFloors(r) \/ Post(r) \/ SetMark(r) \/ FailCache(r) \/ FailRead(r)

SummaryNext ==
    \/ Floor \/ CloseHole
    \/ \E s \in Replicas : CatchUp(s)
    \/ \E r \in Requests : GenerateSummary(r)
    \/ FinishJob
    \/ \E v \in Versions : Expire(v)

SummarySpec == SummaryInit /\ [][SummaryNext]_summaryVars

-----------------------------------------------------------------------------
(* Properties *)

\* A copy of the hole, with replies the hole has had.
CopyOK(c) ==
    /\ c \in [updated : Seq(Nat), like : [Rankings -> Nat], closed : BOOLEAN]
    /\ ToSet(c.updated) = 0..RepliesIn(c) /\ RepliesIn(c) \in FirstReply..Reply

\* The floors are ordered without gaps; entries, the job and the requests have
\* the fields their step uses.
SummaryTypeOK ==
    /\ Reply \in Replies /\ \A c \in Copies : CopyOK(c)
    /\ DOMAIN replica = Replicas /\ held \subseteq 0..Reply
    /\ crossed \in BOOLEAN
    /\ cache \in [Versions -> Entry] /\ job \in Job
    /\ req \in [Requests -> Request]
    /\ \A r \in Requests :
          /\ ~ At(r, "idle") => req[r].version \in Versions
          /\ At(r, "save") => req[r].entry # Nothing
          /\ At(r, "post") => req[r].basis \in Replies /\ req[r].floors \subseteq 0..Reply

\* A summary stored for a version was made from at least as many replies, unless
\* the floors of an earlier request had reached the service after those of a
\* later one, or floors had been read from a copy with fewer replies than the
\* hole; the service is asked by the hole alone.
SummaryCurrent ==
    ~ crossed => \A v \in Versions : cache[v].code = 1000 => cache[v].basis >= v

\* No text that waits for a review is sent to the service, unless it came after
\* the request had looked for such texts, or that query failed: the query for the
\* floors leaves none out, and the text of the first floor is sent besides.
HeldNotSent ==
    \A r \in Requests :
        At(r, "post") => (req[r].floors \cup {0}) \cap held \subseteq req[r].news

\* A stored summary is replaced or dropped only by a request that was told to, or
\* by one that had looked before the summary was stored, or could not see it for
\* an error of the cache; it may expire.
SummaryKept ==
    [][\A v \in Versions :
          cache[v].code = 1000 /\ cache'[v] # cache[v] =>
             \/ cache'[v] = Nothing /\ UNCHANGED req
             \/ \E r \in Requests :
                   /\ req[r] # req'[r] /\ req[r] # Idle
                   /\ req[r].version = v
                   /\ req[r].force \/ req[r].behind]_summaryVars

\* Versions follow the hole: no reply takes the hole back to an older version,
\* under which a summary of fewer replies may be stored.
VersionsGrow == [][Version(Reply') >= Version(Reply)]_updated

-----------------------------------------------------------------------------
(* The inductive invariant *)

\* Requests that have not read the floors.
Reading(r) == req[r].step \notin {"idle", "post", "mark"}

\* A request asks for a version the hole has reached; only one that is to renew
\* the summary drops it first.
RequestInv ==
    \A r \in Requests :
        /\ At(r, "idle") => req[r] = Idle
        /\ At(r, "refresh") => req[r].force
        /\ req[r].version <= Reply
        /\ Reading(r) => req[r].version <= req[r].basis
        /\ ~ At(r, "idle") /\ ~ At(r, "count") => held \subseteq req[r].news

\* A request that has looked, and finds a summary now, is behind.
BehindInv ==
    \A r \in Requests :
        Looked(r) /\ cache[req[r].version].code = 1000 => req[r].force \/ req[r].behind

\* The service was sent at least as many replies as the version says, for each
\* version that is marked and each request that was told so or has told it.
SentInv ==
    ~ crossed =>
      /\ \A v \in Versions : cache[v] = Mark => job # NoJob /\ job.basis >= v
      /\ \A r \in Requests :
            /\ At(r, "post") => req[r].basis >= req[r].version
            /\ At(r, "poll") \/ At(r, "save") \/ At(r, "mark") =>
                  job # NoJob /\ job.basis >= req[r].version
            /\ At(r, "save") /\ req[r].entry # Mark =>
                  req[r].entry.basis >= req[r].version

SummaryIInv ==
    /\ SummaryTypeOK /\ RequestInv /\ BehindInv /\ SentInv
    /\ SummaryCurrent /\ HeldNotSent
=============================================================================
