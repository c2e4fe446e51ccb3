--------------------------- MODULE ServicesProofs ---------------------------
(***************************************************************************)
(* Proofs about the two modules whose handlers ask another service.        *)
(*                                                                         *)
(* ContentCheck, for any texts, tables and number of checks: nothing       *)
(* passes that was not let pass in every part, and what was found is       *)
(* described by one whole table.                                           *)
(*                                                                         *)
(* Summary, for any settings that meet its assumption and any number of    *)
(* requests: a summary is of the replies its version says unless texts     *)
(* crossed on their way to the service, no text that waits for a review    *)
(* is sent, a summary is replaced only by one who was told to or had       *)
(* looked before it came, and versions do not go back.                     *)
(***************************************************************************)
EXTENDS ContentCheck, Summary, SequenceTheorems, FiniteSetTheorems, TLAPS

-----------------------------------------------------------------------------
(* The summaries: versions *)

\* Division with a rest.
LEMMA Division ==
    ASSUME NEW n \in Nat, NEW s \in Nat, s > 0
    PROVE  \E q, r \in Nat : r = n % s /\ r < s /\ n = s * q + r
<1>1. PICK q \in Int : q = n \div s
  OBVIOUS
<1>2. PICK r \in Int : r = n % s
  OBVIOUS
<1>3. q >= 0 /\ r >= 0 /\ r < s
  BY <1>1, <1>2
<1>4. n = s * q + r
  BY <1>1, <1>2, Z3
<1> QED
  BY <1>2, <1>3, <1>4

\* A larger factor makes the product larger by the other factor at least.
LEMMA MoreTimes ==
    ASSUME NEW s \in Nat, NEW p \in Nat, NEW q \in Nat, p < q
    PROVE  s * p + s <= s * q
<1>1. PICK d \in Nat : q = p + 1 + d
  <2>1. q - p - 1 \in Nat /\ q = p + 1 + (q - p - 1)
    OBVIOUS
  <2> QED
    BY <2>1
<1>2. s * q = s * p + s + s * d
  BY <1>1
<1>3. s * p \in Nat /\ s * d \in Nat
  OBVIOUS
<1> QED
  BY <1>2, <1>3

\* Rounding down to multiples of one step keeps the order.
LEMMA RoundedGrow ==
    ASSUME NEW s \in Nat, s > 0, NEW m \in Nat, NEW n \in Nat, m <= n
    PROVE  /\ m - (m % s) <= n - (n % s)
           /\ m - (m % s) \in 0..m
<1>1. PICK p \in Nat, a \in Nat : a = m % s /\ a < s /\ m = s * p + a
  BY Division
<1>2. PICK q \in Nat, b \in Nat : b = n % s /\ b < s /\ n = s * q + b
  BY Division
<1>3. s * p \in Nat /\ s * q \in Nat
  OBVIOUS
<1>4. s * p <= s * q
  <2>1. CASE p <= q
    <3>1. CASE p = q
      BY <1>3, <3>1
    <3>2. CASE p < q
      BY <1>3, <3>2, MoreTimes
    <3> QED
      BY <2>1, <3>1, <3>2
  <2>2. CASE q < p
    <3>1. s * q + s <= s * p
      BY <2>2, MoreTimes
    <3> QED
      BY <1>1, <1>2, <1>3, <3>1
  <2> QED
    BY <2>1, <2>2
<1>5. m - (m % s) = s * p /\ n - (n % s) = s * q
  BY <1>1, <1>2, <1>3
<1> QED
  BY <1>1, <1>3, <1>4, <1>5

LEMMA StepPositive ==
    ASSUME StepsOK, NEW n \in Nat
    PROVE  StepOf(n) \in Nat /\ StepOf(n) > 0
BY DEF StepsOK, StepOf

LEMMA VersionBound ==
    ASSUME StepsOK, NEW n \in Nat
    PROVE  Version(n) \in 0..n
<1>1. PICK s \in Nat : s = StepOf(n) /\ s > 0
  BY StepPositive
<1>2. n - (n % s) \in 0..n
  BY <1>1, RoundedGrow
<1> QED
  BY <1>1, <1>2 DEF Version

\* Past a boundary the versions are no smaller than it, for it is a multiple of
\* the step from there on.
LEMMA VersionBeyond ==
    ASSUME StepsOK, NEW b \in Nat, NEW n \in Nat, b <= n, b % StepOf(n) = 0
    PROVE  b <= Version(n)
<1>1. PICK s \in Nat : s = StepOf(n) /\ s > 0
  BY StepPositive
<1>2. b - (b % s) <= n - (n % s)
  BY <1>1, RoundedGrow
<1>3. n % s \in Nat
  BY <1>1
<1> QED
  BY <1>1, <1>2, <1>3 DEF Version

\* More replies never have an older version.
LEMMA VersionGrows ==
    ASSUME StepsOK, NEW m \in Nat, NEW n \in Nat, m <= n
    PROVE  Version(m) <= Version(n)
<1>1. Version(m) \in 0..m /\ Version(n) \in 0..n
  BY VersionBound
<1>2. CASE StepOf(m) = StepOf(n)
  <2>1. PICK s \in Nat : s = StepOf(n) /\ s > 0
    BY StepPositive
  <2>2. m - (m % s) <= n - (n % s)
    BY <2>1, RoundedGrow
  <2> QED
    BY <1>2, <2>1, <2>2 DEF Version
<1>3. ASSUME NEW b \in Nat, m <= b, b <= n, b % StepOf(n) = 0
      PROVE  Version(m) <= Version(n)
  <2>1. b <= Version(n)
    BY <1>3, VersionBeyond
  <2> QED
    BY <1>1, <1>3, <2>1
<1>4. CASE StepOf(m) # StepOf(n)
  <2> DEFINE B1 == SummaryReplyBoundary1
             B2 == SummaryReplyBoundary2
             B3 == SummaryReplyBoundary3
  <2>1. B1 \in Nat /\ B2 \in Nat /\ B3 \in Nat /\ B1 <= B2 /\ B2 <= B3
    BY DEF StepsOK
  <2>2. CASE n <= B1
    BY <1>4, <2>1, <2>2 DEF StepOf
  <2>3. CASE n > B1 /\ n <= B2
    <3>1. StepOf(n) = 2 * SummarySteps
      BY <2>1, <2>3 DEF StepOf
    <3>2. m <= B1
      BY <1>4, <2>1, <2>3, <3>1 DEF StepOf
    <3>3. B1 % StepOf(n) = 0
      BY <3>1 DEF StepsOK
    <3> QED
      BY <1>3, <2>1, <2>3, <3>2, <3>3
  <2>4. CASE n > B2 /\ n <= B3
    <3>1. StepOf(n) = 4 * SummarySteps
      BY <2>1, <2>4 DEF StepOf
    <3>2. m <= B2
      BY <1>4, <2>1, <2>4, <3>1 DEF StepOf
    <3>3. B2 % StepOf(n) = 0
      BY <3>1 DEF StepsOK
    <3> QED
      BY <1>3, <2>1, <2>4, <3>2, <3>3
  <2>5. CASE n > B3
    <3>1. StepOf(n) = 10 * SummarySteps
      BY <2>1, <2>5 DEF StepOf
    <3>2. m <= B3
      BY <1>4, <2>1, <2>5, <3>1 DEF StepOf
    <3>3. B3 % StepOf(n) = 0
      BY <3>1 DEF StepsOK
    <3> QED
      BY <1>3, <2>1, <2>5, <3>2, <3>3
  <2> QED
    BY <2>1, <2>2, <2>3, <2>4, <2>5
<1> QED
  BY <1>2, <1>4

-----------------------------------------------------------------------------
(* The start *)

\* What a sequence holds.
LEMMA Holds ==
    ASSUME NEW q, NEW D, DOMAIN q = D, NEW S,
           \A i \in D : q[i] \in S, \A x \in S : \E i \in D : x = q[i]
    PROVE  ToSet(q) = S
BY DEF ToSet

\* What SummaryTypeOK says of the hole and of the replicas.
ReplicasOK == DOMAIN replica = Replicas /\ \A s \in Replicas : CopyOK(replica[s])

HoleInv ==
    /\ updated \in Seq(Nat) /\ ToSet(updated) = 0..Reply /\ Reply \in Replies
    /\ like \in [Rankings -> Nat] /\ held \subseteq 0..Reply /\ closed \in BOOLEAN
    /\ ReplicasOK

LEMMA SourceOK ==
    CopyOK(Source) <=> /\ updated \in Seq(Nat) /\ like \in [Rankings -> Nat]
                       /\ closed \in BOOLEAN /\ ToSet(updated) = 0..Reply
                       /\ Reply \in FirstReply..Reply
BY DEF CopyOK, Source, RepliesIn, Reply

LEMMA HoleTypes ==
    HoleInv <=> /\ Reply \in Replies /\ \A c \in Copies : CopyOK(c)
                /\ DOMAIN replica = Replicas /\ held \subseteq 0..Reply
<1>1. Reply \in Replies => Reply \in FirstReply..Reply
  BY SettingsAssumption DEF BoundsOK, Replies
<1>2. (\A c \in Copies : CopyOK(c))
        <=> CopyOK(Source) /\ \A s \in Replicas : CopyOK(replica[s])
  BY DEF Copies
<1> QED
  BY <1>1, <1>2, SourceOK DEF HoleInv, ReplicasOK

\* A copy stays good while the hole grows.
LEMMA ReplicasKept ==
    ASSUME ReplicasOK, replica' = replica, Reply \in Nat, Reply' \in Nat, Reply <= Reply'
    PROVE  ReplicasOK'
<1>1. ASSUME NEW s \in Replicas PROVE CopyOK(replica[s])'
  <2>1. CopyOK(replica[s])
    BY DEF ReplicasOK
  <2>2. RepliesIn(replica[s]) \in FirstReply..Reply => RepliesIn(replica[s]) \in FirstReply..Reply'
    BY SettingsAssumption DEF BoundsOK
  <2> QED
    BY <2>1, <2>2 DEF CopyOK, RepliesIn
<1> QED
  BY <1>1 DEF ReplicasOK

LEMMA SummaryStart ==
    ASSUME BoundsOK, StepsOK, SummaryInit
    PROVE  SummaryIInv
<1> USE DEF SummaryInit
<1>1. PICK n \in Nat : n = FirstReply /\ n \in Replies
  BY DEF BoundsOK, Replies
<1>2. /\ Len(updated) = n + 1 /\ updated \in Seq(Nat) /\ DOMAIN updated = 1..(n + 1)
      /\ \A i \in 1..(n + 1) : updated[i] = i - 1
  <2>1. n + 1 \in Nat /\ \A i \in 1..(n + 1) : i - 1 \in Nat
    BY <1>1
  <2> QED
    BY <1>1, <2>1, IsASeq
<1>3. Reply = n /\ Reply \in Replies
  BY <1>1, <1>2 DEF Reply
<1>4. ToSet(updated) = 0..Reply
  <2>1. \A x \in 0..n : x + 1 \in 1..(n + 1) /\ x = updated[x + 1]
    BY <1>1, <1>2
  <2>2. \A i \in 1..(n + 1) : updated[i] \in 0..n
    BY <1>1, <1>2
  <2>3. \A x \in 0..n : \E i \in 1..(n + 1) : x = updated[i]
    BY <2>1
  <2>4. DOMAIN updated = 1..(n + 1)
    BY <1>2
  <2>5. ToSet(updated) = 0..n
    <3> HIDE DEF SummaryInit
    <3> QED
      BY <2>2, <2>3, <2>4, Holds, Zenon
  <2> QED
    BY <1>3, <2>5
<1>5. Idle \in Request
  BY DEF Idle, Request, Entry
<1>6. \A r \in Requests : req[r] = Idle /\ At(r, "idle") /\ ~ Looked(r)
  BY DEF At, Looked, Idle
<1>7. SummaryTypeOK
  <2>1. \A r \in Requests : ~ At(r, "save") /\ ~ At(r, "post")
    BY DEF At, Idle
  <2>2. HoleInv
    <3>1. like \in [Rankings -> Nat] /\ closed \in BOOLEAN
      BY DEF BoundsOK
    <3>2. CopyOK(Source)
      <4>1. Reply \in FirstReply..Reply
        <5> HIDE DEF SummaryInit
        <5> QED
          BY <1>1, <1>3
      <4> QED
        BY <1>2, <1>4, <3>1, <4>1, SourceOK
    <3>3. ReplicasOK
      BY <3>2 DEF ReplicasOK
    <3>4. held \subseteq 0..Reply
      OBVIOUS
    <3> QED
      BY <1>2, <1>3, <1>4, <3>1, <3>3, <3>4 DEF HoleInv
  <2>3. cache \in [Versions -> Entry] /\ job \in Job
    BY DEF Entry, Job
  <2> QED
    BY <1>5, <1>6, <2>1, <2>2, <2>3, HoleTypes DEF SummaryTypeOK
<1>8. RequestInv
  <2>1. \A r \in Requests : req[r].version = 0 /\ ~ At(r, "refresh") /\ ~ Reading(r)
    BY DEF Idle, At, Reading
  <2>2. 0 <= Reply
    BY <1>1, <1>3 DEF BoundsOK, Replies
  <2> QED
    BY <1>6, <2>1, <2>2 DEF RequestInv
<1>9. BehindInv /\ HeldNotSent
  <2>1. \A r \in Requests : ~ At(r, "post")
    BY DEF At, Idle
  <2> QED
    BY <1>6, <2>1 DEF BehindInv, HeldNotSent
<1>10. SentInv /\ SummaryCurrent
  <2>1. \A r \in Requests :
          ~ At(r, "poll") /\ ~ At(r, "save") /\ ~ At(r, "mark") /\ ~ At(r, "post")
    BY DEF At, Idle
  <2>2. \A v \in Versions : cache[v].code = 0 /\ cache[v] # Mark
    BY DEF Nothing, Mark
  <2> QED
    BY <2>1, <2>2 DEF SentInv, SummaryCurrent
<1> QED
  BY <1>7, <1>8, <1>9, <1>10 DEF SummaryIInv

-----------------------------------------------------------------------------
(* Steps of the hole *)

\* Two requests that differ at most in the floors held since they looked.
SameButNews(p, q) ==
    /\ p.step = q.step /\ p.version = q.version /\ p.force = q.force
    /\ p.behind = q.behind /\ p.entry = q.entry /\ p.basis = q.basis
    /\ p.floors = q.floors

\* The hole changes while the cache and the service stay as they are, and
\* requests that have looked learn nothing of it.
LEMMA HoleChanged ==
    ASSUME SummaryIInv,
           updated' \in Seq(Nat), ToSet(updated') = 0..Reply', Reply' \in Replies,
           Reply \in Nat, Reply' \in Nat, Reply <= Reply',
           like' \in [Rankings -> Nat], held' \subseteq 0..Reply', closed' \in BOOLEAN,
           ReplicasOK',
           UNCHANGED <<cache, job, crossed>>,
           req' \in [Requests -> Request],
           \A r \in Requests :
              /\ SameButNews(req'[r], req[r])
              /\ At(r, "idle") => req'[r] = req[r]
              /\ ~ At(r, "idle") /\ ~ At(r, "count") => held' \subseteq req'[r].news
    PROVE  SummaryIInv'
<1> USE DEF SummaryIInv
<1>1. \A r \in Requests :
        /\ req'[r].step = req[r].step /\ req'[r].version = req[r].version
        /\ req'[r].force = req[r].force /\ req'[r].behind = req[r].behind
        /\ req'[r].entry = req[r].entry /\ req'[r].basis = req[r].basis
        /\ req'[r].floors = req[r].floors
  BY DEF SameButNews
<1>2. SummaryTypeOK'
  <2>1. ASSUME NEW r \in Requests
        PROVE  /\ ~ At(r, "idle")' => req'[r].version \in Versions
               /\ At(r, "save")' => req'[r].entry # Nothing
               /\ At(r, "post")' => req'[r].basis \in Replies /\ req'[r].floors \subseteq 0..Reply'
    <3>1. 0..Reply \subseteq 0..Reply'
      OBVIOUS
    <3>2. /\ ~ At(r, "idle") => req[r].version \in Versions
          /\ At(r, "save") => req[r].entry # Nothing
          /\ At(r, "post") => req[r].basis \in Replies /\ req[r].floors \subseteq 0..Reply
      BY DEF SummaryTypeOK
    <3> QED
      BY <1>1, <3>1, <3>2 DEF At
  <2>2. HoleInv'
    BY DEF HoleInv
  <2>3. (/\ Reply \in Replies /\ \A c \in Copies : CopyOK(c)
         /\ DOMAIN replica = Replicas /\ held \subseteq 0..Reply)'
    BY <2>2, HoleTypes, PTL
  <2>4. crossed' \in BOOLEAN /\ cache' \in [Versions -> Entry] /\ job' \in Job
    BY DEF SummaryTypeOK
  <2> QED
    BY <2>1, <2>3, <2>4 DEF SummaryTypeOK
<1>3. RequestInv'
  <2>1. \A r \in Requests : req[r].version \in Nat
    BY DEF SummaryTypeOK, Request
  <2> QED
    BY <1>1, <2>1 DEF RequestInv, At, Reading
<1>5. BehindInv'
  BY <1>1 DEF BehindInv, Looked
<1>6. SentInv'
  <2>1. ASSUME ~ crossed
        PROVE  /\ \A v \in Versions : cache[v] = Mark => job # NoJob /\ job.basis >= v
               /\ \A r \in Requests :
                     /\ At(r, "post")' => req'[r].basis >= req'[r].version
                     /\ (At(r, "poll") \/ At(r, "save") \/ At(r, "mark"))' =>
                           job # NoJob /\ job.basis >= req'[r].version
                     /\ At(r, "save")' /\ req'[r].entry # Mark =>
                           req'[r].entry.basis >= req'[r].version
    BY <1>1, <2>1 DEF SentInv, At
  <2> QED
    BY <2>1 DEF SentInv
<1>7. SummaryCurrent'
  BY DEF SummaryCurrent
<1>8. HeldNotSent'
  <2>1. \A r \in Requests : At(r, "post")' => held' \subseteq req'[r].news
    BY <1>1 DEF At
  <2> QED
    BY <2>1 DEF HeldNotSent
<1> QED
  BY <1>2, <1>3, <1>5, <1>6, <1>7, <1>8

LEMMA ReplyType ==
    ASSUME SummaryTypeOK
    PROVE  /\ HoleInv
           /\ Reply \in Nat /\ Len(updated) = Reply + 1 /\ Reply <= MaxReply
           /\ Len(updated) \in Nat /\ DOMAIN updated = 1..Len(updated)
<1>1. HoleInv
  BY HoleTypes DEF SummaryTypeOK
<1>2. Reply \in Nat /\ Reply <= MaxReply
  BY <1>1, SettingsAssumption DEF BoundsOK, HoleInv, Replies
<1>3. Len(updated) \in Nat /\ DOMAIN updated = 1..Len(updated)
  BY <1>1, LenProperties DEF HoleInv
<1> QED
  BY <1>1, <1>2, <1>3 DEF Reply

\* Requests after a floor was held.
LEMMA NewsTold ==
    ASSUME SummaryIInv, NEW f \in Rankings, NowHeld(f)
    PROVE  /\ req' \in [Requests -> Request]
           /\ \A r \in Requests :
                /\ SameButNews(req'[r], req[r])
                /\ At(r, "idle") => req'[r] = req[r]
                /\ ~ At(r, "idle") /\ ~ At(r, "count") => held \cup {f} \subseteq req'[r].news
<1> SUFFICES ASSUME NEW r \in Requests
             PROVE  /\ req'[r] \in Request
                    /\ SameButNews(req'[r], req[r])
                    /\ At(r, "idle") => req'[r] = req[r]
                    /\ ~ At(r, "idle") /\ ~ At(r, "count") => held \cup {f} \subseteq req'[r].news
  BY DEF NowHeld
<1>1. req[r] \in Request
  BY DEF SummaryIInv, SummaryTypeOK
<1>2. CASE At(r, "idle")
  <2>1. req[r] = Idle
    BY <1>2 DEF SummaryIInv, RequestInv
  <2>2. req'[r] = req[r]
    BY <2>1 DEF NowHeld
  <2> QED
    BY <1>1, <1>2, <2>2 DEF SameButNews
<1>3. CASE ~ At(r, "idle")
  <2>1. req[r] # Idle
    BY <1>3 DEF At, Idle
  <2>2. req'[r] = [req[r] EXCEPT !.news = req[r].news \cup {f}]
    BY <2>1 DEF NowHeld
  <2>3. /\ req'[r] \in Request /\ SameButNews(req'[r], req[r])
        /\ req'[r].news = req[r].news \cup {f}
    BY <1>1, <2>2 DEF Request, SameButNews
  <2>4. ~ At(r, "count") => held \subseteq req[r].news
    BY <1>3 DEF SummaryIInv, RequestInv
  <2> QED
    BY <1>3, <2>3, <2>4
<1> QED
  BY <1>2, <1>3

\* Requests that nobody told anything, when nothing more is held.
LEMMA NewsKept ==
    ASSUME SummaryIInv, req' = req, NEW H, H \subseteq held
    PROVE  /\ req' \in [Requests -> Request]
           /\ \A r \in Requests :
                /\ SameButNews(req'[r], req[r])
                /\ At(r, "idle") => req'[r] = req[r]
                /\ ~ At(r, "idle") /\ ~ At(r, "count") => H \subseteq req'[r].news
BY DEF SummaryIInv, SummaryTypeOK, RequestInv, SameButNews

LEMMA AddFloorStep ==
    ASSUME BoundsOK, SummaryIInv, NEW sensitive \in BOOLEAN, AddFloor(sensitive)
    PROVE  SummaryIInv'
<1> USE DEF SummaryIInv
<1>1. PICK n \in Nat : n = Reply /\ Len(updated) = n + 1 /\ n < MaxReply
  BY ReplyType DEF AddFloor
<1>2. /\ updated' = Append(updated, n + 1)
      /\ UNCHANGED <<like, closed, replica, cache, job, crossed>>
  BY <1>1 DEF AddFloor, NextRanking
<1>3. /\ updated' \in Seq(Nat) /\ Len(updated') = n + 2
      /\ DOMAIN updated' = 1..(n + 2)
      /\ \A i \in 1..(n + 1) : updated'[i] = updated[i]
      /\ updated'[n + 2] = n + 1
  <2>1. updated \in Seq(Nat) /\ n + 1 \in Nat
    BY <1>1, ReplyType DEF HoleInv
  <2> QED
    BY <1>1, <1>2, <2>1, AppendProperties, LenProperties
<1>4. Reply' = n + 1
  BY <1>1, <1>3 DEF Reply
<1>5. Reply' \in Replies /\ MaxReply \in Nat
  BY <1>1, <1>4, ReplyType DEF BoundsOK, Replies, HoleInv
<1>6. ToSet(updated') = 0..(n + 1)
  <2>1. ToSet(updated) = 0..n /\ DOMAIN updated = 1..(n + 1)
    BY <1>1, ReplyType DEF HoleInv
  <2>2. \A i \in 1..(n + 1) : updated[i] \in 0..n
    BY <2>1 DEF ToSet
  <2>3. \A x \in 0..n : \E i \in 1..(n + 1) : x = updated[i]
    BY <2>1 DEF ToSet
  <2>4. \A i \in 1..(n + 2) : updated'[i] \in 0..(n + 1)
    <3>1. \A i \in 1..(n + 2) : i \in 1..(n + 1) \/ i = n + 2
      BY <1>1
    <3> QED
      BY <1>1, <1>3, <2>2, <3>1
  <2>5. \A x \in 0..(n + 1) : \E i \in 1..(n + 2) : x = updated'[i]
    <3>1. \A i \in 1..(n + 1) : i \in 1..(n + 2)
      BY <1>1
    <3>2. \A x \in 0..n : \E i \in 1..(n + 2) : x = updated'[i]
      BY <1>3, <2>3, <3>1
    <3>3. n + 2 \in 1..(n + 2)
      BY <1>1
    <3> QED
      BY <1>1, <1>3, <3>2, <3>3
  <2> QED
    BY <1>3, <2>4, <2>5 DEF ToSet
<1>7. n + 1 \in Rankings
  BY <1>1, <1>5 DEF Rankings
<1>8. held \subseteq 0..n
  BY <1>1, ReplyType DEF HoleInv
<1>9. CASE sensitive
  <2>1. held' = held \cup {n + 1} /\ NowHeld(n + 1)
    BY <1>1, <1>9 DEF AddFloor, NextRanking
  <2>2. held' \subseteq 0..(n + 1)
    BY <1>1, <1>8, <2>1
  <2>3. /\ req' \in [Requests -> Request]
        /\ \A r \in Requests :
                /\ SameButNews(req'[r], req[r])
                /\ At(r, "idle") => req'[r] = req[r]
                /\ ~ At(r, "idle") /\ ~ At(r, "count") => held' \subseteq req'[r].news
    BY <1>7, <2>1, NewsTold
  <2>4. Reply <= Reply' /\ like' \in [Rankings -> Nat] /\ closed' \in BOOLEAN
    BY <1>1, <1>2, <1>4, ReplyType DEF HoleInv
  <2>5. ReplicasOK'
    BY <1>1, <1>2, <1>4, <2>4, ReplyType, ReplicasKept DEF HoleInv
  <2> QED
    BY <1>1, <1>2, <1>3, <1>4, <1>5, <1>6, <2>2, <2>3, <2>4, <2>5, HoleChanged
<1>10. CASE ~ sensitive
  <2>1. held' = held /\ req' = req
    BY <1>10 DEF AddFloor
  <2>2. held' \subseteq 0..(n + 1)
    BY <1>1, <1>8, <2>1
  <2>3. /\ req' \in [Requests -> Request]
        /\ \A r \in Requests :
                /\ SameButNews(req'[r], req[r])
                /\ At(r, "idle") => req'[r] = req[r]
                /\ ~ At(r, "idle") /\ ~ At(r, "count") => held' \subseteq req'[r].news
    BY <2>1, NewsKept
  <2>4. Reply <= Reply' /\ like' \in [Rankings -> Nat] /\ closed' \in BOOLEAN
    BY <1>1, <1>2, <1>4, ReplyType DEF HoleInv
  <2>5. ReplicasOK'
    BY <1>1, <1>2, <1>4, <2>4, ReplyType, ReplicasKept DEF HoleInv
  <2> QED
    BY <1>1, <1>2, <1>3, <1>4, <1>5, <1>6, <2>2, <2>3, <2>4, <2>5, HoleChanged
<1> QED
  BY <1>9, <1>10

\* A floor that comes last leaves all floors in the order.
LEMMA ChangedLastOK ==
    ASSUME BoundsOK, SummaryTypeOK, NEW f \in ToSet(updated)
    PROVE  /\ ChangedLast(f) \in Seq(Nat) /\ Len(ChangedLast(f)) = Len(updated)
           /\ ToSet(ChangedLast(f)) = ToSet(updated)
<1>1. PICK n \in Nat : n = Len(updated) /\ DOMAIN updated = 1..n
  BY ReplyType
<1> DEFINE k == CHOOSE i \in DOMAIN updated : updated[i] = f
           g == [i \in 1..n |-> IF i < k THEN updated[i]
                                ELSE IF i < n THEN updated[i + 1] ELSE f]
<1>2. k \in 1..n /\ updated[k] = f
  <2>1. \E i \in DOMAIN updated : updated[i] = f
    BY DEF ToSet
  <2> QED
    BY <1>1, <2>1
<1>3. ChangedLast(f) = g
  BY <1>1 DEF ChangedLast
<1> HIDE DEF k
<1>4. \A i \in 1..n : updated[i] \in Nat
  BY <1>1, ReplyType, ElementOfSeq DEF HoleInv
<1>5. g \in Seq(Nat) /\ Len(g) = n
  <2>1. \A i \in 1..n : (IF i < k THEN updated[i]
                         ELSE IF i < n THEN updated[i + 1] ELSE f) \in Nat
    BY <1>2, <1>4
  <2> QED
    BY <2>1, IsASeq
<1>6. \A i \in 1..n : \E j \in 1..n : g[i] = updated[j]
  <2> SUFFICES ASSUME NEW i \in 1..n PROVE \E j \in 1..n : g[i] = updated[j]
    OBVIOUS
  <2>1. CASE i < k
    BY <2>1
  <2>2. CASE ~ (i < k) /\ i < n
    <3>1. g[i] = updated[i + 1] /\ i + 1 \in 1..n
      BY <2>2
    <3> QED
      BY <3>1
  <2>3. CASE ~ (i < k) /\ ~ (i < n)
    <3>1. g[i] = f
      BY <2>3
    <3> QED
      BY <1>2, <3>1
  <2> QED
    BY <2>1, <2>2, <2>3
<1>7. \A j \in 1..n : \E i \in 1..n : g[i] = updated[j]
  <2> SUFFICES ASSUME NEW j \in 1..n PROVE \E i \in 1..n : g[i] = updated[j]
    OBVIOUS
  <2>1. CASE j < k
    BY <2>1
  <2>2. CASE j = k
    <3>1. n \in 1..n /\ ~ (n < k) /\ ~ (n < n)
      BY <1>2
    <3>2. g[n] = f
      BY <3>1
    <3> QED
      BY <1>2, <2>2, <3>1, <3>2
  <2>3. CASE j > k
    <3>1. PICK i \in 1..n : i = j - 1
      BY <1>2, <2>3
    <3>2. ~ (i < k) /\ i < n /\ i + 1 = j
      BY <1>2, <2>3, <3>1
    <3>3. g[i] = updated[j]
      BY <3>2
    <3> QED
      BY <3>3
  <2> QED
    BY <1>2, <2>1, <2>2, <2>3
<1> HIDE DEF g
<1>8. DOMAIN g = 1..n
  BY <1>5, LenProperties
<1>9. ToSet(g) = ToSet(updated)
  <2>1. \A i \in 1..n : g[i] \in ToSet(updated)
    BY <1>1, <1>6 DEF ToSet
  <2>2. ASSUME NEW x \in ToSet(updated)
        PROVE  \E i \in 1..n : x = g[i]
    <3>1. PICK j \in 1..n : x = updated[j]
      BY <1>1 DEF ToSet
    <3>2. PICK i \in 1..n : g[i] = updated[j]
      BY <1>7
    <3> QED
      BY <3>1, <3>2
  <2> QED
    BY <1>8, <2>1, <2>2, Holds
<1> QED
  BY <1>1, <1>3, <1>5, <1>9

\* Edits, likes, reviews and closings keep the number of replies.
LEMMA ChangeStep ==
    ASSUME BoundsOK, SummaryIInv,
           \/ \E f \in Touched \cap ToSet(updated) :
                 \/ \E n \in {like[f] - 1, like[f] + 1} \cap Nat : LikeFloor(f, n)
                 \/ \E b \in BOOLEAN : EditFloor(f, b) \/ ReviewFloor(f, b)
           \/ CloseHole
    PROVE  SummaryIInv'
<1> USE DEF SummaryIInv
<1>1. PICK n \in Nat : n = Reply /\ Len(updated) = n + 1 /\ n \in Replies
  BY ReplyType DEF HoleInv
<1>2. ToSet(updated) = 0..n /\ 0..n \subseteq Rankings /\ held \subseteq 0..n
  <2>1. n <= MaxReply /\ MaxReply \in Nat
    BY <1>1, ReplyType DEF BoundsOK
  <2>2. 0..n \subseteq Rankings
    BY <2>1 DEF Rankings
  <2> QED
    BY <1>1, <2>2, ReplyType DEF HoleInv
<1> DEFINE Others ==
             /\ UNCHANGED <<replica, cache, job, crossed>>
             /\ \/ updated' = updated
                \/ \E f \in ToSet(updated) : updated' = ChangedLast(f)
             /\ like' \in [Rankings -> Nat] /\ closed' \in BOOLEAN
           Order ==
             updated' \in Seq(Nat) /\ Len(updated') = n + 1 /\ ToSet(updated') = 0..n
           News ==
             /\ held' \subseteq 0..n
             /\ req' \in [Requests -> Request]
             /\ \A r \in Requests :
                /\ SameButNews(req'[r], req[r])
                /\ At(r, "idle") => req'[r] = req[r]
                /\ ~ At(r, "idle") /\ ~ At(r, "count") => held' \subseteq req'[r].news
<1>3. Others
  <2> USE ReplyType DEF HoleInv, Change
  <2>1. ASSUME NEW f \in Touched \cap ToSet(updated),
               NEW m \in {like[f] - 1, like[f] + 1} \cap Nat, LikeFloor(f, m)
        PROVE  Others
    BY <1>2, <2>1 DEF LikeFloor
  <2>2. ASSUME NEW f \in Touched \cap ToSet(updated), NEW b \in BOOLEAN,
               EditFloor(f, b) \/ ReviewFloor(f, b)
        PROVE  Others
    BY <2>2 DEF EditFloor, ReviewFloor
  <2>3. CASE CloseHole
    BY <2>3 DEF CloseHole
  <2> QED
    BY <2>1, <2>2, <2>3
<1>4. /\ \/ held' \subseteq held /\ req' = req
         \/ \E f \in ToSet(updated) : held' = held \cup {f} /\ NowHeld(f)
  BY DEF LikeFloor, EditFloor, ReviewFloor, CloseHole
<1>5. Order
  <2>1. CASE updated' = updated
    BY <1>1, <1>2, <2>1, ReplyType DEF HoleInv
  <2>2. ASSUME NEW f \in ToSet(updated), updated' = ChangedLast(f)
        PROVE  Order
    BY <1>1, <1>2, <2>2, ChangedLastOK
  <2> QED
    BY <1>3, <2>1, <2>2
<1>6. Reply' = n
  BY <1>1, <1>5 DEF Reply
<1>7. News
  <2>1. CASE held' \subseteq held /\ req' = req
    BY <1>2, <2>1, NewsKept
  <2>2. ASSUME NEW f \in ToSet(updated), held' = held \cup {f}, NowHeld(f)
        PROVE  News
    <3>1. f \in Rankings /\ f \in 0..n
      BY <1>2
    <3> QED
      BY <1>2, <2>2, <3>1, NewsTold
  <2> QED
    BY <1>4, <2>1, <2>2
<1>8. ReplicasOK'
  BY <1>1, <1>3, <1>6, ReplyType, ReplicasKept DEF HoleInv
<1> QED
  BY <1>1, <1>3, <1>5, <1>6, <1>7, <1>8, HoleChanged

\* A replica takes what the source has.
LEMMA CatchUpStep ==
    ASSUME SummaryIInv, NEW s \in Replicas, CatchUp(s)
    PROVE  SummaryIInv'
<1> USE DEF SummaryIInv
<1>1. /\ HoleInv /\ Reply \in Nat /\ req \in [Requests -> Request]
      /\ UNCHANGED <<updated, like, held, closed, cache, job, req, crossed>>
      /\ replica' = [replica EXCEPT ![s] = Source]
  BY ReplyType DEF CatchUp, SummaryTypeOK
<1>2. Reply' = Reply
  BY <1>1 DEF Reply
<1>3. ReplicasOK'
  <2>1. CopyOK(Source)
    BY HoleTypes DEF SummaryTypeOK, Copies
  <2>2. DOMAIN replica' = Replicas /\ \A t \in Replicas : CopyOK(replica'[t])
    BY <1>1, <2>1 DEF HoleInv, ReplicasOK
  <2> QED
    BY <1>2, <2>2 DEF ReplicasOK, CopyOK, RepliesIn
<1>4. \A r \in Requests :
        /\ SameButNews(req'[r], req[r])
        /\ At(r, "idle") => req'[r] = req[r]
        /\ ~ At(r, "idle") /\ ~ At(r, "count") => held \subseteq req'[r].news
  BY <1>1, NewsKept
<1> QED
  BY <1>1, <1>2, <1>3, <1>4, HoleChanged DEF HoleInv

-----------------------------------------------------------------------------
(* Steps of a request *)

\* What SummaryIInv says of one request, in two parts.
LocalOK(q) ==
    /\ q.step # "idle" => q.version \in Versions
    /\ q.step = "save" => q.entry # Nothing
    /\ q.step = "post" => q.basis \in Replies /\ q.floors \subseteq 0..Reply
    /\ q.step = "idle" => q = Idle
    /\ q.step = "refresh" => q.force
    /\ q.version <= Reply
    /\ q.step \notin {"idle", "post", "mark"} => q.version <= q.basis
    /\ q.step \notin {"idle", "count"} => held \subseteq q.news

LooksAhead(q) == q.step \in {"poll", "save", "drop", "generate", "post", "mark"}

\* ... with the cache and the service.
SharedOK(q, c, j, x) ==
    /\ LooksAhead(q) /\ c[q.version].code = 1000 => q.force \/ q.behind
    /\ ~ x => /\ q.step \in {"poll", "save", "mark"} => j # NoJob /\ j.basis >= q.version
              /\ q.step = "save" /\ q.entry # Mark => q.entry.basis >= q.version
              /\ q.step = "post" => q.basis >= q.version

\* ... and of the cache and the service alone.
CacheOK(c, j, x) ==
    ~ x =>
      \A v \in Versions :
          /\ c[v] = Mark => j # NoJob /\ j.basis >= v
          /\ c[v].code = 1000 => c[v].basis >= v

PartsOK ==
    /\ HoleInv
    /\ crossed \in BOOLEAN /\ cache \in [Versions -> Entry] /\ job \in Job
    /\ req \in [Requests -> Request]
    /\ \A p \in Requests :
          LocalOK(req[p]) /\ SharedOK(req[p], cache, job, crossed)
    /\ CacheOK(cache, job, crossed)

LEMMA Parts == SummaryIInv <=> PartsOK
<1>1. ASSUME SummaryIInv
      PROVE  PartsOK
  <2> USE <1>1 DEF SummaryIInv
  <2>1. /\ HoleInv
        /\ crossed \in BOOLEAN /\ cache \in [Versions -> Entry] /\ job \in Job
        /\ req \in [Requests -> Request]
    BY HoleTypes DEF SummaryTypeOK
  <2>2. ASSUME NEW r \in Requests PROVE LocalOK(req[r])
    BY DEF SummaryTypeOK, RequestInv, Reading, At, LocalOK
  <2>3. ASSUME NEW r \in Requests PROVE SharedOK(req[r], cache, job, crossed)
    BY DEF BehindInv, SentInv, At, SharedOK, Looked, LooksAhead
  <2>4. CacheOK(cache, job, crossed)
    BY DEF CacheOK, SummaryCurrent, SentInv
  <2> QED
    BY <2>1, <2>2, <2>3, <2>4 DEF PartsOK
<1>2. ASSUME PartsOK
      PROVE  SummaryIInv
  <2> USE <1>2 DEF PartsOK
  <2>1. SummaryTypeOK
    <3>1. \A r \in Requests :
          /\ ~ At(r, "idle") => req[r].version \in Versions
          /\ At(r, "save") => req[r].entry # Nothing
          /\ At(r, "post") => req[r].basis \in Replies /\ req[r].floors \subseteq 0..Reply
      BY DEF LocalOK, At
    <3> QED
      BY <3>1, HoleTypes DEF SummaryTypeOK
  <2>2. RequestInv
    BY DEF RequestInv, LocalOK, Reading, At
  <2>3. BehindInv
    BY DEF BehindInv, SharedOK, Looked, LooksAhead
  <2>4. SentInv
    <3>1. ~ crossed => \A v \in Versions : cache[v] = Mark => job # NoJob /\ job.basis >= v
      BY DEF CacheOK
    <3>2. ~ crossed => \A r \in Requests :
               /\ At(r, "post") => req[r].basis >= req[r].version
               /\ At(r, "poll") \/ At(r, "save") \/ At(r, "mark") =>
                     job # NoJob /\ job.basis >= req[r].version
               /\ At(r, "save") /\ req[r].entry # Mark =>
                     req[r].entry.basis >= req[r].version
      BY DEF SharedOK, At
    <3> QED
      BY <3>1, <3>2 DEF SentInv
  <2>5. SummaryCurrent
    BY DEF CacheOK, SummaryCurrent
  <2>6. HeldNotSent
    BY DEF HeldNotSent, LocalOK, At
  <2> QED
    BY <2>1, <2>2, <2>3, <2>4, <2>5, <2>6 DEF SummaryIInv
<1> QED
  BY <1>1, <1>2

\* The hole and the replicas stay as they are.
LEMMA HoleStays ==
    ASSUME HoleInv, UNCHANGED hole
    PROVE  HoleInv' /\ Reply' = Reply /\ held' = held
<1>1. UNCHANGED <<updated, like, held, closed, replica>>
  BY DEF hole
<1>2. Reply' = Reply
  BY <1>1 DEF Reply
<1>3. ReplicasOK'
  BY <1>1, <1>2 DEF HoleInv, ReplicasOK, CopyOK, RepliesIn
<1> QED
  BY <1>1, <1>2, <1>3 DEF HoleInv

\* One request moves; the cache and the service may change with it.
LEMMA OneMoves ==
    ASSUME SummaryIInv, NEW r \in Requests, NEW q \in Request, req' = [req EXCEPT ![r] = q],
           UNCHANGED hole,
           crossed' \in BOOLEAN, cache' \in [Versions -> Entry], job' \in Job,
           LocalOK(q), SharedOK(q, cache', job', crossed'),
           \A p \in Requests : p # r => SharedOK(req[p], cache', job', crossed'),
           CacheOK(cache', job', crossed')
    PROVE  SummaryIInv'
<1>1. /\ HoleInv /\ req \in [Requests -> Request]
      /\ \A p \in Requests : LocalOK(req[p])
  BY Parts DEF PartsOK
<1>2. /\ req' \in [Requests -> Request]
      /\ req'[r] = q /\ \A p \in Requests : p # r => req'[p] = req[p]
  BY <1>1
<1>3. /\ HoleInv' /\ Reply' = Reply /\ held' = held
  BY <1>1, HoleStays
<1>4. \A p \in Requests : LocalOK(req[p])'
  <2>1. \A p \in Requests : LocalOK(req'[p])
    BY <1>1, <1>2
  <2> QED
    BY <1>3, <2>1 DEF LocalOK
<1>5. \A p \in Requests : SharedOK(req[p], cache, job, crossed)'
  <2>1. \A p \in Requests : SharedOK(req'[p], cache', job', crossed')
    BY <1>2
  <2> QED
    BY <2>1 DEF SharedOK
<1>6. CacheOK(cache, job, crossed)'
  BY DEF CacheOK
<1>7. (SummaryIInv <=> PartsOK)'
  BY Parts, PTL
<1>8. PartsOK'
  BY <1>2, <1>3, <1>4, <1>5, <1>6 DEF PartsOK
<1> QED
  BY <1>7, <1>8

\* What is known before a step.
LEMMA Before ==
    ASSUME SummaryIInv, NEW r \in Requests
    PROVE  /\ crossed \in BOOLEAN /\ cache \in [Versions -> Entry] /\ job \in Job
           /\ req[r] \in Request
           /\ LocalOK(req[r])
           /\ \A p \in Requests : SharedOK(req[p], cache, job, crossed)
           /\ CacheOK(cache, job, crossed)
           /\ HoleInv /\ Reply \in Replies
BY Parts DEF PartsOK, HoleInv

\* Only the request moves.
LEMMA RequestMoves ==
    ASSUME SummaryIInv, NEW r \in Requests, NEW q \in Request, req' = [req EXCEPT ![r] = q],
           UNCHANGED <<hole, cache, job, crossed>>,
           LocalOK(q), SharedOK(q, cache, job, crossed)
    PROVE  SummaryIInv'
BY Before, OneMoves

\* A request starts over.
LEMMA IdleOK ==
    ASSUME BoundsOK, SummaryIInv, NEW c, NEW j, NEW x
    PROVE  Idle \in Request /\ LocalOK(Idle) /\ SharedOK(Idle, c, j, x)
<1>1. Idle \in Request
  BY DEF Idle, Request, Entry
<1>2. Reply \in Nat
  BY ReplyType DEF SummaryIInv
<1>3. Idle.version = 0 /\ Idle.step = "idle"
  BY DEF Idle
<1> QED
  BY <1>1, <1>2, <1>3 DEF LocalOK, SharedOK, LooksAhead

\* The replies a copy has.
LEMMA CopyReplies ==
    ASSUME SummaryIInv, NEW c \in Copies
    PROVE  /\ RepliesIn(c) \in Replies /\ RepliesIn(c) \in Nat /\ RepliesIn(c) <= Reply
           /\ c.updated \in Seq(Nat) /\ ToSet(c.updated) = 0..RepliesIn(c)
<1>1. CopyOK(c) /\ Reply \in Nat /\ Reply <= MaxReply
  BY ReplyType DEF SummaryIInv, SummaryTypeOK
<1> QED
  BY <1>1, SettingsAssumption DEF CopyOK, BoundsOK, Replies

LEMMA LoadStep ==
    ASSUME BoundsOK, StepsOK, SummaryIInv, NEW r \in Requests, NEW force \in BOOLEAN,
           Load(r, force)
    PROVE  SummaryIInv'
<1>1. UNCHANGED <<hole, cache, job, crossed>>
  BY DEF Load
<1>2. CASE req' = req
  <2>1. req' = [req EXCEPT ![r] = req[r]]
    BY <1>2, Parts DEF PartsOK
  <2> QED
    BY <1>1, <2>1, Before, RequestMoves
<1>3. CASE req' # req
  <2>1. PICK c \in Copies :
          req' = [req EXCEPT ![r] = [Idle EXCEPT !.step = "count", !.force = force,
                                                 !.version = Version(RepliesIn(c)),
                                                 !.basis = RepliesIn(c)]]
    BY <1>3 DEF Load, To
  <2>2. PICK n \in Replies : n = RepliesIn(c) /\ n \in Nat /\ n <= Reply
    BY CopyReplies
  <2>3. PICK v \in Versions : v = Version(n) /\ v \in Nat /\ v <= n
    BY <2>2, VersionBound DEF Versions
  <2> DEFINE q == [Idle EXCEPT !.step = "count", !.force = force, !.version = v, !.basis = n]
  <2>4. req' = [req EXCEPT ![r] = q]
    BY <2>1, <2>2, <2>3
  <2>5. q \in Request
    BY <2>2, <2>3 DEF Request, Idle, Entry
  <2>6. q.step = "count" /\ q.version = v /\ q.basis = n
    BY DEF Idle
  <2> HIDE DEF q
  <2>7. Reply \in Nat /\ v <= Reply
    BY <2>2, <2>3, ReplyType DEF SummaryIInv
  <2>8. LocalOK(q) /\ SharedOK(q, cache, job, crossed)
    BY <2>3, <2>6, <2>7 DEF LocalOK, SharedOK, LooksAhead
  <2> QED
    BY <1>1, <2>4, <2>5, <2>8, RequestMoves
<1> QED
  BY <1>2, <1>3

\* Held floors are counted, or the query fails.
LEMMA CountStep ==
    ASSUME BoundsOK, SummaryIInv, NEW r \in Requests, CountHeld(r)
    PROVE  SummaryIInv'
<1>1. UNCHANGED <<hole, cache, job, crossed>> /\ req[r].step = "count"
  BY DEF CountHeld, At
<1>2. CASE To(r, Idle)
  BY <1>1, <1>2, IdleOK, RequestMoves DEF To
<1>3. CASE ~ To(r, Idle)
  <2>1. PICK news \in {{}, held} :
          /\ held \subseteq news
          /\ To(r, [Stepped(r, IF req[r].force THEN "refresh" ELSE "look")
                       EXCEPT !.news = news])
    BY <1>3 DEF CountHeld, Available
  <2>2. PICK step \in {"refresh", "look"} :
          step = (IF req[r].force THEN "refresh" ELSE "look")
    OBVIOUS
  <2> DEFINE q == [[req[r] EXCEPT !.step = step] EXCEPT !.news = news]
  <2>3. req' = [req EXCEPT ![r] = q]
    BY <2>1, <2>2 DEF To, Stepped
  <2>4. req[r] \in Request /\ LocalOK(req[r])
    BY Before
  <2>5. held \subseteq Rankings
    <3>1. held \subseteq 0..Reply /\ Reply \in Nat /\ Reply <= MaxReply
      BY ReplyType DEF SummaryIInv, HoleInv
    <3> QED
      BY <3>1 DEF Rankings, BoundsOK
  <2>6. /\ q \in Request /\ q.step = step /\ q.version = req[r].version
        /\ q.basis = req[r].basis /\ q.force = req[r].force /\ q.news = news
    BY <2>4, <2>5 DEF Request
  <2> HIDE DEF q
  <2>7. LocalOK(q)
    BY <1>1, <2>1, <2>2, <2>4, <2>6 DEF LocalOK
  <2>8. SharedOK(q, cache, job, crossed)
    BY <2>6 DEF SharedOK, LooksAhead
  <2> QED
    BY <1>1, <2>3, <2>6, <2>7, <2>8, RequestMoves
<1> QED
  BY <1>2, <1>3

\* A request that knows of the held floors takes its next step.
LEMMA NextStep ==
    ASSUME SummaryIInv, NEW r \in Requests,
           NEW step \in {"look", "poll", "save", "drop", "generate", "post", "mark"},
           ~ At(r, "idle"), ~ At(r, "count")
    PROVE  LET q == [req[r] EXCEPT !.step = step]
           IN /\ q \in Request /\ q.step = step /\ q.version = req[r].version
              /\ q.version \in Versions /\ q.force = req[r].force
              /\ q.behind = req[r].behind /\ q.entry = req[r].entry
              /\ q.news = req[r].news /\ q.basis = req[r].basis
              /\ \/ step \in {"save", "post"}
                 \/ step # "mark" /\ ~ Reading(r)
                 \/ LocalOK(q)
<1> DEFINE q == [req[r] EXCEPT !.step = step]
<1>1. req[r] \in Request /\ LocalOK(req[r])
  BY Before
<1>2. /\ q \in Request /\ q.step = step /\ q.version = req[r].version
      /\ q.force = req[r].force /\ q.behind = req[r].behind /\ q.entry = req[r].entry
      /\ q.news = req[r].news /\ q.basis = req[r].basis
  BY <1>1 DEF Request
<1> HIDE DEF q
<1>3. /\ req[r].version \in Versions /\ req[r].version <= Reply /\ held \subseteq req[r].news
      /\ Reading(r) => req[r].version <= req[r].basis
  BY <1>1 DEF LocalOK, At, Reading
<1>4. \/ step \in {"save", "post"}
      \/ step # "mark" /\ ~ Reading(r)
      \/ LocalOK(q)
  BY <1>2, <1>3 DEF LocalOK
<1> QED
  BY <1>2, <1>3, <1>4 DEF q

\* An entry is dropped: the rest stays as good as it was.
LEMMA Dropped ==
    ASSUME SummaryIInv, NEW v \in Versions
    PROVE  LET c == [cache EXCEPT ![v] = Nothing]
           IN /\ c \in [Versions -> Entry] /\ c[v] = Nothing
              /\ CacheOK(c, job, crossed)
              /\ \A p \in Requests : SharedOK(req[p], c, job, crossed)
<1> DEFINE c == [cache EXCEPT ![v] = Nothing]
<1>1. cache \in [Versions -> Entry] /\ Nothing \in Entry
  BY Parts DEF PartsOK, Entry
<1>2. /\ c \in [Versions -> Entry] /\ c[v] = Nothing
      /\ \A w \in Versions : w # v => c[w] = cache[w]
  BY <1>1
<1>3. Nothing # Mark /\ Nothing.code # 1000
  BY DEF Nothing, Mark
<1> HIDE DEF c
<1>4. CacheOK(c, job, crossed)
  BY <1>2, <1>3, Parts DEF PartsOK, CacheOK
<1>5. ASSUME NEW p \in Requests PROVE SharedOK(req[p], c, job, crossed)
  <2>1. SharedOK(req[p], cache, job, crossed) /\ LocalOK(req[p])
    BY Parts DEF PartsOK
  <2>2. LooksAhead(req[p]) => req[p].version \in Versions
    BY <2>1 DEF LocalOK, LooksAhead
  <2> QED
    BY <1>2, <1>3, <2>1, <2>2 DEF SharedOK
<1> QED
  BY <1>2, <1>4, <1>5 DEF c

\* Refresh and Drop: nothing is left in the cache.
LEMMA DropStep ==
    ASSUME BoundsOK, SummaryIInv, NEW r \in Requests, Refresh(r) \/ Drop(r)
    PROVE  SummaryIInv'
<1> DEFINE v == req[r].version
           step == IF At(r, "refresh") THEN "look" ELSE "generate"
           q == [req[r] EXCEPT !.step = step]
           c == [cache EXCEPT ![v] = Nothing]
<1>1. ~ At(r, "idle") /\ ~ At(r, "count") /\ Reading(r) /\ step \in {"look", "generate"}
  BY DEF Refresh, Drop, At, Reading
<1>2. /\ req' = [req EXCEPT ![r] = q] /\ cache' = c
      /\ UNCHANGED <<hole, job, crossed>>
  BY DEF Refresh, Drop, To, Stepped, At
<1> HIDE DEF step
<1>3. /\ q \in Request /\ q.step = step /\ q.version = v /\ v \in Versions
      /\ LocalOK(q)
  <2>1. /\ step \in {"look", "poll", "save", "drop", "generate", "post", "mark"}
        /\ step \notin {"save", "post"}
    BY <1>1
  <2>2. /\ q \in Request /\ q.step = step /\ q.version = v /\ q.version \in Versions
        /\ step \in {"save", "post"} \/ (step # "mark" /\ ~ Reading(r)) \/ LocalOK(q)
    BY <1>1, <2>1, NextStep
  <2> QED
    BY <1>1, <2>1, <2>2
<1> HIDE DEF q, v
<1>4. /\ c \in [Versions -> Entry] /\ c[v] = Nothing
      /\ CacheOK(c, job, crossed)
      /\ \A p \in Requests : SharedOK(req[p], c, job, crossed)
  BY <1>3, Dropped
<1> HIDE DEF c
<1>5. SharedOK(q, c, job, crossed)
  BY <1>1, <1>3, <1>4 DEF SharedOK, Nothing
<1> QED
  BY <1>2, <1>3, <1>4, <1>5, Before, OneMoves

LEMMA LookStep ==
    ASSUME BoundsOK, SummaryIInv, NEW r \in Requests, Look(r)
    PROVE  SummaryIInv'
<1> DEFINE v == req[r].version
           found == cache[v]
<1>1. /\ ~ At(r, "idle") /\ ~ At(r, "count") /\ Reading(r)
      /\ UNCHANGED <<hole, cache, job, crossed>>
  BY DEF Look, At, Reading
<1>2. v \in Versions /\ Nothing # Mark /\ Nothing.code = 0 /\ Mark.code = 1001
  BY <1>1, Before DEF LocalOK, At, Nothing, Mark
<1>3. CASE found = Nothing /\ To(r, Stepped(r, "generate"))
  <2> DEFINE q == [req[r] EXCEPT !.step = "generate"]
  <2>1. req' = [req EXCEPT ![r] = q]
    BY <1>3 DEF To, Stepped
  <2>2. q \in Request /\ q.step = "generate" /\ q.version = v /\ LocalOK(q)
    BY <1>1, NextStep
  <2> HIDE DEF q
  <2>3. SharedOK(q, cache, job, crossed)
    BY <1>2, <1>3, <2>2 DEF SharedOK
  <2> QED
    BY <1>1, <2>1, <2>2, <2>3, RequestMoves
<1>4. CASE found = Mark /\ To(r, Stepped(r, "poll"))
  <2> DEFINE q == [req[r] EXCEPT !.step = "poll"]
  <2>1. req' = [req EXCEPT ![r] = q]
    BY <1>4 DEF To, Stepped
  <2>2. q \in Request /\ q.step = "poll" /\ q.version = v /\ LocalOK(q)
    BY <1>1, NextStep
  <2> HIDE DEF q
  <2>3. SharedOK(q, cache, job, crossed)
    BY <1>2, <1>4, <2>2, Before DEF SharedOK, CacheOK
  <2> QED
    BY <1>1, <2>1, <2>2, <2>3, RequestMoves
<1>5. CASE To(r, Idle)
  BY <1>1, <1>5, IdleOK, RequestMoves DEF To
<1>6. CASE To(r, [Stepped(r, "generate") EXCEPT !.behind = @ \/ found.code = 1000])
  <2> DEFINE p == [req[r] EXCEPT !.step = "generate"]
  <2>1. PICK b \in BOOLEAN : b = (req[r].behind \/ found.code = 1000)
    BY Zenon
  <2> DEFINE q == [p EXCEPT !.behind = b]
  <2>2. p \in Request /\ p.step = "generate" /\ p.version = v /\ LocalOK(p)
    BY <1>1, NextStep
  <2>3. req' = [req EXCEPT ![r] = q]
    <3>1. p.behind = req[r].behind
      BY <1>1, NextStep
    <3>2. req' = [req EXCEPT ![r] = [p EXCEPT !.behind = p.behind \/ found.code = 1000]]
      BY <1>6 DEF To, Stepped
    <3> QED
      BY <2>1, <3>1, <3>2
  <2> HIDE DEF p
  <2>4. /\ q \in Request /\ q.step = "generate" /\ q.version = v /\ q.behind = b
        /\ q.news = p.news /\ q.basis = p.basis
    BY <2>2 DEF Request
  <2> HIDE DEF q
  <2>5. LocalOK(q)
    BY <2>2, <2>4 DEF LocalOK
  <2>6. found.code = 1000 => b
    BY <2>1
  <2>7. SharedOK(q, cache, job, crossed)
    BY <2>4, <2>6 DEF SharedOK
  <2> QED
    BY <1>1, <2>3, <2>4, <2>5, <2>7, RequestMoves
<1> QED
  <2>1. \/ To(r, CASE found = Nothing -> Stepped(r, "generate")
                   [] found = Mark -> Stepped(r, "poll")
                   [] OTHER -> Idle)
        \/ To(r, [Stepped(r, "generate") EXCEPT !.behind = @ \/ found.code = 1000])
    BY DEF Look
  <2> QED
    BY <1>2, <1>3, <1>4, <1>5, <1>6, <2>1

\* A request that ends without a change.
LEMMA EndStep ==
    ASSUME BoundsOK, SummaryIInv, NEW r \in Requests, To(r, Idle),
           UNCHANGED <<hole, cache, job, crossed>>
    PROVE  SummaryIInv'
BY IdleOK, RequestMoves DEF To

LEMMA JobType ==
    ASSUME SummaryIInv, job.state # "none"
    PROVE  job \in [state : {"running", "finished"}, basis : Replies] /\ job # NoJob
BY Parts DEF PartsOK, Job, NoJob

LEMMA PollStep ==
    ASSUME BoundsOK, SummaryIInv, NEW r \in Requests, Poll(r)
    PROVE  SummaryIInv'
<1>1. /\ ~ At(r, "idle") /\ ~ At(r, "count") /\ Reading(r)
      /\ UNCHANGED <<hole, cache, job, crossed>>
  BY DEF Poll, At, Reading
<1>2. /\ LocalOK(req[r]) /\ SharedOK(req[r], cache, job, crossed) /\ LooksAhead(req[r])
      /\ req[r].step = "poll"
  BY Before DEF Poll, At, LooksAhead
<1>3. CASE To(r, Idle)
  BY <1>1, <1>3, EndStep
<1>4. CASE To(r, Stepped(r, "drop"))
  <2> DEFINE q == [req[r] EXCEPT !.step = "drop"]
  <2>1. req' = [req EXCEPT ![r] = q]
    BY <1>4 DEF To, Stepped
  <2>2. /\ q \in Request /\ q.step = "drop" /\ q.version = req[r].version /\ LocalOK(q)
        /\ q.force = req[r].force /\ q.behind = req[r].behind
    BY <1>1, NextStep
  <2> HIDE DEF q
  <2>3. SharedOK(q, cache, job, crossed)
    BY <1>2, <2>2 DEF SharedOK
  <2> QED
    BY <1>1, <2>1, <2>2, <2>3, RequestMoves
<1>5. ASSUME NEW e \in Entry, e # Nothing, e = Mark \/ e = Finished(job.basis),
             To(r, [Stepped(r, "save") EXCEPT !.entry = e])
      PROVE  SummaryIInv'
  <2> DEFINE p == [req[r] EXCEPT !.step = "save"]
             q == [p EXCEPT !.entry = e]
  <2>1. req' = [req EXCEPT ![r] = q]
    BY <1>5 DEF To, Stepped
  <2>2. /\ p \in Request /\ p.step = "save" /\ p.version = req[r].version
        /\ p.force = req[r].force /\ p.behind = req[r].behind
        /\ p.news = req[r].news /\ p.basis = req[r].basis
    BY <1>1, NextStep
  <2> HIDE DEF p
  <2>4. /\ q \in Request /\ q.step = "save" /\ q.version = req[r].version
        /\ q.force = req[r].force /\ q.behind = req[r].behind /\ q.entry = e
        /\ q.news = req[r].news /\ q.basis = req[r].basis
    BY <2>2 DEF Request
  <2> HIDE DEF q
  <2>5. LocalOK(q)
    BY <1>2, <1>5, <2>4 DEF LocalOK
  <2>6. SharedOK(q, cache, job, crossed)
    BY <1>2, <1>5, <2>4 DEF SharedOK, Finished, LooksAhead
  <2> QED
    BY <1>1, <2>1, <2>4, <2>5, <2>6, RequestMoves
<1>6. CASE To(r, [Stepped(r, "save") EXCEPT !.entry = Mark])
  <2>1. Mark \in Entry /\ Mark # Nothing
    BY DEF Entry, Mark, Nothing
  <2> QED
    BY <1>5, <1>6, <2>1
<1>7. CASE /\ job.state = "finished"
           /\ To(r, [Stepped(r, "save") EXCEPT !.entry = Finished(job.basis)])
  <2>1. job.basis \in Replies
    BY <1>7, JobType
  <2>2. Finished(job.basis) \in Entry
    BY <2>1 DEF Entry
  <2>3. Finished(job.basis) # Nothing
    BY DEF Finished, Nothing
  <2> QED
    BY <1>5, <1>7, <2>2, <2>3
<1> QED
  BY <1>3, <1>4, <1>6, <1>7 DEF Poll

\* A request stores what the service said; those that have looked are behind now.
LEMMA SaveStep ==
    ASSUME BoundsOK, SummaryIInv, NEW r \in Requests, Save(r)
    PROVE  SummaryIInv'
<1> DEFINE v == req[r].version
           e == req[r].entry
<1>1. /\ At(r, "save") /\ cache' = [cache EXCEPT ![v] = e]
      /\ UNCHANGED <<hole, job, crossed>>
      /\ req' = [p \in Requests |->
                    IF p = r THEN Idle
                    ELSE IF p \in Behind(r) /\ e # Mark
                         THEN [req[p] EXCEPT !.behind = TRUE]
                    ELSE req[p]]
  BY DEF Save, Renewed
<1>2. /\ PartsOK /\ req[r] \in Request /\ LocalOK(req[r])
      /\ SharedOK(req[r], cache, job, crossed)
  BY Parts, Before DEF PartsOK
<1>3. /\ v \in Versions /\ e \in Entry /\ e # Nothing
      /\ e # Mark => e.code = 1000
  BY <1>1, <1>2 DEF LocalOK, At, Request, Entry, Finished
<1>4. ~ crossed => /\ job # NoJob /\ job.basis >= v
                   /\ e # Mark => e.basis >= v
  BY <1>1, <1>2 DEF SharedOK, At
<1> HIDE DEF v, e
<1>5. /\ cache' \in [Versions -> Entry] /\ cache'[v] = e
      /\ \A w \in Versions : w # v => cache'[w] = cache[w]
  BY <1>1, <1>2, <1>3 DEF PartsOK
<1>6. Mark.code = 1001
  BY DEF Mark
<1>7. ASSUME NEW p \in Requests
      PROVE  /\ req'[p] \in Request /\ LocalOK(req'[p])
             /\ SharedOK(req'[p], cache', job, crossed)
  <2>1. CASE p = r
    <3>1. req'[p] = Idle
      BY <1>1, <2>1
    <3> QED
      BY <3>1, IdleOK
  <2>2. /\ req[p] \in Request /\ LocalOK(req[p]) /\ SharedOK(req[p], cache, job, crossed)
    BY Before
  <2>3. LooksAhead(req[p]) => req[p].version \in Versions
    BY <2>2 DEF LocalOK, LooksAhead
  <2>4. CASE p \in Behind(r) /\ e # Mark
    <3> DEFINE q == [req[p] EXCEPT !.behind = TRUE]
    <3>1. req'[p] = q
      BY <1>1, <2>4 DEF Behind
    <3>2. /\ q \in Request /\ q.step = req[p].step /\ q.version = req[p].version
          /\ q.force = req[p].force /\ q.behind = TRUE /\ q.entry = req[p].entry
          /\ q.news = req[p].news /\ q.basis = req[p].basis /\ q.floors = req[p].floors
      BY <2>2 DEF Request
    <3>3. q.step # "idle"
      BY <2>4, <3>2 DEF Behind, Looked
    <3> HIDE DEF q
    <3>4. LocalOK(q)
      BY <2>2, <3>2, <3>3 DEF LocalOK
    <3>5. SharedOK(q, cache', job, crossed)
      BY <2>2, <3>2 DEF SharedOK
    <3> QED
      BY <3>1, <3>2, <3>4, <3>5
  <2>5. CASE p # r /\ ~ (p \in Behind(r) /\ e # Mark)
    <3>1. req'[p] = req[p]
      BY <1>1, <2>5
    <3>2. LooksAhead(req[p]) /\ req[p].version = v => e = Mark
      BY <2>5 DEF Behind, Looked, LooksAhead, v
    <3>3. SharedOK(req[p], cache', job, crossed)
      BY <1>5, <1>6, <2>2, <2>3, <3>2 DEF SharedOK
    <3> QED
      BY <2>2, <3>1, <3>3
  <2> QED
    BY <2>1, <2>4, <2>5
<1>8. CacheOK(cache', job, crossed)
  BY <1>2, <1>4, <1>5, <1>6 DEF PartsOK, CacheOK
<1>9. PartsOK'
  <2>1. HoleInv' /\ Reply' = Reply /\ held' = held
    BY <1>1, <1>2, HoleStays DEF PartsOK
  <2>2. req' \in [Requests -> Request]
    <3>1. \A p \in Requests : req'[p] \in Request
      BY <1>7
    <3> QED
      BY <1>1, <3>1
  <2>3. \A p \in Requests : LocalOK(req[p])'
    BY <1>7, <2>1 DEF LocalOK
  <2>4. \A p \in Requests : SharedOK(req[p], cache, job, crossed)'
    BY <1>1, <1>7 DEF SharedOK
  <2>5. CacheOK(cache, job, crossed)'
    BY <1>1, <1>8 DEF CacheOK
  <2> QED
    BY <1>1, <1>2, <1>5, <2>1, <2>2, <2>3, <2>4, <2>5 DEF PartsOK
<1>10. (SummaryIInv <=> PartsOK)'
  BY Parts, PTL
<1> QED
  BY <1>9, <1>10

\* The floors that are sent are floors of the hole.
LEMMA SelectionsOK ==
    ASSUME BoundsOK, SummaryIInv, NEW c \in Copies, NEW S \in Selections(c)
    PROVE  S \subseteq ToSet(c.updated)
<1>1. PICK n \in Nat : n = Len(c.updated) /\ DOMAIN c.updated = 1..n
  BY CopyReplies, LenProperties
<1>2. CASE n <= MaxSummaryFloors
  BY <1>1, <1>2 DEF Selections
<1>3. CASE ~ (n <= MaxSummaryFloors)
  <2>1. PICK m \in Nat : m = MaxSummaryFloors
    BY DEF BoundsOK
  <2>2. PICK k \in Nat : k = m \div 5 /\ k <= m /\ k * 2 <= m
    BY <2>1
  <2>3. m < n
    BY <1>3, <2>1
  <2>4. 1..k \subseteq 1..n /\ (n + 1 - k * 2)..n \subseteq 1..n
    BY <2>2, <2>3
  <2>5. Oldest(c) \subseteq ToSet(c.updated)
    BY <1>1, <2>1, <2>2, <2>4 DEF Oldest, ToSet
  <2>6. Newest(c) \subseteq ToSet(c.updated)
    BY <1>1, <2>1, <2>2, <2>4 DEF Newest, ToSet
  <2>7. PICK T \in SUBSET (ToSet(c.updated) \ (Oldest(c) \cup Newest(c))) :
          S = (Oldest(c) \cup Newest(c)) \cup T
    BY <1>1, <1>3 DEF Selections, Chosen
  <2> QED
    BY <2>5, <2>6, <2>7
<1> QED
  BY <1>2, <1>3

LEMMA ReadFloorsStep ==
    ASSUME BoundsOK, SummaryIInv, NEW r \in Requests, ReadFloors(r)
    PROVE  SummaryIInv'
<1>1. /\ At(r, "generate") /\ ~ At(r, "idle") /\ ~ At(r, "count") /\ Reading(r)
      /\ UNCHANGED <<hole, cache, job>>
  BY DEF ReadFloors, At, Reading
<1>2. PICK c \in Copies :
        /\ \E S \in Selections(c) :
              To(r, [Stepped(r, "post") EXCEPT !.basis = RepliesIn(c), !.floors = S])
        /\ crossed' = (crossed \/ RepliesIn(c) < req[r].basis)
  BY DEF ReadFloors
<1>3. PICK n \in Replies : /\ n = RepliesIn(c) /\ n \in Nat /\ n <= Reply
                           /\ ToSet(c.updated) = 0..n
  BY CopyReplies
<1>4. PICK S \in Selections(c) :
        req' = [req EXCEPT ![r] = [[req[r] EXCEPT !.step = "post"]
                                      EXCEPT !.basis = n, !.floors = S]]
  BY <1>2, <1>3 DEF To, Stepped
<1>5. S \subseteq 0..Reply /\ S \subseteq Rankings
  <2>1. Reply \in Nat /\ Reply <= MaxReply /\ MaxReply \in Nat
    BY ReplyType DEF SummaryIInv, BoundsOK
  <2>2. S \subseteq 0..n /\ 0..n \subseteq 0..Reply /\ 0..Reply \subseteq Rankings
    BY <1>3, <2>1, SelectionsOK DEF Rankings
  <2> QED
    BY <2>2
<1> DEFINE p == [req[r] EXCEPT !.step = "post"]
           q == [p EXCEPT !.basis = n, !.floors = S]
<1>6. /\ p \in Request /\ p.step = "post" /\ p.version = req[r].version
      /\ p.force = req[r].force /\ p.behind = req[r].behind /\ p.news = req[r].news
  BY <1>1, NextStep
<1>7. req' = [req EXCEPT ![r] = q]
  BY <1>4
<1> HIDE DEF p
<1>8. /\ q \in Request /\ q.step = "post" /\ q.version = req[r].version
      /\ q.force = req[r].force /\ q.behind = req[r].behind
      /\ q.news = req[r].news /\ q.basis = n /\ q.floors = S
  BY <1>3, <1>5, <1>6 DEF Request
<1> HIDE DEF q
<1>9. /\ req[r] \in Request /\ LocalOK(req[r]) /\ SharedOK(req[r], cache, job, crossed)
      /\ crossed \in BOOLEAN /\ CacheOK(cache, job, crossed)
      /\ cache \in [Versions -> Entry] /\ job \in Job
  BY Before
<1>10. LocalOK(q)
  BY <1>1, <1>5, <1>8, <1>9 DEF LocalOK, At
<1>11. ~ crossed' => ~ crossed /\ n >= req[r].version
  <2>1. req[r].version \in Nat /\ req[r].basis \in Nat /\ req[r].version <= req[r].basis
    BY <1>1, <1>9 DEF LocalOK, At, Request
  <2>2. ~ crossed' => ~ crossed /\ ~ (n < req[r].basis)
    BY <1>2, <1>3
  <2> QED
    BY <1>3, <2>1, <2>2
<1>12. SharedOK(q, cache, job, crossed')
  BY <1>1, <1>8, <1>9, <1>11 DEF SharedOK, LooksAhead, At
<1>13. /\ \A o \in Requests : SharedOK(req[o], cache, job, crossed')
       /\ CacheOK(cache, job, crossed') /\ crossed' \in BOOLEAN
  <2>1. ASSUME NEW o \in Requests PROVE SharedOK(req[o], cache, job, crossed')
    <3>1. SharedOK(req[o], cache, job, crossed)
      BY Before
    <3> QED
      BY <1>11, <3>1 DEF SharedOK
  <2> QED
    BY <1>2, <1>9, <1>11, <2>1 DEF CacheOK
<1> QED
  BY <1>1, <1>7, <1>8, <1>9, <1>10, <1>12, <1>13, OneMoves

\* The service takes the floors.
LEMMA PostStep ==
    ASSUME BoundsOK, StepsOK, SummaryIInv, NEW r \in Requests, Post(r)
    PROVE  SummaryIInv'
<1>1. /\ At(r, "post") /\ ~ At(r, "idle") /\ ~ At(r, "count")
      /\ UNCHANGED <<hole, cache>>
  BY DEF Post, At
<1>2. CASE To(r, Idle) /\ UNCHANGED <<job, crossed>>
  BY <1>1, <1>2, EndStep
<1>3. ASSUME NEW state \in {"running", "finished"},
             job' = [state |-> state, basis |-> req[r].basis],
             crossed' = (crossed \/ (job # NoJob /\ job.basis > req[r].basis)),
             \/ To(r, [Stepped(r, "mark") EXCEPT !.basis = 0, !.floors = {}])
             \/ To(r, Idle)
      PROVE  SummaryIInv'
  <2> DEFINE p == [req[r] EXCEPT !.step = "mark"]
             q == [p EXCEPT !.basis = 0, !.floors = {}]
  <2>1. \/ req' = [req EXCEPT ![r] = q]
        \/ req' = [req EXCEPT ![r] = Idle]
    BY <1>3 DEF To, Stepped
  <2>2. /\ req[r] \in Request /\ LocalOK(req[r])
        /\ SharedOK(req[r], cache, job, crossed) /\ CacheOK(cache, job, crossed)
        /\ crossed \in BOOLEAN /\ job \in Job
        /\ cache \in [Versions -> Entry]
    BY Before
  <2>3. /\ p \in Request /\ p.step = "mark" /\ p.version = req[r].version
        /\ p.force = req[r].force /\ p.behind = req[r].behind /\ p.version \in Versions
        /\ p.news = req[r].news
    BY <1>1, NextStep
  <2> HIDE DEF p
  <2>5. /\ q \in Request /\ q.step = "mark" /\ q.version = req[r].version
        /\ q.force = req[r].force /\ q.behind = req[r].behind
        /\ q.news = req[r].news /\ q.version \in Versions
    BY <2>3 DEF Request
  <2> HIDE DEF q
  <2>6. PICK n \in Replies : /\ n = req[r].basis /\ n \in Nat
                             /\ ~ crossed => n >= req[r].version
    BY <1>1, <2>2 DEF LocalOK, SharedOK, At, Request
  <2>7. /\ job' \in Job /\ job' # NoJob /\ job'.basis = n
    <3>1. job' = [state |-> state, basis |-> n]
      BY <1>3, <2>6
    <3> QED
      BY <2>6, <3>1 DEF Job, NoJob
  <2>8. ~ crossed' => /\ ~ crossed
                      /\ job # NoJob => job.basis <= n
    <3>1. SUFFICES ASSUME ~ crossed'
                   PROVE  ~ crossed /\ (job # NoJob => job.basis <= n)
      OBVIOUS
    <3>2. ~ crossed /\ ~ (job # NoJob /\ job.basis > req[r].basis)
      BY <1>3, <3>1
    <3>3. ASSUME job # NoJob
          PROVE  job.basis \in Nat /\ ~ (job.basis > n)
      BY <2>2, <2>6, <3>2, <3>3 DEF Job, Replies, BoundsOK
    <3>4. ASSUME job # NoJob PROVE job.basis <= n
      BY <2>6, <3>3, <3>4
    <3> QED
      BY <3>2, <3>4
  <2>9. crossed' \in BOOLEAN
    BY <1>3
  <2>10. LocalOK(q)
    BY <1>1, <2>2, <2>5 DEF LocalOK, At
  <2>11. SharedOK(q, cache, job', crossed')
    BY <1>1, <2>2, <2>5, <2>6, <2>7, <2>8 DEF SharedOK, At, LooksAhead
  <2>12. \A w \in Versions : w \in Nat
    <3>1. \A m \in Nat : Version(m) \in 0..m
      BY VersionBound
    <3>2. Replies \subseteq Nat
      BY DEF Replies, BoundsOK
    <3> QED
      BY <3>1, <3>2 DEF Versions
  <2>13. ASSUME NEW o \in Requests
         PROVE  SharedOK(req[o], cache, job', crossed')
    <3>1. SharedOK(req[o], cache, job, crossed) /\ req[o] \in Request
      BY Before
    <3>2. req[o].version \in Nat
      BY <3>1 DEF Request
    <3>3. job # NoJob => job.basis \in Nat
      BY <2>2 DEF Job, Replies, BoundsOK
    <3> QED
      BY <2>6, <2>7, <2>8, <3>1, <3>2, <3>3 DEF SharedOK
  <2>14. CacheOK(cache, job', crossed')
    <3>1. job # NoJob => job.basis \in Nat
      BY <2>2 DEF Job, Replies, BoundsOK
    <3> QED
      BY <2>2, <2>6, <2>7, <2>8, <2>12, <3>1 DEF CacheOK
  <2>15. CASE req' = [req EXCEPT ![r] = q]
    BY <1>1, <2>2, <2>5, <2>7, <2>9, <2>10, <2>11, <2>13, <2>14, <2>15, OneMoves
  <2>16. CASE req' = [req EXCEPT ![r] = Idle]
    BY <1>1, <2>2, <2>7, <2>9, <2>13, <2>14, <2>16, IdleOK, OneMoves
  <2> QED
    BY <2>1, <2>15, <2>16
<1> QED
  BY <1>2, <1>3 DEF Post

LEMMA SetMarkStep ==
    ASSUME BoundsOK, SummaryIInv, NEW r \in Requests, SetMark(r)
    PROVE  SummaryIInv'
<1> DEFINE v == req[r].version
           c == [cache EXCEPT ![v] = Mark]
<1>1. /\ At(r, "mark") /\ cache' = c /\ req' = [req EXCEPT ![r] = Idle]
      /\ UNCHANGED <<hole, job, crossed>>
  BY DEF SetMark, Marked, To
<1>2. /\ LocalOK(req[r]) /\ SharedOK(req[r], cache, job, crossed)
      /\ cache \in [Versions -> Entry] /\ CacheOK(cache, job, crossed)
  BY Before
<1>3. v \in Versions /\ (~ crossed => job # NoJob /\ job.basis >= v)
  BY <1>1, <1>2 DEF LocalOK, SharedOK, At
<1> HIDE DEF v
<1>4. /\ c \in [Versions -> Entry] /\ c[v] = Mark
      /\ \A w \in Versions : w # v => c[w] = cache[w]
  BY <1>2, <1>3 DEF Entry
<1> HIDE DEF c
<1>5. Mark.code # 1000
  BY DEF Mark
<1>6. CacheOK(c, job, crossed)
  BY <1>2, <1>3, <1>4, <1>5 DEF CacheOK
<1>7. ASSUME NEW p \in Requests PROVE SharedOK(req[p], c, job, crossed)
  <2>1. SharedOK(req[p], cache, job, crossed) /\ LocalOK(req[p])
    BY Before
  <2>2. LooksAhead(req[p]) => req[p].version \in Versions
    BY <2>1 DEF LocalOK, LooksAhead
  <2> QED
    BY <1>4, <1>5, <2>1, <2>2 DEF SharedOK
<1> QED
  BY <1>1, <1>4, <1>6, <1>7, Before, IdleOK, OneMoves

\* What cannot be stored or read.
LEMMA FailStep ==
    ASSUME BoundsOK, SummaryIInv, NEW r \in Requests, FailCache(r) \/ FailRead(r)
    PROVE  SummaryIInv'
<1>1. UNCHANGED <<hole, cache, job, crossed>>
  BY DEF FailCache, FailRead
<1>2. CASE To(r, Idle)
  BY <1>1, <1>2, EndStep
<1>3. ASSUME NEW step \in {"look", "generate"}, Reading(r), ~ At(r, "count"),
             step = "generate" => At(r, "drop"),
             To(r, Stepped(r, step))
      PROVE  SummaryIInv'
  <2> DEFINE q == [req[r] EXCEPT !.step = step]
  <2>1. req' = [req EXCEPT ![r] = q]
    BY <1>3 DEF To, Stepped
  <2>2. /\ q \in Request /\ q.step = step /\ q.version = req[r].version /\ LocalOK(q)
        /\ q.force = req[r].force /\ q.behind = req[r].behind
    <3>1. /\ step \in {"look", "poll", "save", "drop", "generate", "post", "mark"}
          /\ step \notin {"save", "post"}
      OBVIOUS
    <3> QED
      BY <1>3, <3>1, NextStep DEF Reading, At
  <2> HIDE DEF q
  <2>3. SharedOK(req[r], cache, job, crossed)
    BY Before
  <2>4. SharedOK(q, cache, job, crossed)
    BY <1>3, <2>2, <2>3 DEF SharedOK, LooksAhead, At
  <2> QED
    BY <1>1, <2>1, <2>2, <2>4, RequestMoves
<1>4. CASE At(r, "drop") /\ To(r, Stepped(r, "generate"))
  BY <1>3, <1>4 DEF At, Reading
<1>5. CASE At(r, "refresh") /\ To(r, Stepped(r, "look"))
  BY <1>3, <1>5 DEF At, Reading
<1> QED
  BY <1>2, <1>4, <1>5 DEF FailCache, FailRead

\* Requests stay as they are.
LEMMA NobodyMoves ==
    ASSUME SummaryIInv, UNCHANGED <<hole, req, crossed>>,
           cache' \in [Versions -> Entry], job' \in Job,
           \A p \in Requests : SharedOK(req[p], cache', job', crossed),
           CacheOK(cache', job', crossed)
    PROVE  SummaryIInv'
<1>1. PartsOK
  BY Parts
<1>2. HoleInv' /\ Reply' = Reply /\ held' = held
  BY <1>1, HoleStays DEF PartsOK
<1>3. \A p \in Requests : LocalOK(req[p])'
  BY <1>1, <1>2 DEF PartsOK, LocalOK
<1>4. \A p \in Requests : SharedOK(req[p], cache, job, crossed)'
  BY DEF SharedOK
<1>5. CacheOK(cache, job, crossed)'
  BY DEF CacheOK
<1>6. PartsOK'
  BY <1>1, <1>2, <1>3, <1>4, <1>5 DEF PartsOK
<1>7. (SummaryIInv <=> PartsOK)'
  BY Parts, PTL
<1> QED
  BY <1>6, <1>7

LEMMA ServiceStep ==
    ASSUME BoundsOK, SummaryIInv, FinishJob \/ (\E v \in Versions : Expire(v)) \/ UNCHANGED summaryVars
    PROVE  SummaryIInv'
<1>1. PartsOK
  BY Parts
<1>2. CASE FinishJob
  <2>1. job \in [state : {"running", "finished"}, basis : Replies] /\ job # NoJob
    BY <1>2, JobType DEF FinishJob
  <2>2. /\ job' \in Job /\ job'.basis = job.basis /\ job' # NoJob
        /\ UNCHANGED <<hole, cache, req, crossed>>
    <3>1. job' = [job EXCEPT !.state = "finished"]
      BY <1>2 DEF FinishJob
    <3> QED
      BY <1>2, <2>1, <3>1 DEF FinishJob, Job, NoJob
  <2>3. \A p \in Requests : SharedOK(req[p], cache', job', crossed)
    BY <1>1, <2>1, <2>2 DEF PartsOK, SharedOK
  <2>4. CacheOK(cache', job', crossed)
    BY <1>1, <2>1, <2>2 DEF PartsOK, CacheOK
  <2> QED
    BY <1>1, <2>2, <2>3, <2>4, NobodyMoves DEF PartsOK
<1>3. ASSUME NEW v \in Versions, Expire(v) PROVE SummaryIInv'
  <2>1. /\ cache' = [cache EXCEPT ![v] = Nothing]
        /\ UNCHANGED <<hole, job, req, crossed>>
    BY <1>3 DEF Expire
  <2>2. /\ cache' \in [Versions -> Entry]
        /\ CacheOK(cache', job, crossed)
        /\ \A p \in Requests : SharedOK(req[p], cache', job, crossed)
    BY <2>1, Dropped
  <2>3. /\ CacheOK(cache', job', crossed) /\ job' \in Job
        /\ \A p \in Requests : SharedOK(req[p], cache', job', crossed)
    BY <1>1, <2>1, <2>2 DEF PartsOK
  <2> QED
    BY <2>1, <2>2, <2>3, NobodyMoves
<1>4. CASE UNCHANGED summaryVars
  <2>1. UNCHANGED <<hole, cache, job, req, crossed>>
    BY <1>4 DEF summaryVars, hole
  <2>2. /\ CacheOK(cache', job', crossed)
        /\ \A p \in Requests : SharedOK(req[p], cache', job', crossed)
    BY <1>1, <2>1 DEF PartsOK
  <2> QED
    BY <1>1, <2>1, <2>2, NobodyMoves DEF PartsOK
<1> QED
  BY <1>2, <1>3, <1>4

LEMMA SummaryStep ==
    ASSUME BoundsOK, StepsOK, SummaryIInv, [SummaryNext]_summaryVars
    PROVE  SummaryIInv'
<1>1. ASSUME NEW r \in Requests, GenerateSummary(r)
      PROVE  SummaryIInv'
  <2>1. ASSUME NEW force \in BOOLEAN, Load(r, force) PROVE SummaryIInv'
    BY <2>1, LoadStep
  <2>2. CASE CountHeld(r) \/ Refresh(r) \/ Drop(r)
    BY <2>2, CountStep, DropStep
  <2>3. CASE Look(r) \/ Poll(r) \/ Save(r)
    BY <2>3, LookStep, PollStep, SaveStep
  <2>4. CASE ReadFloors(r) \/ Post(r) \/ SetMark(r)
    BY <2>4, ReadFloorsStep, PostStep, SetMarkStep
  <2>5. CASE FailCache(r) \/ FailRead(r)
    BY <2>5, FailStep
  <2> QED
    BY <1>1, <2>1, <2>2, <2>3, <2>4, <2>5 DEF GenerateSummary
<1>2. CASE Floor \/ CloseHole
  <2>1. ASSUME NEW b \in BOOLEAN, AddFloor(b) PROVE SummaryIInv'
    BY <2>1, AddFloorStep
  <2>2. CASE \/ \E f \in Touched \cap ToSet(updated) :
                 \/ \E n \in {like[f] - 1, like[f] + 1} \cap Nat : LikeFloor(f, n)
                 \/ \E b \in BOOLEAN : EditFloor(f, b) \/ ReviewFloor(f, b)
             \/ CloseHole
    BY <2>2, ChangeStep
  <2> QED
    BY <1>2, <2>1, <2>2 DEF Floor
<1>3. ASSUME NEW s \in Replicas, CatchUp(s) PROVE SummaryIInv'
  BY <1>3, CatchUpStep
<1> QED
  BY <1>1, <1>2, <1>3, ServiceStep DEF SummaryNext

-----------------------------------------------------------------------------
(* Steps that take a summary away *)

LEMMA KeptStep ==
    ASSUME SummaryIInv, [SummaryNext]_summaryVars,
           NEW v \in Versions, cache[v].code = 1000, cache'[v] # cache[v]
    PROVE  \/ cache'[v] = Nothing /\ UNCHANGED req
           \/ \E r \in Requests :
                   /\ req[r] # req'[r] /\ req[r] # Idle
                   /\ req[r].version = v
                   /\ req[r].force \/ req[r].behind
<1>1. PartsOK
  BY Parts
<1>2. cache' # cache
  OBVIOUS
<1>3. \/ \E w \in Versions : Expire(w)
      \/ \E r \in Requests : Refresh(r) \/ Drop(r) \/ Save(r) \/ SetMark(r)
  <2>1. CASE UNCHANGED summaryVars
    BY <1>2, <2>1 DEF summaryVars
  <2>2. CASE Floor
    BY <1>2, <2>2 DEF Floor, AddFloor, LikeFloor, EditFloor, ReviewFloor, Change
  <2>3. CASE CloseHole \/ FinishJob \/ (\E s \in Replicas : CatchUp(s))
    BY <1>2, <2>3 DEF CloseHole, Change, FinishJob, CatchUp
  <2>4. ASSUME NEW r \in Requests, GenerateSummary(r)
        PROVE  Refresh(r) \/ Drop(r) \/ Save(r) \/ SetMark(r)
    <3>1. ~ (\E force \in BOOLEAN : Load(r, force))
      BY <1>2 DEF Load
    <3>2. ~ CountHeld(r) /\ ~ Look(r) /\ ~ Poll(r)
      BY <1>2 DEF CountHeld, Look, Poll
    <3>3. ~ ReadFloors(r) /\ ~ Post(r)
      BY <1>2 DEF ReadFloors, Post
    <3>4. ~ FailCache(r) /\ ~ FailRead(r)
      BY <1>2 DEF FailCache, FailRead
    <3> QED
      BY <2>4, <3>1, <3>2, <3>3, <3>4 DEF GenerateSummary
  <2> QED
    BY <2>1, <2>2, <2>3, <2>4 DEF SummaryNext
<1>4. ASSUME NEW w \in Versions, Expire(w)
      PROVE  cache'[v] = Nothing /\ UNCHANGED req
  BY <1>1, <1>4 DEF Expire, PartsOK
<1>5. ASSUME NEW r \in Requests, Refresh(r) \/ Drop(r) \/ Save(r) \/ SetMark(r)
      PROVE  /\ req[r] # req'[r] /\ req[r] # Idle
             /\ req[r].version = v
             /\ req[r].force \/ req[r].behind
  <2>1. PICK e : cache' = [cache EXCEPT ![req[r].version] = e]
    BY <1>5 DEF Refresh, Drop, Save, Renewed, SetMark, Marked
  <2>2. req[r].version = v
    BY <1>1, <2>1 DEF PartsOK
  <2>3. req[r] \in Request /\ req[r].step \in {"refresh", "drop", "save", "mark"}
    BY <1>1, <1>5 DEF PartsOK, Refresh, Drop, Save, SetMark, At
  <2>4. req'[r].step # req[r].step
    <3>1. CASE Refresh(r) \/ Drop(r)
      <4>1. PICK step \in {"look", "generate"} : req' = [req EXCEPT ![r] = [req[r] EXCEPT !.step = step]]
        BY <3>1 DEF Refresh, Drop, To, Stepped
      <4>2. req'[r] = [req[r] EXCEPT !.step = step]
        BY <1>1, <4>1 DEF PartsOK
      <4>3. req'[r].step = step
        BY <2>3, <4>2 DEF Request
      <4> QED
        BY <2>3, <4>3
    <3>2. CASE Save(r) \/ SetMark(r)
      <4>1. req'[r] = Idle
        BY <1>1, <3>2 DEF Save, SetMark, To, PartsOK
      <4> QED
        BY <2>3, <4>1 DEF Idle
    <3> QED
      BY <1>5, <3>1, <3>2
  <2>5. req[r] # Idle
    BY <2>3 DEF Idle
  <2>6. CASE req[r].step = "refresh"
    <3>1. req[r].force
      BY <1>1, <2>6 DEF PartsOK, LocalOK
    <3> QED
      BY <2>2, <2>4, <2>5, <3>1
  <2>7. CASE req[r].step # "refresh"
    <3>1. LooksAhead(req[r])
      BY <2>3, <2>7 DEF LooksAhead
    <3>2. req[r].force \/ req[r].behind
      BY <1>1, <2>2, <3>1 DEF PartsOK, SharedOK
    <3> QED
      BY <2>2, <2>4, <2>5, <3>2
  <2> QED
    BY <2>6, <2>7
<1> QED
  BY <1>3, <1>4, <1>5

\* The number of replies never falls, and with it the version.
LEMMA GrowStep ==
    ASSUME BoundsOK, StepsOK, SummaryIInv, [SummaryNext]_summaryVars
    PROVE  Version(Reply') >= Version(Reply)
<1>1. PICK n \in Nat : n = Reply /\ Len(updated) = n + 1
  BY ReplyType DEF SummaryIInv
<1>2. ASSUME NEW b \in BOOLEAN, AddFloor(b) PROVE Reply' = n + 1
  <2>1. updated \in Seq(Nat) /\ updated' = Append(updated, n + 1)
    BY <1>1, <1>2, ReplyType DEF SummaryIInv, HoleInv, AddFloor, NextRanking
  <2>2. Len(updated') = n + 2
    BY <1>1, <2>1, AppendProperties
  <2> QED
    BY <1>1, <2>2 DEF Reply
<1>3. ASSUME NEW f \in ToSet(updated), updated' = ChangedLast(f) PROVE Reply' = n
  BY <1>1, <1>3, ChangedLastOK DEF Reply, SummaryIInv
<1>4. ASSUME updated' = updated PROVE Reply' = n
  BY <1>1, <1>4 DEF Reply
<1>5. \/ \E b \in BOOLEAN : AddFloor(b)
      \/ \E f \in ToSet(updated) : updated' = ChangedLast(f)
      \/ updated' = updated
  <2>1. CASE Floor
    BY <2>1 DEF Floor, LikeFloor, EditFloor, ReviewFloor
  <2>2. ASSUME NEW r \in Requests, GenerateSummary(r) PROVE updated' = updated
    BY <2>2 DEF GenerateSummary, Load, CountHeld, Refresh, Look, Poll, Save, Drop,
         ReadFloors, Post, SetMark, FailCache, FailRead, hole
  <2>3. CASE CloseHole \/ FinishJob \/ UNCHANGED summaryVars
    BY <2>3 DEF CloseHole, FinishJob, summaryVars, hole
  <2>4. CASE (\E s \in Replicas : CatchUp(s)) \/ (\E v \in Versions : Expire(v))
    BY <2>4 DEF CatchUp, Expire, hole
  <2> QED
    BY <2>1, <2>2, <2>3, <2>4 DEF SummaryNext
<1>6. PICK m \in Nat : m = Reply' /\ n <= m
  <2>1. Reply' = n \/ Reply' = n + 1
    BY <1>1, <1>2, <1>3, <1>4, <1>5 DEF Reply
  <2> QED
    BY <1>1, <2>1
<1>7. Version(n) <= Version(m) /\ Version(n) \in 0..n /\ Version(m) \in 0..m
  BY <1>1, <1>6, VersionGrows, VersionBound
<1> QED
  BY <1>1, <1>6, <1>7

-----------------------------------------------------------------------------
(* Theorems *)

\* The inductive invariant of GenerateSummary holds always, for any settings that
\* meet BoundsOK and StepsOK.
THEOREM SummaryInvariance == SummarySpec => []SummaryIInv
<1>1. SummaryInit => SummaryIInv
  BY SummaryStart, SettingsAssumption
<1>2. SummaryIInv /\ [SummaryNext]_summaryVars => SummaryIInv'
  BY SummaryStep, SettingsAssumption
<1> QED
  BY <1>1, <1>2, PTL DEF SummarySpec

\* The hole, the cache, the service and the requests keep their types.
THEOREM SummaryTypes == SummarySpec => []SummaryTypeOK
<1>1. SummaryIInv => SummaryTypeOK
  BY DEF SummaryIInv
<1> QED
  BY <1>1, SummaryInvariance, PTL

\* While no floors arrived at the service after newer ones, or were read from a copy
\* with fewer replies than the hole, each summary in the cache was made from at least
\* as many replies as its version says.
THEOREM SummaryIsCurrent == SummarySpec => []SummaryCurrent
<1>1. SummaryIInv => SummaryCurrent
  BY DEF SummaryIInv
<1> QED
  BY <1>1, SummaryInvariance, PTL

\* However edits, replies and requests interleave, no floor that waits for a review
\* is sent to the service unless it was held after the request had looked, or the
\* query for such floors failed.
THEOREM HeldIsNotSent == SummarySpec => []HeldNotSent
<1>1. SummaryIInv => HeldNotSent
  BY DEF SummaryIInv
<1> QED
  BY <1>1, SummaryInvariance, PTL

\* A summary goes by expiry, by force_refresh, or by a request that had looked before
\* it came or could not see it for an error of the cache.
THEOREM SummaryIsKept == SummarySpec => SummaryKept
<1> DEFINE KeptA ==
      \A v \in Versions :
          cache[v].code = 1000 /\ cache'[v] # cache[v] =>
             \/ cache'[v] = Nothing /\ UNCHANGED req
             \/ \E r \in Requests :
                   /\ req[r] # req'[r] /\ req[r] # Idle
                   /\ req[r].version = v
                   /\ req[r].force \/ req[r].behind
<1>1. SummaryIInv /\ [SummaryNext]_summaryVars => KeptA
  BY KeptStep
<1>2. SummarySpec => [][SummaryNext]_summaryVars
  BY PTL DEF SummarySpec
<1>3. SummarySpec => [][KeptA]_summaryVars
  BY <1>1, <1>2, SummaryInvariance, PTL
<1> QED
  BY <1>3 DEF SummaryKept

\* For steps and boundaries that divide each other as StepsOK says, the version of a
\* hole never falls.
THEOREM VersionsDoGrow == SummarySpec => VersionsGrow
<1>1. SummaryIInv /\ [SummaryNext]_summaryVars => [Version(Reply') >= Version(Reply)]_updated
  BY GrowStep, SettingsAssumption
<1>2. SummarySpec => []SummaryIInv
  BY SummaryInvariance
<1> QED
  BY <1>1, <1>2, PTL DEF SummarySpec, VersionsGrow

-----------------------------------------------------------------------------
(* The check of what users write *)

USE TablesAssumption, TextsAssumption

\* What IInv says of one check, apart from the table it reads.
CheckOK(k) ==
  /\ k \in Check
  /\ k.at # "idle" => k.text \in Texts
  /\ k.at = "done" /\ k.pass =>
       /\ ~k.failed
       /\ 1..k.text.pictures \subseteq k.cleared
       /\ k.text.words => 0 \in k.cleared
       /\ ~k.text.foreign /\ ~k.text.listed
  /\ k.found # <<>> => ~k.pass /\ 0 \notin k.cleared /\ k.cleared \subseteq 1..k.picture
  /\ k.at = "done" /\ k.found # <<>> =>
       \E t \in k.seen :
         k.detail = IF Describe(PlaceOf(k), k.found, t) = {} THEN UnknownReason
                    ELSE Describe(PlaceOf(k), k.found, t)
  /\ PartsInv(k)

Maps == [names : [Labels -> Tables \cup {Unset}], length : Nat]

\* What may be, as sets of values.
GoodChecks == {k \in Check : CheckOK(k)}

GoodPairs == {p \in Check \X Maps : NamingInv(p[1], p[2])}

\* The table, the task and the map alone.
TableOK ==
  /\ served \in Tables
  /\ labels \in Maps
  /\ refresher \in [at : {"idle", "asking", "waiting", "building", "stopped"},
                    table : Tables \cup {Unset}]
  /\ (refresher.table # Unset) <=> (refresher.at \in {"waiting", "building"})
  /\ LabelsWhole

\* The checks.
ChecksOK ==
  /\ check \in [Checks -> GoodChecks]
  /\ \A c \in Checks : <<check[c], labels>> \in GoodPairs

\* The invariant is made of these parts.
LEMMA Compose == TableOK /\ ChecksOK /\ BuildingInv => IInv
<1> SUFFICES ASSUME TableOK, ChecksOK, BuildingInv
             PROVE  IInv
  OBVIOUS
<1>0. check \in [Checks -> Check] /\ \A c \in Checks : CheckOK(check[c])
  BY DEF ChecksOK, GoodChecks
<1>1. TypeOK
  BY <1>0 DEF TypeOK, TableOK, CheckOK, Maps
<1>2. PassedInEveryPart /\ ObjectionIsFinal
  BY <1>0 DEF PassedInEveryPart, ObjectionIsFinal, CheckOK
<1>3. DescribedByOneTable
  BY <1>0 DEF DescribedByOneTable, CheckOK
<1>4. \A c \in Checks : PartsInv(check[c]) /\ NamingInv(check[c], labels)
  BY <1>0 DEF ChecksOK, GoodPairs, CheckOK
<1> QED
  BY <1>1, <1>2, <1>3, <1>4 DEF IInv, TableOK

LEMMA Decompose == IInv => TableOK /\ ChecksOK /\ BuildingInv
<1> SUFFICES ASSUME IInv
             PROVE  TableOK /\ ChecksOK /\ BuildingInv
  OBVIOUS
<1>1. TableOK /\ BuildingInv
  BY DEF IInv, TypeOK, TableOK, Maps
<1>2. check \in [Checks -> Check]
  BY DEF IInv, TypeOK
<1>3. \A c \in Checks : CheckOK(check[c])
  BY <1>2 DEF IInv, TypeOK, PassedInEveryPart, ObjectionIsFinal, DescribedByOneTable, CheckOK
<1>4. \A c \in Checks : NamingInv(check[c], labels)
  BY DEF IInv
<1> QED
  BY <1>1, <1>2, <1>3, <1>4 DEF ChecksOK, GoodChecks, GoodPairs, TableOK

\* A step of one check that leaves it as it should be preserves the invariant.
LEMMA OneCheck ==
  ASSUME IInv, NEW c \in Checks, NEW k,
         check' = [check EXCEPT ![c] = k], UNCHANGED <<served, labels, refresher>>,
         k \in GoodChecks, NamingInv(k, labels),
         k.at = "naming" => refresher.at # "building"
  PROVE  IInv'
<1>1. TableOK /\ ChecksOK /\ BuildingInv
  BY Decompose
<1>2. check' \in [Checks -> GoodChecks]
  BY <1>1 DEF ChecksOK
<1>3. \A d \in Checks : check'[d] = IF d = c THEN k ELSE check[d]
  BY <1>1 DEF ChecksOK
<1>4. <<k, labels>> \in GoodPairs
  BY <1>1 DEF GoodPairs, GoodChecks, TableOK
<1>5. ChecksOK'
  BY <1>1, <1>2, <1>3, <1>4 DEF ChecksOK
<1>6. TableOK'
  BY <1>1 DEF TableOK, LabelsWhole, InForce
<1>7. BuildingInv'
  <2>1. CASE refresher.at = "building"
    <3>1. Readers = {}
      BY <1>1, <2>1 DEF BuildingInv
    <3>2. Readers' = {}
      BY <1>3, <2>1, <3>1 DEF Readers
    <3> QED
      BY <1>1, <3>2 DEF BuildingInv
  <2> QED
    BY <2>1 DEF BuildingInv
<1> QED
  BY <1>5, <1>6, <1>7, Compose, PTL

-----------------------------------------------------------------------------
(* The steps of a check, as records.                                       *)

LEMMA TextFields ==
  ASSUME NEW x \in Texts
  PROVE  /\ x.pictures \in Nat /\ x.foreign \in BOOLEAN
         /\ x.listed \in BOOLEAN /\ x.words \in BOOLEAN
BY DEF AllTexts

\* An answer is as it should be when what passes was let pass and what was
\* found is described.
LEMMA AnswerOK ==
  ASSUME NEW k \in Check, k.text \in Texts,
         NEW p \in BOOLEAN, NEW f \in BOOLEAN, NEW d \in SUBSET Words,
         p => /\ ~f /\ k.found = <<>>
              /\ 1..k.text.pictures \subseteq k.cleared
              /\ k.text.words => 0 \in k.cleared
              /\ ~k.text.foreign /\ ~k.text.listed,
         k.found # <<>> =>
              /\ 0 \notin k.cleared /\ k.cleared \subseteq 1..k.picture
              /\ \E t \in k.seen :
                   d = IF Describe(PlaceOf(k), k.found, t) = {} THEN UnknownReason
                       ELSE Describe(PlaceOf(k), k.found, t)
  PROVE  Answer(k, p, f, d) \in GoodChecks /\ Answer(k, p, f, d).at = "done"
<1> DEFINE a == Answer(k, p, f, d)
<1>1. /\ a \in Check /\ a.at = "done" /\ a.pass = p /\ a.failed = f /\ a.detail = d
      /\ a.text = k.text /\ a.picture = k.picture /\ a.found = k.found
      /\ a.cleared = k.cleared /\ a.seen = k.seen
  BY DEF Answer, Check, Places
<1>2. PlaceOf(a) = PlaceOf(k)
  BY <1>1 DEF PlaceOf
<1> HIDE DEF a
<1>3. PartsInv(a)
  BY <1>1 DEF PartsInv
<1>4. CheckOK(a)
  BY <1>1, <1>2, <1>3 DEF CheckOK
<1> QED
  BY <1>1, <1>4 DEF GoodChecks, a

\* An answer without a description.
LEMMA RefusalOK ==
  ASSUME NEW k \in Check, k.text \in Texts, k.found = <<>>,
         NEW f \in BOOLEAN, NEW d \in SUBSET Words
  PROVE  Answer(k, FALSE, f, d) \in GoodChecks /\ Answer(k, FALSE, f, d).at = "done"
BY AnswerOK

\* A check that goes on has read all the parts before.
LEMMA OnwardOK ==
  ASSUME NEW k \in Check, k.text \in Texts, k.found = <<>>, ~k.pass, ~k.failed,
         ~k.text.foreign, k.described = 0, k.detail = {},
         k.picture <= k.text.pictures, k.cleared = 1..k.picture
  PROVE  Onward(k) \in GoodChecks /\ Onward(k).at \in {"fetch", "words", "done"}
<1>1. k.text.pictures \in Nat /\ k.picture \in Nat /\ k.text.words \in BOOLEAN
      /\ k.text.listed \in BOOLEAN
  BY TextFields DEF Check
<1>2. CASE k.picture < k.text.pictures
  <2> DEFINE n == k.picture + 1
             a == [k EXCEPT !.at = "fetch", !.picture = n]
  <2>0. n \in Nat
    BY <1>1
  <2> HIDE DEF n
  <2>1. /\ a \in Check /\ a.at = "fetch" /\ a.picture = n /\ a.text = k.text
        /\ a.found = <<>> /\ ~a.pass /\ ~a.failed /\ a.described = 0 /\ a.detail = {}
        /\ a.cleared = 1..k.picture
    BY <2>0 DEF Check, Places
  <2>2. Onward(k) = a
    BY <1>2 DEF Onward, n
  <2> HIDE DEF a
  <2>3. CheckOK(a)
    <3>1. a.picture \in 1..a.text.pictures /\ a.cleared = 1..(a.picture - 1)
      BY <1>1, <1>2, <2>1 DEF n
    <3> QED
      BY <2>1, <3>1 DEF CheckOK, PartsInv
  <2> QED
    BY <2>1, <2>2, <2>3 DEF GoodChecks
<1>3. CASE ~(k.picture < k.text.pictures)
  <2>1. k.picture = k.text.pictures /\ Onward(k) = AfterPictures(k)
    BY <1>1, <1>3 DEF Onward
  <2>2. CASE k.text.listed
    <3>1. {<<"listed">>} \in SUBSET Words
      BY DEF Words
    <3> QED
      BY <2>1, <2>2, <3>1, RefusalOK DEF AfterPictures
  <2>3. CASE ~k.text.listed /\ ~k.text.words
    <3>1. Answer(k, TRUE, FALSE, {}) \in GoodChecks /\ Answer(k, TRUE, FALSE, {}).at = "done"
      BY <2>1, <2>3, AnswerOK
    <3> QED
      BY <2>1, <2>3, <3>1 DEF AfterPictures
  <2>4. CASE ~k.text.listed /\ k.text.words
    <3> DEFINE a == [k EXCEPT !.at = "words"]
    <3>1. /\ a \in Check /\ a.at = "words" /\ a.picture = k.picture /\ a.text = k.text
          /\ a.found = <<>> /\ ~a.pass /\ ~a.failed /\ a.described = 0 /\ a.detail = {}
          /\ a.cleared = 1..k.picture
      BY DEF Check, Places
    <3>2. Onward(k) = a
      BY <2>1, <2>4 DEF AfterPictures
    <3> HIDE DEF a
    <3>3. CheckOK(a)
      BY <1>1, <2>1, <2>4, <3>1 DEF CheckOK, PartsInv
    <3> QED
      BY <3>1, <3>2, <3>3 DEF GoodChecks
  <2> QED
    BY <1>1, <2>2, <2>3, <2>4
<1> QED
  BY <1>2, <1>3

\* A description by a table is made of words.
LEMMA DescribedInWords ==
  ASSUME NEW place, NEW h \in Hits, NEW t \in Tables \cup {Unset}
  PROVE  DescribeHit(place, h, t) \in SUBSET Words
<1>1. h.label \in Labels /\ h.code \in {"none", "second", "third"}
  BY DEF Hits
<1>2. CodeName(h, t) \in Tables \cup {Unset}
  BY DEF CodeName
<1>3. {<<h.label, "label", t>>} \in SUBSET Words
  BY <1>1 DEF Words
<1>4. h.code # "none" => {<<h.label, h.code, CodeName(h, t)>>} \in SUBSET Words
  BY <1>1, <1>2 DEF Words
<1>5. {<<h.label, "quoted", Unset>>} \in SUBSET Words
  BY <1>1 DEF Words
<1> QED
  BY <1>3, <1>4, <1>5 DEF DescribeHit

LEMMA NamedByTable ==
  ASSUME NEW l \in Labels, NEW t \in Tables \cup {Unset}
  PROVE  NamedBy(l, t) \in Tables \cup {Unset} /\ Built(t) \in Maps
         /\ Built(t).names[l] = NamedBy(l, t)
BY DEF NamedBy, Built, Maps

-----------------------------------------------------------------------------
(* Initial states and steps.                                               *)

LEMMA NoCheckOK == NoCheck \in GoodChecks
<1>1. NoCheck \in Check
  BY DEF NoCheck, Check, Places
<1>2. CheckOK(NoCheck)
  BY <1>1 DEF NoCheck, CheckOK, PartsInv
<1> QED
  BY <1>1, <1>2 DEF GoodChecks

LEMMA InitIInv == Init => IInv
<1> SUFFICES ASSUME Init
             PROVE  IInv
  OBVIOUS
<1>1. PICK t \in Tables \cup {Unset} : labels = Built(t)
  BY DEF Init
<1>2. labels \in Maps
  BY <1>1 DEF Built, NamedBy, Maps
<1>3. LabelsWhole
  BY <1>1 DEF LabelsWhole, InForce
<1>4. TableOK
  BY <1>2, <1>3 DEF Init, TableOK
<1>5. ChecksOK
  <2>1. NoCheck.at = "idle" /\ NoCheck \in Check
    BY NoCheckOK DEF GoodChecks, NoCheck
  <2>2. <<NoCheck, labels>> \in GoodPairs
    BY <1>2, <2>1 DEF GoodPairs, NamingInv
  <2> QED
    BY <2>2, NoCheckOK DEF Init, ChecksOK
<1>6. BuildingInv
  BY DEF Init, BuildingInv
<1> QED
  BY <1>4, <1>5, <1>6, Compose

\* What is known of a check that is about to take a step.
LEMMA Known ==
  ASSUME IInv, NEW c \in Checks
  PROVE  /\ check[c] \in Check /\ CheckOK(check[c]) /\ NamingInv(check[c], labels)
         /\ labels \in Maps
         /\ check[c].at # "idle" => check[c].text \in Texts
BY Decompose DEF ChecksOK, GoodChecks, GoodPairs, TableOK, CheckOK

LEMMA BeginStep ==
  ASSUME IInv, NEW c \in Checks, NEW x \in Texts, Begin(c, x)
  PROVE  IInv'
<1> DEFINE k == [NoCheck EXCEPT !.text = x]
           a == IF x.foreign THEN Answer(k, FALSE, TRUE, {}) ELSE Onward(k)
<1>1. /\ k \in Check /\ k.text = x /\ k.found = <<>> /\ ~k.pass /\ ~k.failed
      /\ k.described = 0 /\ k.detail = {} /\ k.picture = 0 /\ k.cleared = {}
  <2>1. NoCheck \in Check /\ NoCheck.found = <<>> /\ ~NoCheck.pass /\ ~NoCheck.failed
    BY NoCheckOK DEF GoodChecks, NoCheck
  <2>2. NoCheck.described = 0 /\ NoCheck.detail = {} /\ NoCheck.picture = 0 /\ NoCheck.cleared = {}
    BY DEF NoCheck
  <2> QED
    BY <2>1, <2>2 DEF Check
<1> HIDE DEF k
<1>2. x.pictures \in Nat /\ k.picture <= k.text.pictures /\ k.cleared = 1..k.picture
  <2>1. 1..0 = {} /\ x.pictures \in Nat /\ 0 <= x.pictures
    BY TextFields
  <2> QED
    BY <1>1, <2>1
<1>3. check' = [check EXCEPT ![c] = a] /\ UNCHANGED <<served, labels, refresher>>
  BY DEF Begin, k
<1>4. a \in GoodChecks /\ a.at \in {"fetch", "words", "done"}
  <2>1. CASE x.foreign
    BY <1>1, <2>1, RefusalOK
  <2>2. CASE ~x.foreign
    BY <1>1, <1>2, <2>2, OnwardOK
  <2> QED
    BY <2>1, <2>2
<1> HIDE DEF a
<1> QED
  BY <1>3, <1>4, OneCheck DEF NamingInv

LEMMA FetchStep ==
  ASSUME IInv, NEW c \in Checks, Fetch(c)
  PROVE  IInv'
<1> DEFINE k == check[c]
<1>1. k \in Check /\ CheckOK(k) /\ k.at = "fetch" /\ k.text \in Texts
  BY Known DEF Fetch
<1>2. PICK got \in BOOLEAN :
        check' = [check EXCEPT ![c] = IF got THEN [k EXCEPT !.at = "picture"]
                                      ELSE Answer(k, FALSE, TRUE, {})]
  BY DEF Fetch
<1> DEFINE a == IF got THEN [k EXCEPT !.at = "picture"] ELSE Answer(k, FALSE, TRUE, {})
<1>3. check' = [check EXCEPT ![c] = a] /\ UNCHANGED <<served, labels, refresher>>
  BY <1>2 DEF Fetch
<1> HIDE DEF k
<1>4. a \in GoodChecks /\ a.at \in {"picture", "done"}
  <2>1. CASE got
    <3> DEFINE b == [k EXCEPT !.at = "picture"]
    <3>1. /\ b \in Check /\ b.at = "picture" /\ b.picture = k.picture /\ b.text = k.text
          /\ b.found = k.found /\ b.pass = k.pass /\ b.failed = k.failed
          /\ b.described = k.described /\ b.detail = k.detail /\ b.cleared = k.cleared
      BY <1>1 DEF Check, Places
    <3> HIDE DEF b
    <3>2. CheckOK(b)
      BY <1>1, <3>1 DEF CheckOK, PartsInv
    <3> QED
      BY <2>1, <3>1, <3>2 DEF GoodChecks, b
  <2>2. CASE ~got
    BY <1>1, <2>2, RefusalOK DEF CheckOK, PartsInv
  <2> QED
    BY <2>1, <2>2
<1> HIDE DEF a
<1> QED
  BY <1>3, <1>4, OneCheck DEF NamingInv

\* What an answer of the service makes of a check: the two questions.
LEMMA PassedOK ==
  ASSUME NEW k \in Check, CheckOK(k), k.at \in {"picture", "words"}
  PROVE  Passed(k) \in GoodChecks /\ Passed(k).at \in {"fetch", "words", "done"}
<1>1. k.text \in Texts /\ k.picture \in Nat /\ k.cleared \in SUBSET Nat
  BY DEF CheckOK, Check
<1>2. CASE k.at = "picture"
  <2> DEFINE S == k.cleared \cup {k.picture}
             b == [k EXCEPT !.cleared = S]
  <2>1. S \in SUBSET Nat
    BY <1>1
  <2>2. k.text.pictures \in Nat
    BY <1>1, TextFields
  <2>3. S = 1..k.picture /\ k.picture <= k.text.pictures
    BY <1>1, <1>2, <2>2 DEF CheckOK, PartsInv
  <2> HIDE DEF S
  <2>4. /\ b \in Check /\ b.at = k.at /\ b.picture = k.picture /\ b.text = k.text
        /\ b.found = k.found /\ b.pass = k.pass /\ b.failed = k.failed
        /\ b.described = k.described /\ b.detail = k.detail /\ b.cleared = S
    BY <2>1 DEF Check
  <2>5. Passed(k) = Onward(b)
    BY <1>2 DEF Passed, S
  <2> HIDE DEF b
  <2> QED
    BY <1>1, <1>2, <2>3, <2>4, <2>5, OnwardOK DEF CheckOK, PartsInv
<1>3. CASE k.at = "words"
  <2> DEFINE S == k.cleared \cup {0}
             b == [k EXCEPT !.cleared = S]
  <2>1. S \in SUBSET Nat
    BY <1>1
  <2>2. /\ k.cleared = 1..k.text.pictures /\ k.found = <<>>
        /\ ~k.text.foreign /\ ~k.text.listed
    BY <1>3 DEF CheckOK, PartsInv
  <2>3. 1..k.text.pictures \subseteq S /\ 0 \in S
    BY <2>2
  <2> HIDE DEF S
  <2>4. b \in Check /\ b.text = k.text /\ b.found = k.found /\ b.cleared = S
    BY <2>1 DEF Check
  <2>5. Passed(k) = Answer(b, TRUE, FALSE, {})
    BY <1>3 DEF Passed, S
  <2> HIDE DEF b
  <2>6. /\ b.text \in Texts /\ b.found = <<>> /\ {} \in SUBSET Words
        /\ 1..b.text.pictures \subseteq b.cleared /\ 0 \in b.cleared
        /\ ~b.text.foreign /\ ~b.text.listed
    BY <1>1, <2>2, <2>3, <2>4
  <2>7. Answer(b, TRUE, FALSE, {}) \in GoodChecks /\ Answer(b, TRUE, FALSE, {}).at = "done"
    BY <2>4, <2>6, AnswerOK
  <2> QED
    BY <2>5, <2>7
<1> QED
  BY <1>2, <1>3

LEMMA UnansweredOK ==
  ASSUME NEW k \in Check, CheckOK(k), k.at \in {"picture", "words"},
         NEW how \in {"down", "refused"}
  PROVE  Unanswered(k, how) \in GoodChecks /\ Unanswered(k, how).at = "done"
<1>1. k.text \in Texts /\ k.found = <<>>
  BY DEF CheckOK, PartsInv
<1>2. {<<how>>} \in SUBSET Words /\ {} \in SUBSET Words
  BY DEF Words
<1> QED
  BY <1>1, <1>2, RefusalOK DEF Unanswered

LEMMA ObjectedOK ==
  ASSUME NEW k \in Check, CheckOK(k), k.at \in {"picture", "words"},
         NEW found \in Findings, NEW m
  PROVE  /\ Objected(k, found) \in GoodChecks
         /\ Objected(k, found).at = "objected"
         /\ NamingInv(Objected(k, found), m)
<1> DEFINE b == Objected(k, found)
<1>1. /\ b \in Check /\ b.at = "objected" /\ b.picture = k.picture /\ b.text = k.text
      /\ b.found = found /\ b.pass = k.pass
      /\ b.described = k.described /\ b.detail = k.detail /\ b.cleared = k.cleared
  BY DEF Objected, Check, Places
<1>2. k.picture \in Nat
  BY DEF Check
<1>3. ~k.pass /\ 0 \notin k.cleared /\ k.cleared \subseteq 1..k.picture
  BY <1>2 DEF CheckOK, PartsInv
<1> HIDE DEF b
<1>4. CheckOK(b)
  BY <1>1, <1>3 DEF CheckOK, PartsInv
<1>5. NamingInv(b, m)
  BY <1>1 DEF NamingInv, CheckOK, PartsInv
<1> QED
  BY <1>1, <1>4, <1>5 DEF GoodChecks, b

\* Both questions end in one of these ways.
LEMMA AskStep ==
  ASSUME IInv, NEW c \in Checks, check[c].at \in {"picture", "words"},
         UNCHANGED <<served, labels, refresher>>,
         \/ check' = [check EXCEPT ![c] = Passed(check[c])]
         \/ \E how \in {"down", "refused"} :
              check' = [check EXCEPT ![c] = Unanswered(check[c], how)]
         \/ \E found \in Findings : check' = [check EXCEPT ![c] = Objected(check[c], found)]
         \/ check' = [check EXCEPT ![c] = Answer(check[c], FALSE, TRUE, {})]
  PROVE  IInv'
<1> DEFINE k == check[c]
<1>1. k \in Check /\ CheckOK(k) /\ k.at \in {"picture", "words"}
      /\ k.text \in Texts /\ k.found = <<>>
  BY Known DEF CheckOK, PartsInv
<1> HIDE DEF k
<1>2. CASE check' = [check EXCEPT ![c] = Passed(k)]
  <2>1. Passed(k) \in GoodChecks /\ Passed(k).at \in {"fetch", "words", "done"}
    BY <1>1, PassedOK
  <2> QED
    BY <1>2, <2>1, OneCheck DEF NamingInv
<1>3. CASE \E how \in {"down", "refused"} :
             check' = [check EXCEPT ![c] = Unanswered(k, how)]
  <2>1. PICK how \in {"down", "refused"} :
          check' = [check EXCEPT ![c] = Unanswered(k, how)]
    BY <1>3
  <2>2. Unanswered(k, how) \in GoodChecks /\ Unanswered(k, how).at = "done"
    BY <1>1, UnansweredOK
  <2> QED
    BY <2>1, <2>2, OneCheck DEF NamingInv
<1>4. CASE \E found \in Findings : check' = [check EXCEPT ![c] = Objected(k, found)]
  <2>1. PICK found \in Findings : check' = [check EXCEPT ![c] = Objected(k, found)]
    BY <1>4
  <2>2. /\ Objected(k, found) \in GoodChecks /\ Objected(k, found).at = "objected"
        /\ NamingInv(Objected(k, found), labels)
    BY <1>1, ObjectedOK
  <2> QED
    BY <2>1, <2>2, OneCheck
<1>5. CASE check' = [check EXCEPT ![c] = Answer(k, FALSE, TRUE, {})]
  <2>1. /\ Answer(k, FALSE, TRUE, {}) \in GoodChecks
        /\ Answer(k, FALSE, TRUE, {}).at = "done"
    BY <1>1, RefusalOK
  <2> QED
    BY <1>5, <2>1, OneCheck DEF NamingInv
<1> QED
  BY <1>2, <1>3, <1>4, <1>5 DEF k

LEMMA ReadLockStep ==
  ASSUME IInv, NEW c \in Checks, ReadLock(c)
  PROVE  IInv'
<1> DEFINE k == check[c]
           S == InForce(labels)
           b == [k EXCEPT !.at = "naming", !.seen = S]
<1>1. /\ k \in Check /\ CheckOK(k) /\ NamingInv(k, labels) /\ k.at = "objected"
      /\ refresher.at # "building"
  BY Known DEF ReadLock, MayRead
<1>2. S \in SUBSET (Tables \cup {Unset}) /\ S # {} /\ \A t \in S : labels = Built(t)
  BY <1>1 DEF IInv, LabelsWhole, InForce
<1>3. check' = [check EXCEPT ![c] = b] /\ UNCHANGED <<served, labels, refresher>>
  BY DEF ReadLock
<1> HIDE DEF k, S
<1>4. /\ b \in Check /\ b.at = "naming" /\ b.picture = k.picture /\ b.text = k.text
      /\ b.found = k.found /\ b.pass = k.pass /\ b.seen = S
      /\ b.described = k.described /\ b.detail = k.detail /\ b.cleared = k.cleared
  BY <1>1, <1>2 DEF Check, Places
<1> HIDE DEF b
<1>5. CheckOK(b)
  BY <1>1, <1>4 DEF CheckOK, PartsInv
<1>6. NamingInv(b, labels)
  <2>1. b.described = 0 /\ b.detail = {} /\ b.described <= Len(b.found)
    BY <1>1, <1>4 DEF NamingInv, Check
  <2>2. \A t \in b.seen : Described(b, t) = {}
    <3>1. 1..b.described = {}
      BY <2>1
    <3> QED
      BY <3>1 DEF Described
  <2> QED
    BY <1>2, <1>4, <2>1, <2>2 DEF NamingInv
<1> QED
  BY <1>1, <1>3, <1>4, <1>5, <1>6, OneCheck DEF GoodChecks

LEMMA NameHitStep ==
  ASSUME IInv, NEW c \in Checks, NameHit(c)
  PROVE  IInv'
<1> DEFINE k == check[c]
           n == k.described + 1
           h == k.found[n]
           D == k.detail \cup DescribeHit(PlaceOf(k), h, labels.names[h.label])
           b == [k EXCEPT !.described = n, !.detail = D]
<1>1. /\ k \in Check /\ CheckOK(k) /\ NamingInv(k, labels) /\ k.at = "naming"
      /\ k.described < Len(k.found) /\ labels \in Maps
  BY Known DEF NameHit
<1>2. refresher.at # "building"
  BY <1>1 DEF IInv, BuildingInv, Readers
<1>3. check' = [check EXCEPT ![c] = b] /\ UNCHANGED <<served, labels, refresher>>
  BY DEF NameHit
<1> HIDE DEF k
<1>4. /\ k.described \in Nat /\ k.found \in Seq(Hits) /\ k.detail \in SUBSET Words
      /\ k.seen \in SUBSET (Tables \cup {Unset}) /\ Len(k.found) \in Nat
  BY <1>1 DEF Check
<1>5. n \in Nat /\ n \in 1..Len(k.found) /\ h \in Hits /\ 1..n = 1..k.described \cup {n}
  BY <1>1, <1>4
<1>6. h.label \in Labels /\ labels.names[h.label] \in Tables \cup {Unset}
  BY <1>1, <1>5 DEF Hits, Maps
<1>7. D \in SUBSET Words
  BY <1>4, <1>5, <1>6, DescribedInWords
<1>8. \A t \in k.seen : labels = Built(t) /\ k.detail = Described(k, t)
  BY <1>1 DEF NamingInv
<1>9. \A t \in k.seen : labels.names[h.label] = NamedBy(h.label, t)
  BY <1>4, <1>6, <1>8, NamedByTable
<1> HIDE DEF n, D
<1>10. /\ b \in Check /\ b.at = "naming" /\ b.picture = k.picture /\ b.text = k.text
       /\ b.found = k.found /\ b.pass = k.pass /\ b.seen = k.seen
       /\ b.described = n /\ b.detail = D /\ b.cleared = k.cleared
  BY <1>1, <1>5, <1>7 DEF Check
<1> HIDE DEF b
<1>11. CheckOK(b)
  BY <1>1, <1>10 DEF CheckOK, PartsInv
<1>12. PlaceOf(b) = PlaceOf(k)
  BY <1>10 DEF PlaceOf
<1>13. \A t \in b.seen : b.detail = Described(b, t)
  <2> TAKE t \in b.seen
  <2>1. Described(b, t) = UNION {DescribeHit(PlaceOf(k), k.found[i], NamedBy(k.found[i].label, t)) :
                                   i \in 1..n}
    BY <1>10, <1>12 DEF Described
  <2>2. Described(b, t) = Described(k, t) \cup DescribeHit(PlaceOf(k), h, NamedBy(h.label, t))
    BY <1>5, <2>1 DEF Described
  <2> QED
    BY <1>8, <1>9, <1>10, <2>2 DEF D
<1>14. NamingInv(b, labels)
  <2>1. b.described <= Len(b.found) /\ b.seen # {}
    BY <1>1, <1>5, <1>10 DEF NamingInv
  <2> QED
    BY <1>8, <1>10, <1>13, <2>1 DEF NamingInv
<1> QED
  BY <1>2, <1>3, <1>10, <1>11, <1>14, OneCheck DEF GoodChecks

LEMMA EndNamingStep ==
  ASSUME IInv, NEW c \in Checks, EndNaming(c)
  PROVE  IInv'
<1> DEFINE k == check[c]
           d == IF k.detail = {} THEN UnknownReason ELSE k.detail
           b == Answer(k, FALSE, FALSE, d)
<1>1. /\ k \in Check /\ CheckOK(k) /\ NamingInv(k, labels) /\ k.at = "naming"
      /\ k.described = Len(k.found) /\ k.text \in Texts
  BY Known DEF EndNaming
<1>2. check' = [check EXCEPT ![c] = b] /\ UNCHANGED <<served, labels, refresher>>
  BY DEF EndNaming
<1> HIDE DEF k
<1>3. k.found \in Seq(Hits) /\ DOMAIN k.found = 1..k.described /\ k.detail \in SUBSET Words
  BY <1>1 DEF Check
<1>4. d \in SUBSET Words
  BY <1>3 DEF Words, UnknownReason
<1>5. PICK t \in k.seen : k.detail = Described(k, t)
  BY <1>1 DEF NamingInv
<1>6. Described(k, t) = Describe(PlaceOf(k), k.found, t)
  BY <1>3 DEF Described, Describe
<1>7. d = IF Describe(PlaceOf(k), k.found, t) = {} THEN UnknownReason
          ELSE Describe(PlaceOf(k), k.found, t)
  BY <1>5, <1>6
<1>8. 0 \notin k.cleared /\ k.cleared \subseteq 1..k.picture
  BY <1>1 DEF CheckOK, PartsInv
<1> HIDE DEF d
<1>9. b \in GoodChecks /\ b.at = "done"
  BY <1>1, <1>4, <1>7, <1>8, AnswerOK
<1> HIDE DEF b
<1> QED
  BY <1>2, <1>9, OneCheck DEF NamingInv

LEMMA LeaveStep ==
  ASSUME IInv, NEW c \in Checks, Leave(c)
  PROVE  IInv'
<1>1. NoCheck.at = "idle"
  BY DEF NoCheck
<1> QED
  BY <1>1, NoCheckOK, OneCheck DEF Leave, NamingInv

-----------------------------------------------------------------------------
(* The labels.                                                             *)

\* Steps that leave the map alone.
LEMMA MapStays ==
  ASSUME IInv, UNCHANGED <<labels, check>>, served' \in Tables,
         refresher' \in [at : {"idle", "asking", "waiting", "building", "stopped"},
                         table : Tables \cup {Unset}],
         (refresher'.table # Unset) <=> (refresher'.at \in {"waiting", "building"}),
         refresher'.at = "building" => refresher' = refresher,
         refresher.at = "building" => refresher' = refresher
  PROVE  IInv'
<1>1. TableOK /\ ChecksOK /\ BuildingInv
  BY Decompose
<1>2. TableOK'
  BY <1>1 DEF TableOK, LabelsWhole, InForce
<1>3. ChecksOK'
  BY <1>1 DEF ChecksOK
<1>4. BuildingInv'
  BY <1>1 DEF BuildingInv, Readers
<1> QED
  BY <1>2, <1>3, <1>4, Compose, PTL

LEMMA TaskStep ==
  ASSUME IInv, Tick \/ AskLabels \/ StopRefresher \/ \E t \in Tables : ServiceChanges(t)
  PROVE  IInv'
<1>1. TableOK
  BY Decompose
<1> QED
  BY <1>1, MapStays DEF TableOK, Tick, AskLabels, StopRefresher, ServiceChanges

\* Steps that write the map: nobody reads it.
LEMMA MapWritten ==
  ASSUME IInv, UNCHANGED <<served, check>>, Readers = {}, TableOK', BuildingInv'
  PROVE  IInv'
<1>1. ChecksOK
  BY Decompose
<1>2. \A c \in Checks : check[c] \in Check /\ check[c].at # "naming"
  BY <1>1 DEF ChecksOK, Readers, GoodChecks
<1>3. \A c \in Checks : <<check[c], labels'>> \in GoodPairs
  BY <1>1, <1>2 DEF ChecksOK, GoodPairs, NamingInv, TableOK
<1>4. ChecksOK'
  BY <1>1, <1>3 DEF ChecksOK
<1> QED
  BY <1>4, Compose, PTL

LEMMA WriteLockStep ==
  ASSUME IInv, WriteLock
  PROVE  IInv'
<1>1. TableOK
  BY Decompose
<1>2. refresher.table \in Tables /\ refresher.at = "waiting"
  BY <1>1 DEF TableOK, WriteLock
<1>3. Length[refresher.table] \in Nat
  BY <1>2
<1>4. labels' = [names |-> [l \in Labels |-> Unset], length |-> Length[refresher.table]]
  BY DEF WriteLock, Emptied, Built
<1>5. refresher' = [refresher EXCEPT !.at = "building"]
  BY DEF WriteLock
<1>6. refresher'.at = "building" /\ refresher'.table = refresher.table
  BY <1>1, <1>5 DEF TableOK
<1>7. labels' \in Maps
  BY <1>3, <1>4 DEF Maps
<1>8. TableOK'
  BY <1>1, <1>2, <1>5, <1>6, <1>7 DEF TableOK, LabelsWhole, WriteLock
<1>9. BuildingInv'
  <2>1. Readers' = {}
    BY DEF WriteLock, MayWrite, Readers
  <2>2. labels'.length = Length[refresher'.table]
    BY <1>4, <1>6
  <2>3. \A l \in Labels : labels'.names[l] = Unset
    BY <1>4
  <2> QED
    BY <2>1, <2>2, <2>3 DEF BuildingInv
<1> QED
  BY <1>8, <1>9, MapWritten DEF WriteLock, MayWrite

LEMMA AddLabelStep ==
  ASSUME IInv, NEW l \in Labels, AddLabel(l)
  PROVE  IInv'
<1>1. TableOK /\ BuildingInv
  BY Decompose
<1>2. /\ refresher.at = "building" /\ refresher.table \in Tables
      /\ l \in Knows[refresher.table] /\ UNCHANGED <<served, refresher, check>>
  BY <1>1 DEF TableOK, AddLabel, Missing
<1>3. NamedBy(l, refresher.table) = refresher.table
  BY <1>2 DEF NamedBy
<1>4. /\ labels' \in Maps /\ labels'.length = labels.length
      /\ \A d \in Labels : labels'.names[d] = IF d = l THEN refresher.table ELSE labels.names[d]
  BY <1>1, <1>2 DEF TableOK, AddLabel, Maps
<1>5. TableOK'
  BY <1>1, <1>2, <1>4 DEF TableOK, LabelsWhole
<1>6. Readers = {} /\ Readers' = {}
  BY <1>1, <1>2 DEF BuildingInv, Readers
<1>7. BuildingInv'
  <2>1. labels'.length = Length[refresher'.table]
    BY <1>1, <1>2, <1>4 DEF BuildingInv
  <2>2. \A d \in Labels : labels'.names[d] \in {Unset, NamedBy(d, refresher'.table)}
    BY <1>1, <1>2, <1>3, <1>4 DEF BuildingInv
  <2> QED
    BY <1>6, <2>1, <2>2 DEF BuildingInv, NamedBy
<1> QED
  BY <1>2, <1>5, <1>6, <1>7, MapWritten

LEMMA WriteUnlockStep ==
  ASSUME IInv, WriteUnlock
  PROVE  IInv'
<1>1. TableOK /\ BuildingInv
  BY Decompose
<1> DEFINE t == refresher.table
<1>2. /\ refresher.at = "building" /\ t \in Tables /\ Missing = {}
      /\ refresher' = [at |-> "idle", table |-> Unset] /\ UNCHANGED <<served, labels, check>>
  BY <1>1 DEF TableOK, WriteUnlock
<1>3. \A l \in Labels : labels.names[l] = NamedBy(l, t)
  <2> TAKE l \in Labels
  <2>1. CASE l \in Knows[t]
    BY <1>2, <2>1 DEF Missing, NamedBy
  <2>2. CASE l \notin Knows[t]
    BY <1>1, <1>2, <2>2 DEF BuildingInv, NamedBy
  <2> QED
    BY <2>1, <2>2
<1>4. labels = Built(t)
  <2>1. labels.names = [l \in Labels |-> NamedBy(l, t)]
    BY <1>1, <1>3 DEF TableOK, Maps
  <2>2. labels.length = Length[t]
    BY <1>1, <1>2 DEF BuildingInv
  <2>3. labels = [names |-> labels.names, length |-> labels.length]
    BY <1>1 DEF TableOK, Maps
  <2> QED
    BY <1>2, <2>1, <2>2, <2>3 DEF Built
<1>5. InForce(labels) # {}
  BY <1>2, <1>4 DEF InForce
<1>6. TableOK'
  BY <1>1, <1>2, <1>5 DEF TableOK, LabelsWhole, InForce
<1>7. Readers = {}
  BY <1>1, <1>2 DEF BuildingInv
<1>8. BuildingInv'
  BY <1>2 DEF BuildingInv
<1> QED
  BY <1>2, <1>6, <1>7, <1>8, MapWritten

-----------------------------------------------------------------------------
(* Theorems.                                                               *)

LEMMA CheckStep ==
  ASSUME IInv, NEW c \in Checks, CheckNext(c)
  PROVE  IInv'
<1>1. CASE \E x \in Texts : Begin(c, x)
  BY <1>1, BeginStep
<1>2. CASE AskPicture(c)
  BY <1>2, AskStep DEF AskPicture
<1>3. CASE AskWords(c)
  BY <1>3, AskStep DEF AskWords
<1> QED
  BY <1>1, <1>2, <1>3, FetchStep, ReadLockStep, NameHitStep, EndNamingStep, LeaveStep
     DEF CheckNext

LEMMA NextIInv == IInv /\ [Next]_vars => IInv'
<1> SUFFICES ASSUME IInv, [Next]_vars
             PROVE  IInv'
  OBVIOUS
<1>1. CASE \E c \in Checks : CheckNext(c)
  BY <1>1, CheckStep
<1>2. CASE RefresherNext
  BY <1>2, TaskStep, WriteLockStep, WriteUnlockStep, AddLabelStep DEF RefresherNext
<1>3. CASE \E t \in Tables : ServiceChanges(t)
  BY <1>3, TaskStep
<1>4. CASE UNCHANGED vars
  <2>1. TableOK
    BY Decompose
  <2> QED
    BY <1>4, <2>1, MapStays DEF vars, TableOK
<1> QED
  BY <1>1, <1>2, <1>3, <1>4 DEF Next

\* The inductive invariant holds always.
THEOREM Invariance == Spec => []IInv
BY InitIInv, NextIInv, PTL DEF Spec

\* The map, the task and the checks keep their types.
THEOREM TypeCorrect == Spec => []TypeOK
BY Invariance, PTL DEF IInv

\* A text passes only if the service let every picture and the words pass and
\* there is nothing of a foreign host or of the blacklist in it, whatever fails
\* between the parts.
THEOREM NothingUnread == Spec => []PassedInEveryPart
BY Invariance, PTL DEF IInv

\* What the service objects to never passes afterwards.
THEOREM ObjectionsFinal == Spec => []ObjectionIsFinal
BY Invariance, PTL DEF IInv

\* However many checks read while the labels are replaced, each describes what
\* was found by one whole table.
THEOREM OneTable == Spec => [](DescribedByOneTable /\ LabelsWhole)
<1>1. IInv => DescribedByOneTable /\ LabelsWhole
  BY DEF IInv
<1> QED
  BY <1>1, Invariance, PTL
=============================================================================
