--------------------------- MODULE MailboxProofs ---------------------------
(***************************************************************************)
(* Proofs about Mailbox for any users, floors and handlers: messages come  *)
(* and go with their recipients, a deleted floor is forgotten but by late  *)
(* messages, the counter of subscriptions and the settings err by named    *)
(* overlaps only, and a floor is announced to everybody it concerns, once. *)
(* The parts of the state have their own invariants, and a step of one     *)
(* part leaves the others alone.                                           *)
(***************************************************************************)
EXTENDS Mailbox, FiniteSetTheorems, TLAPS

SubscriptionPart ==
    /\ subscribed \subseteq Users /\ replica \subseteq Users
    /\ subscriptionCount \in Int /\ overlaps \in Nat
    /\ follow \in [Follows -> Follow]
    /\ SubscriptionsCounted /\ FollowInv

SettingPart ==
    /\ config \in [Users -> Config] /\ asked \in [Users -> Config]
    /\ setting \in [Settings -> Setting]
    /\ SettingsKept /\ SettingInv

MailPart ==
    /\ floor \in [Floors -> Row] /\ FloorsOK
    /\ message \subseteq Message
    /\ DOMAIN sender = Senders /\ \A h \in Senders : SenderOK(h)
    /\ InboxWhole /\ DeletedFloorsForgotten /\ RemovalInv

PostPart == recipients \in [Posts -> Recipients] /\ \A p \in Posts : PostInv(p)

LEMMA Parts == IInv <=> SubscriptionPart /\ SettingPart /\ MailPart /\ PostPart
BY DEF IInv, TypeOK, SubscriptionPart, SettingPart, MailPart, PostPart

subscriptionVars == <<subscribed, replica, subscriptionCount, overlaps, follow>>

settingVars == <<config, asked, setting, raced>>

mailVars == <<floor, message, sender, inbox, read, removal, late>>

LEMMA SubscriptionFrame == SubscriptionPart /\ UNCHANGED subscriptionVars => SubscriptionPart'
BY DEF SubscriptionPart, subscriptionVars, SubscriptionsCounted, FollowInv

LEMMA SettingFrame == SettingPart /\ UNCHANGED settingVars => SettingPart'
BY DEF SettingPart, settingVars, SettingsKept, SettingInv, With

LEMMA MailFrame == MailPart /\ UNCHANGED mailVars => MailPart'
<1> SUFFICES ASSUME MailPart, UNCHANGED mailVars
             PROVE  MailPart'
  OBVIOUS
<1>1. (floor \in [Floors -> Row] /\ FloorsOK)'
  BY DEF MailPart, mailVars, FloorsOK
<1>2. (DOMAIN sender = Senders)' /\ (\A h \in Senders : SenderOK(h))'
  <2>1. sender' = sender /\ floor' = floor
    BY DEF mailVars
  <2> SUFFICES ASSUME NEW h \in Senders
               PROVE  SenderOK(h)'
    BY <2>1 DEF MailPart
  <2>2. SenderOK(h)
    BY DEF MailPart
  <2>3. IsQueue(sender[h].queue) => IsQueue(sender[h].queue)'
    BY <2>1 DEF IsQueue, IsNote, BagToSet
  <2> QED
    BY <2>1, <2>2, <2>3 DEF SenderOK, At
<1>3. (message \subseteq Message /\ InboxWhole)'
  BY DEF MailPart, mailVars, InboxWhole
<1>4. (DeletedFloorsForgotten /\ RemovalInv)'
  BY DEF MailPart, mailVars, DeletedFloorsForgotten, RemovalInv, At
<1> QED
  BY <1>1, <1>2, <1>3, <1>4 DEF MailPart

-----------------------------------------------------------------------------
(* Subscriptions *)

LEMMA UsersFinite ==
    ASSUME NEW S, S \subseteq Users
    PROVE  IsFiniteSet(S) /\ Cardinality(S) \in Nat
BY UsersAssumption, FS_Subset, FS_CardinalityType

\* Those beside a request that has written know it, the others are of other users.
LEMMA PassedType ==
    ASSUME follow \in [Follows -> Follow], NEW s \in Follows, follow[s].step = "write"
    PROVE  /\ Passed(s) \in [Follows -> Follow]
           /\ \A t \in Follows : Passed(s)[t].step = "write" /\ ~ Passed(s)[t].beside =>
                /\ Passed(s)[t] = follow[t]
                /\ follow[t].user # follow[s].user
<1>1. \A t \in Beside(s) :
        /\ [follow[t] EXCEPT !.beside = TRUE] \in Follow
        /\ [follow[t] EXCEPT !.beside = TRUE].beside = TRUE
  <2> TAKE t \in Beside(s)
  <2>1. follow[t] \in Follow /\ follow[t].step = "write"
    BY DEF Beside
  <2>2. follow[t] \in [step : {"write"}, user : Followers, add : BOOLEAN, exists : BOOLEAN,
                       beside : BOOLEAN]
    BY <2>1 DEF Follow
  <2> QED
    BY <2>2 DEF Follow
<1>2. Done \in Follow /\ Done.step = "done"
  BY DEF Done, Follow
<1>3. Passed(s) \in [Follows -> Follow]
  BY <1>1, <1>2 DEF Passed
<1>4. ASSUME NEW t \in Follows, Passed(s)[t].step = "write", ~ Passed(s)[t].beside
      PROVE  Passed(s)[t] = follow[t] /\ follow[t].user # follow[s].user
  <2>1. t # s
    BY <1>2, <1>4 DEF Passed
  <2>2. t \notin Beside(s)
    BY <1>1, <1>4, <2>1 DEF Passed
  <2>3. Passed(s)[t] = follow[t]
    BY <2>1, <2>2 DEF Passed
  <2> QED
    BY <1>4, <2>1, <2>2, <2>3 DEF Beside
<1> QED
  BY <1>3, <1>4

LEMMA WriteFields ==
    ASSUME follow \in [Follows -> Follow], NEW s \in Follows, follow[s].step = "write"
    PROVE  /\ follow[s].user \in Users /\ follow[s].exists \in BOOLEAN
           /\ follow[s].beside \in BOOLEAN
           /\ Overlapped(s) = IF follow[s].beside THEN 1 ELSE 0
BY UsersAssumption DEF Follow, Overlapped

LEMMA AddStep ==
    ASSUME SubscriptionPart, NEW s \in Follows, AddUserSubscription(s)
    PROVE  SubscriptionPart'
<1> DEFINE u == follow[s].user
<1>1. /\ follow \in [Follows -> Follow] /\ follow[s].step = "write"
      /\ subscribed \subseteq Users /\ subscriptionCount \in Int /\ overlaps \in Nat
  BY DEF SubscriptionPart, AddUserSubscription
<1>2. /\ u \in Users /\ follow[s].exists \in BOOLEAN /\ follow[s].beside \in BOOLEAN
      /\ Overlapped(s) = IF follow[s].beside THEN 1 ELSE 0
  BY <1>1, WriteFields
<1>3. /\ subscribed' = subscribed \cup {u}
      /\ subscriptionCount' = subscriptionCount + (IF follow[s].exists THEN 0 ELSE 1)
      /\ follow' = Passed(s) /\ overlaps' = overlaps + Overlapped(s)
      /\ replica' = replica
  BY DEF AddUserSubscription
<1> HIDE DEF u
<1>4. /\ Cardinality(subscribed) \in Nat
      /\ Cardinality(subscribed \cup {u}) =
           Cardinality(subscribed) + (IF u \in subscribed THEN 0 ELSE 1)
  BY <1>1, UsersFinite, FS_AddElement
<1>5. ~ follow[s].beside => (follow[s].exists <=> u \in subscribed)
  BY <1>1 DEF SubscriptionPart, FollowInv, u
<1>6. SubscriptionsCounted'
  <2>1. subscriptionCount - Cardinality(subscribed) \in (- overlaps) .. overlaps
    BY DEF SubscriptionPart, SubscriptionsCounted
  <2>2. CASE follow[s].beside
    BY <1>1, <1>2, <1>3, <1>4, <2>1, <2>2 DEF SubscriptionsCounted
  <2>3. CASE ~ follow[s].beside
    BY <1>1, <1>2, <1>3, <1>4, <1>5, <2>1, <2>3 DEF SubscriptionsCounted
  <2> QED
    BY <2>2, <2>3
<1>7. FollowInv'
  BY <1>1, <1>3, PassedType DEF SubscriptionPart, FollowInv, u
<1> QED
  BY <1>1, <1>2, <1>3, <1>6, <1>7, PassedType DEF SubscriptionPart

LEMMA RemoveStep ==
    ASSUME SubscriptionPart, NEW s \in Follows, RemoveUserSubscription(s)
    PROVE  SubscriptionPart'
<1> DEFINE u == follow[s].user
<1>1. /\ follow \in [Follows -> Follow] /\ follow[s].step = "write"
      /\ subscribed \subseteq Users /\ subscriptionCount \in Int /\ overlaps \in Nat
      /\ overlaps' = overlaps + Overlapped(s) /\ replica' = replica
      /\ subscriptionCount - Cardinality(subscribed) \in (- overlaps) .. overlaps
  BY DEF SubscriptionPart, SubscriptionsCounted, RemoveUserSubscription
<1>2. /\ u \in Users /\ follow[s].exists \in BOOLEAN /\ follow[s].beside \in BOOLEAN
      /\ Overlapped(s) = IF follow[s].beside THEN 1 ELSE 0
  BY <1>1, WriteFields
<1>3. /\ Cardinality(subscribed) \in Nat
      /\ Cardinality(subscribed \ {u}) =
           Cardinality(subscribed) - (IF u \in subscribed THEN 1 ELSE 0)
  <2>1. IsFiniteSet(subscribed) /\ Cardinality(subscribed) \in Nat
    BY <1>1, UsersFinite
  <2>2. CASE u \in subscribed
    BY <2>1, <2>2, FS_RemoveElement
  <2>3. CASE u \notin subscribed
    <3>1. subscribed \ {u} = subscribed
      BY <2>3
    <3> QED
      BY <2>1, <2>3, <3>1
  <2> QED
    BY <2>1, <2>2, <2>3
<1>4. CASE follow[s].exists
  <2>1. /\ subscribed' = subscribed \ {u} /\ subscriptionCount' = subscriptionCount - 1
        /\ follow' = Passed(s)
    BY <1>4 DEF RemoveUserSubscription
  <2>2. ~ follow[s].beside => u \in subscribed
    BY <1>1, <1>4 DEF SubscriptionPart, FollowInv
  <2>3. SubscriptionsCounted'
    <3> HIDE DEF u
    <3>1. CASE follow[s].beside
      BY <1>1, <1>2, <1>3, <2>1, <3>1 DEF SubscriptionsCounted
    <3>2. CASE ~ follow[s].beside
      BY <1>1, <1>2, <1>3, <2>1, <2>2, <3>2 DEF SubscriptionsCounted
    <3> QED
      BY <3>1, <3>2
  <2>4. FollowInv'
    BY <1>1, <2>1, PassedType DEF SubscriptionPart, FollowInv
  <2> QED
    BY <1>1, <1>2, <2>1, <2>3, <2>4, PassedType DEF SubscriptionPart
<1>5. CASE ~ follow[s].exists
  <2>1. /\ follow' = [follow EXCEPT ![s] = Done]
        /\ UNCHANGED <<subscribed, subscriptionCount>>
    BY <1>5 DEF RemoveUserSubscription
  <2>2. Done \in Follow /\ Done.step = "done"
    BY DEF Done, Follow
  <2>3. FollowInv'
    BY <1>1, <2>1, <2>2 DEF SubscriptionPart, FollowInv
  <2>4. SubscriptionsCounted'
    <3>1. overlaps' \in Nat /\ overlaps <= overlaps'
      BY <1>1, <1>2
    <3>2. Cardinality(subscribed) \in Nat
      BY <1>3
    <3> QED
      BY <1>1, <2>1, <3>1, <3>2 DEF SubscriptionsCounted
  <2> QED
    BY <1>1, <1>2, <2>1, <2>2, <2>3, <2>4 DEF SubscriptionPart
<1> QED
  BY <1>2, <1>4, <1>5

LEMMA SubscribeStep ==
    ASSUME SubscriptionPart, NEW s \in Follows, Subscribe(s)
    PROVE  SubscriptionPart'
<1>1. ASSUME NEW u \in Followers, NEW add \in BOOLEAN, CheckSubscription(s, u, add)
      PROVE  SubscriptionPart'
  <2> DEFINE q == [step |-> "write", user |-> u, add |-> add, exists |-> u \in subscribed,
                   beside |-> FALSE]
  <2>1. follow' = [follow EXCEPT ![s] = q] /\ UNCHANGED <<subscribed, replica, subscriptionCount, overlaps>>
    BY <1>1 DEF CheckSubscription, tables, history
  <2>2. q \in Follow
    BY DEF Follow
  <2>3. FollowInv'
    BY <2>1 DEF SubscriptionPart, FollowInv
  <2> QED
    BY <2>1, <2>2, <2>3 DEF SubscriptionPart, SubscriptionsCounted
<1>2. CASE FailSubscription(s)
  <2>1. /\ follow' = [follow EXCEPT ![s] = Done]
        /\ UNCHANGED <<subscribed, replica, subscriptionCount, overlaps>>
    BY <1>2 DEF FailSubscription, tables, history
  <2>2. Done \in Follow /\ Done.step = "done"
    BY DEF Done, Follow
  <2>3. FollowInv'
    BY <2>1, <2>2 DEF SubscriptionPart, FollowInv
  <2> QED
    BY <2>1, <2>2, <2>3 DEF SubscriptionPart, SubscriptionsCounted
<1> QED
  BY <1>1, <1>2, AddStep, RemoveStep DEF Subscribe

-----------------------------------------------------------------------------
(* Settings *)

LEMMA WithType ==
    ASSUME NEW old \in Config, NEW change \in Changes
    PROVE  With(old, change) \in Config
<1>1. change \in [notify : (SUBSET Switchable) \cup {Keep}, folded : {"hide", "show", Keep}]
  BY ChangesAssumption
<1> QED
  BY <1>1 DEF With, Config

LEMMA ModifyStep ==
    ASSUME SettingPart, NEW c \in Settings, ModifyUser(c)
    PROVE  SettingPart'
<1>0. Setters \subseteq Users
  BY UsersAssumption
<1>1. ASSUME NEW u \in Setters, NEW change \in Changes, ReadConfig(c, u, change)
      PROVE  SettingPart'
  <2> DEFINE q == [step |-> "write", user |-> u, change |-> change,
                   config |-> With(config[u], change), beside |-> FALSE]
  <2>1. setting' = [setting EXCEPT ![c] = q] /\ UNCHANGED <<config, asked, raced>>
    BY <1>1 DEF ReadConfig, tables, history
  <2>2. With(config[u], change) \in Config
    BY <1>0, WithType DEF SettingPart
  <2>3. q \in Setting
    BY <2>2 DEF Setting
  <2>4. setting' \in [Settings -> Setting]
    BY <2>1, <2>3 DEF SettingPart
  <2>5. SettingInv'
    BY <2>1 DEF SettingPart, SettingInv, With
  <2> QED
    BY <2>1, <2>4, <2>5 DEF SettingPart, SettingsKept
<1>2. CASE WriteConfig(c)
  <2> DEFINE u == setting[c].user
  <2>1. /\ setting \in [Settings -> Setting] /\ setting[c].step = "write"
        /\ config \in [Users -> Config] /\ asked \in [Users -> Config]
    BY <1>2 DEF SettingPart, WriteConfig
  <2>2. /\ u \in Users /\ setting[c].change \in Changes /\ setting[c].config \in Config
    BY <1>0, <2>1 DEF Setting
  <2>3. /\ config' = [config EXCEPT ![u] = setting[c].config]
        /\ asked' = [asked EXCEPT ![u] = With(asked[u], setting[c].change)]
        /\ raced' = IF setting[c].beside THEN raced \cup {u} ELSE raced
        /\ setting' = [d \in Settings |->
                        IF d = c THEN Done
                        ELSE IF setting[d].step = "write" /\ setting[d].user = u
                             THEN [setting[d] EXCEPT !.beside = TRUE]
                        ELSE setting[d]]
    BY <1>2 DEF WriteConfig, Written
  <2>4. config' \in [Users -> Config] /\ asked' \in [Users -> Config]
    BY <2>1, <2>2, <2>3, WithType
  <2>5. Done \in Setting /\ Done.step = "done"
    BY DEF Done, Setting
  <2>6. \A d \in Settings : setting[d].step = "write" =>
          /\ [setting[d] EXCEPT !.beside = TRUE] \in Setting
          /\ [setting[d] EXCEPT !.beside = TRUE].beside = TRUE
    BY <2>1 DEF Setting
  <2>7. setting' \in [Settings -> Setting]
    BY <2>1, <2>3, <2>5, <2>6
  <2>8. SettingsKept'
    <3> SUFFICES ASSUME NEW v \in Users, config'[v] # asked'[v]
                 PROVE  v \in raced'
      BY DEF SettingsKept
    <3>1. CASE v # u
      BY <2>1, <2>3, <3>1 DEF SettingPart, SettingsKept
    <3>2. CASE v = u
      <4>1. setting[c].config # With(asked[u], setting[c].change)
        BY <2>1, <2>2, <2>3, <3>2
      <4>2. CASE setting[c].beside
        BY <2>3, <3>2, <4>2
      <4>3. CASE ~ setting[c].beside
        <5>1. setting[c].config = With(config[u], setting[c].change)
          BY <2>1, <4>3 DEF SettingPart, SettingInv
        <5>2. config[u] # asked[u]
          BY <4>1, <5>1
        <5> QED
          BY <2>2, <2>3, <3>2, <5>2 DEF SettingPart, SettingsKept
      <4> QED
        BY <4>2, <4>3
    <3> QED
      BY <3>1, <3>2
  <2>9. SettingInv'
    <3> SUFFICES ASSUME NEW d \in Settings, setting'[d].step = "write", ~ setting'[d].beside
                 PROVE  setting'[d].config = With(config'[setting'[d].user], setting'[d].change)
      BY DEF SettingInv, With
    <3>1. d # c /\ setting'[d] = setting[d] /\ setting[d].user # u
      BY <2>3, <2>5, <2>6
    <3>2. setting[d].user \in Users
      BY <1>0, <2>1, <3>1 DEF Setting
    <3>3. config'[setting[d].user] = config[setting[d].user]
      BY <2>1, <2>3, <3>1, <3>2
    <3> QED
      BY <3>1, <3>3 DEF SettingPart, SettingInv
  <2> QED
    BY <2>4, <2>7, <2>8, <2>9 DEF SettingPart
<1> QED
  BY <1>1, <1>2 DEF ModifyUser

-----------------------------------------------------------------------------
(* Messages to send *)

LEMMA OwnRange ==
    ASSUME NEW S, NEW q \in Seq(S)
    PROVE  q \in Seq({q[i] : i \in DOMAIN q})
OBVIOUS

LEMMA QueueEmpty == IsQueue(<<>>)
<1>1. <<>> \in Seq({})
  OBVIOUS
<1> QED
  BY <1>1, OwnRange DEF IsQueue

LEMMA QueueOne ==
    ASSUME NEW n, IsNote(n)
    PROVE  IsQueue(<<n>>)
<1>1. <<n>> \in Seq({n}) /\ Len(<<n>>) = 1 /\ <<n>>[1] = n
  OBVIOUS
<1>2. <<n>> \in Seq({<<n>>[i] : i \in DOMAIN <<n>>})
  BY <1>1, OwnRange
<1> QED
  BY <1>1, <1>2 DEF IsQueue

LEMMA QueueAppend ==
    ASSUME NEW q, IsQueue(q), NEW n, IsNote(n)
    PROVE  IsQueue(Append(q, n))
<1> DEFINE R == {q[i] : i \in DOMAIN q}
           S == R \cup {n}
           p == Append(q, n)
<1>1. q \in Seq(R) /\ \A i \in 1..Len(q) : IsNote(q[i])
  BY DEF IsQueue
<1> HIDE DEF R
<1>2. q \in Seq(S) /\ n \in S /\ Len(q) \in Nat
  BY <1>1
<1> HIDE DEF S
<1>3. /\ p \in Seq(S) /\ Len(p) = Len(q) + 1 /\ p[Len(q) + 1] = n
      /\ \A i \in 1..Len(q) : p[i] = q[i]
  BY <1>2
<1>4. p \in Seq({p[i] : i \in DOMAIN p})
  BY <1>3, OwnRange
<1>5. \A i \in 1..Len(p) : IsNote(p[i])
  BY <1>1, <1>2, <1>3
<1> QED
  BY <1>4, <1>5 DEF IsQueue

LEMMA QueueTail ==
    ASSUME NEW q, IsQueue(q), q # <<>>
    PROVE  IsNote(Head(q)) /\ IsQueue(Tail(q))
<1> DEFINE R == {q[i] : i \in DOMAIN q}
           p == Tail(q)
<1>1. q \in Seq(R) /\ \A i \in 1..Len(q) : IsNote(q[i])
  BY DEF IsQueue
<1> HIDE DEF R
<1>2. /\ Len(q) \in Nat \ {0} /\ Head(q) = q[1] /\ p \in Seq(R) /\ Len(p) = Len(q) - 1
      /\ \A i \in 1..Len(p) : p[i] = q[i + 1]
  BY <1>1
<1> HIDE DEF p
<1>3. p \in Seq({p[i] : i \in DOMAIN p})
  BY <1>2, OwnRange
<1>4. \A i \in 1..Len(p) : i + 1 \in 1..Len(q)
  BY <1>2
<1>5. \A i \in 1..Len(p) : IsNote(p[i])
  BY <1>1, <1>2, <1>4
<1> QED
  BY <1>1, <1>2, <1>3, <1>5 DEF IsQueue, p

LEMMA MergeOK ==
    ASSUME NEW q, IsQueue(q), NEW type \in Types, NEW to, DOMAIN to \subseteq Users
    PROVE  IsQueue(Merge(q, Note(type, to)))
<1> DEFINE N == Note(type, to)
           left(u) == Copies(u, to) - Cardinality(Places(q, u))
           users == {u \in DOMAIN to : left(u) > 0}
           less == [u \in users |-> left(u)]
           n == [type |-> type, to |-> less]
<1>1. N.to = to /\ N = [type |-> type, to |-> to]
  BY DEF Note
<1>2. DOMAIN less \subseteq Users
  OBVIOUS
<1> HIDE DEF N
<1>3. Merge(q, N) = IF users = {} THEN q ELSE Append(q, n)
  <2>1. Merge(q, N) = IF users = {} THEN q ELSE Append(q, [N EXCEPT !.to = less])
    BY <1>1 DEF Merge, BagToSet
  <2> HIDE DEF less
  <2>2. [N EXCEPT !.to = less] = n
    BY <1>1
  <2> QED
    BY <2>1, <2>2
<1> HIDE DEF less
<1>4. IsNote(n)
  BY <1>2 DEF IsNote, BagToSet
<1> QED
  BY <1>3, <1>4, QueueAppend DEF N

LEMMA OneNote ==
    ASSUME NEW type \in Types, NEW S, S \subseteq Users
    PROVE  IsQueue(<<Note(type, SetToBag(S))>>)
<1>1. IsNote(Note(type, SetToBag(S)))
  BY DEF IsNote, Note, SetToBag, BagToSet
<1> QED
  BY <1>1, QueueOne

-----------------------------------------------------------------------------
(* Mail *)

\* What SenderOK says of a handler that does not remove a floor.
LocalOK(h, q) ==
    /\ q.step \in {"new", "created", "send", "store", "done"}
    /\ q.step = "created" => h \in Posts
    /\ q.step \in {"send", "store"} => q.floor \in Floors \cup {None} /\ IsQueue(q.queue)
    /\ q.step = "store" => q.queue # <<>> /\ q.to \in (SUBSET Users) \ {{}}

\* A step of one handler, which may change the state of floors that are there.
LEMMA OneSender ==
    ASSUME MailPart, NEW h \in Senders, NEW q, To(h, q),
           \A f \in Floors : floor[f].state # "none" => floor'[f].state # "none",
           \/ LocalOK(h, q)
           \/ q.step = "remove" /\ q.floor \in Floors /\ floor'[q.floor].state # "none"
    PROVE  DOMAIN sender' = Senders /\ \A x \in Senders : SenderOK(x)'
<1>1. /\ DOMAIN sender = Senders
      /\ sender' = [sender EXCEPT ![h] = q]
  BY DEF MailPart, To
<1>2. DOMAIN sender' = Senders /\ \A x \in Senders : sender'[x] = IF x = h THEN q ELSE sender[x]
  BY <1>1
<1>3. ASSUME NEW x \in Senders
      PROVE  SenderOK(x)'
  <2>1. CASE x = h
    <3>1. sender'[x] = q
      BY <1>2, <2>1
    <3>2. IsQueue(q.queue) => IsQueue(sender[x].queue)'
      BY <3>1 DEF IsQueue, IsNote, BagToSet
    <3> QED
      BY <2>1, <3>1, <3>2 DEF SenderOK, At, LocalOK
  <2>2. CASE x # h
    <3>1. sender'[x] = sender[x] /\ SenderOK(x)
      BY <1>2, <2>2 DEF MailPart
    <3>2. IsQueue(sender[x].queue) => IsQueue(sender[x].queue)'
      BY <3>1 DEF IsQueue, IsNote, BagToSet
    <3> QED
      BY <3>1, <3>2 DEF SenderOK, At
  <2> QED
    BY <2>1, <2>2
<1> QED
  BY <1>2, <1>3

\* A step of one handler that changes no table.
LEMMA QuietStep ==
    ASSUME MailPart, NEW h \in Senders, NEW q, To(h, q), LocalOK(h, q),
           UNCHANGED <<floor, message, inbox, read, removal, late>>
    PROVE  MailPart'
<1>1. DOMAIN sender' = Senders /\ \A x \in Senders : SenderOK(x)'
  BY OneSender
<1>2. (floor \in [Floors -> Row] /\ FloorsOK)'
  BY DEF MailPart, FloorsOK
<1>3. (message \subseteq Message /\ InboxWhole /\ DeletedFloorsForgotten)'
  BY DEF MailPart, InboxWhole, DeletedFloorsForgotten
<1>4. RemovalInv'
  <2>1. \A x \in Senders : sender'[x] = IF x = h THEN q ELSE sender[x]
    BY DEF MailPart, To
  <2> QED
    BY <2>1 DEF MailPart, RemovalInv, At, LocalOK
<1> QED
  BY <1>1, <1>2, <1>3, <1>4 DEF MailPart

LEMMA Next1OK ==
    ASSUME MailPart, NEW h \in Senders, sender[h].step \in {"send", "store"},
           sender[h].queue # <<>>
    PROVE  LocalOK(h, Next1(h)) /\ IsNote(Head(sender[h].queue))
<1>1. /\ IsQueue(sender[h].queue) /\ sender[h].floor \in Floors \cup {None}
  BY DEF MailPart, SenderOK, At
<1>2. IsNote(Head(sender[h].queue)) /\ IsQueue(Tail(sender[h].queue))
  BY <1>1, QueueTail
<1> QED
  BY <1>1, <1>2 DEF LocalOK, Next1, Done, Sending

LEMMA DoneOK == \A h : LocalOK(h, Done)
BY DEF LocalOK, Done

\* Those who want a message are among its recipients.
LEMMA WantingOK ==
    ASSUME NEW n, IsNote(n)
    PROVE  Wanting(n) \subseteq Users
BY DEF Wanting, IsNote

LEMMA SendStep ==
    ASSUME MailPart, NEW h \in Senders, Send(h)
    PROVE  MailPart'
<1>1. CASE Skip(h)
  <2>1. sender[h].step = "send" /\ UNCHANGED <<floor, message, inbox, read, removal, late>>
    BY <1>1 DEF Skip, At, tables
  <2>2. To(h, Done) \/ (sender[h].queue # <<>> /\ To(h, Next1(h)))
    BY <1>1 DEF Skip
  <2> QED
    BY <2>1, <2>2, Next1OK, DoneOK, QuietStep
<1>2. CASE CheckConfig(h)
  <2> DEFINE w == Wanting(Head(sender[h].queue))
             q == [step |-> "store", floor |-> sender[h].floor, queue |-> sender[h].queue,
                   to |-> w]
  <2>1. /\ sender[h].step = "send" /\ sender[h].queue # <<>> /\ To(h, q)
        /\ w # {}
        /\ UNCHANGED <<floor, message, inbox, read, removal, late>>
    BY <1>2 DEF CheckConfig, At, tables, history
  <2>2. IsQueue(sender[h].queue) /\ sender[h].floor \in Floors \cup {None}
    BY <2>1 DEF MailPart, SenderOK, At
  <2>3. w \subseteq Users
    BY <2>1, Next1OK, WantingOK
  <2> HIDE DEF w
  <2>4. LocalOK(h, q)
    BY <2>1, <2>2, <2>3 DEF LocalOK
  <2> HIDE DEF q
  <2> QED
    BY <2>1, <2>4, QuietStep
<1>3. CASE FailStore(h)
  <2>1. To(h, Done) /\ UNCHANGED <<floor, message, inbox, read, removal, late>>
    BY <1>3 DEF FailStore, tables
  <2> QED
    BY <2>1, DoneOK, QuietStep
<1>4. CASE Store(h)
  <2> DEFINE m == [about |-> sender[h].floor, type |-> Head(sender[h].queue).type, from |-> h]
  <2>1. /\ sender[h].step = "store" /\ message' = message \cup {m}
        /\ inbox' = inbox \cup ({m} \X sender[h].to)
        /\ late' = IF m.about \in removal THEN late \cup {m} ELSE late
        /\ UNCHANGED <<floor, read, removal>>
        /\ To(h, Next1(h)) \/ To(h, Done)
    BY <1>4 DEF Store, Stored, At
  <2>2. /\ sender[h].queue # <<>> /\ sender[h].to \in (SUBSET Users) \ {{}}
        /\ sender[h].floor \in Floors \cup {None}
    BY <2>1 DEF MailPart, SenderOK, At
  <2>3. LocalOK(h, Next1(h)) /\ Head(sender[h].queue).type \in Types
    BY <2>1, <2>2, Next1OK DEF IsNote
  <2>4. m \in Message
    BY <2>2, <2>3 DEF Message
  <2>5. PICK q : To(h, q) /\ LocalOK(h, q)
    BY <2>1, <2>3, DoneOK
  <2> HIDE DEF m
  <2>6. DOMAIN sender' = Senders /\ \A x \in Senders : SenderOK(x)'
    BY <2>1, <2>5, OneSender
  <2>7. (floor \in [Floors -> Row] /\ FloorsOK)'
    BY <2>1 DEF MailPart, FloorsOK
  <2>8. (message \subseteq Message /\ InboxWhole)'
    <3>1. \A n \in message' : \E u \in Users : <<n, u>> \in inbox'
      <4>1. PICK v \in Users : v \in sender[h].to
        BY <2>2
      <4>2. <<m, v>> \in inbox'
        BY <2>1, <4>1
      <4>3. \A n \in message : \E u \in Users : <<n, u>> \in inbox'
        BY <2>1 DEF MailPart, InboxWhole
      <4> QED
        BY <2>1, <4>1, <4>2, <4>3
    <3>2. inbox' \subseteq message' \X Users /\ read' \subseteq inbox'
      BY <2>1, <2>2 DEF MailPart, InboxWhole
    <3> QED
      BY <2>1, <2>4, <3>1, <3>2 DEF MailPart, InboxWhole
  <2>9. DeletedFloorsForgotten'
    BY <2>1 DEF MailPart, DeletedFloorsForgotten, RemovalInv
  <2>10. RemovalInv'
    <3>1. \A x \in Senders : sender'[x] = IF x = h THEN q ELSE sender[x]
      BY <2>5 DEF MailPart, To
    <3> QED
      BY <2>1, <2>5, <3>1 DEF MailPart, RemovalInv, At, LocalOK
  <2> QED
    BY <2>6, <2>7, <2>8, <2>9, <2>10 DEF MailPart
<1> QED
  BY <1>1, <1>2, <1>3, <1>4 DEF Send

\* A floor that is there has an author.
LEMMA AuthorOK ==
    ASSUME MailPart, NEW f \in Floors, floor[f].state # "none"
    PROVE  floor[f].by \in Users
BY DEF MailPart, FloorsOK

LEMMA ModifyNoteOK ==
    ASSUME NEW h, NEW f \in Floors \cup {None}, NEW type \in Types, NEW S, S \subseteq Users
    PROVE  LocalOK(h, Sending(f, <<Note(type, SetToBag(S))>>))
<1> DEFINE Q == <<Note(type, SetToBag(S))>>
<1>1. IsQueue(Q)
  BY OneNote
<1> HIDE DEF Q
<1>2. LocalOK(h, Sending(f, Q))
  BY <1>1 DEF LocalOK, Sending
<1> QED
  BY <1>2 DEF Q

LEMMA AnnouncementsOK ==
    ASSUME MailPart, NEW p \in Posts, NEW A \in SUBSET {Owner}, NEW S \in SUBSET Users
    PROVE  IsQueue(Announcements(p, A, S))
<1>1. p \in Floors /\ Owner \in Users
  BY UsersAssumption DEF Floors
<1>2. IsQueue(Merge(<<>>, SendReply(p, A)))
  <2>1. DOMAIN SetToBag(A \ {floor[p].by}) \subseteq Users
    BY <1>1 DEF SetToBag
  <2> QED
    BY <2>1, QueueEmpty, MergeOK DEF SendReply, Types
<1>3. IsQueue(Merge(Merge(<<>>, SendReply(p, A)), SendMention(p)))
  <2> DEFINE users == {floor[f].by : f \in floor[p].mention} \ {floor[p].by}
             bag == [u \in users |-> Mentions(p, u)]
  <2>1. floor[p].mention \subseteq Floors
    BY <1>1 DEF MailPart, Row
  <2>2. \A f \in floor[p].mention : floor[f].by \in Users
    BY <1>1, <2>1, AuthorOK DEF MailPart, FloorsOK
  <2>3. DOMAIN bag \subseteq Users
    BY <2>2
  <2>4. SendMention(p) = Note("mention", bag)
    BY DEF SendMention
  <2> HIDE DEF bag
  <2> QED
    BY <1>2, <2>3, <2>4, MergeOK DEF Types
<1>4. DOMAIN SetToBag(S \ {floor[p].by}) \subseteq Users
  BY DEF SetToBag
<1> QED
  BY <1>3, <1>4, MergeOK DEF Announcements, SendSubscription, Types

LEMMA PostStep ==
    ASSUME MailPart, subscribed \subseteq Users, replica \subseteq Users, NEW p \in Posts,
           Post(p)
    PROVE  MailPart'
<1>0. p \in Senders /\ p \in Floors
  BY DEF Senders, Floors
<1>1. CASE Collect(p)
  <2>1. UNCHANGED <<floor, message, inbox, read, removal, late>>
    BY <1>1 DEF Collect, tables
  <2>2. PICK Q : To(p, Sending(p, Q)) /\ IsQueue(Q)
    <3>1. AdminList \subseteq Users /\ "sensitive" \in Types
      BY UsersAssumption DEF Types
    <3>2. IsQueue(Merge(<<>>, Note("sensitive", SetToBag(AdminList))))
      <4>1. DOMAIN SetToBag(AdminList) \subseteq Users
        BY <3>1 DEF SetToBag
      <4> QED
        BY <3>1, <4>1, QueueEmpty, MergeOK
    <3>3. CASE floor[p].sensitive
      BY <1>1, <3>2, <3>3 DEF Collect
    <3>4. CASE ~ floor[p].sensitive
      <4>1. PICK A \in {{Owner}, {}}, S \in {subscribed, replica, {}} :
              To(p, Sending(p, Announcements(p, A, S)))
        BY <1>1, <3>4 DEF Collect
      <4>2. IsQueue(Announcements(p, A, S))
        BY AnnouncementsOK
      <4> QED
        BY <4>1, <4>2
    <3> QED
      BY <3>3, <3>4
  <2>3. LocalOK(p, Sending(p, Q))
    BY <1>0, <2>2 DEF LocalOK, Sending
  <2> QED
    BY <1>0, <2>1, <2>2, <2>3, QuietStep
<1>2. ASSUME NEW u \in Users, NEW S \in SUBSET OldFloors, NEW b \in BOOLEAN,
             CreateFloor(p, u, S, b)
      PROVE  MailPart'
  <2> DEFINE row == [state |-> "live", by |-> u, mention |-> S, sensitive |-> b]
             q == [step |-> "created"]
  <2>1. /\ \A f \in S : floor[f].state # "none"
        /\ floor' = [floor EXCEPT ![p] = row]
        /\ To(p, q)
        /\ UNCHANGED <<message, inbox, read, removal, late>>
    BY <1>2 DEF CreateFloor, history
  <2>2. S \subseteq Floors
    BY DEF Floors
  <2>3. row \in Row /\ row.state = "live" /\ row.by = u /\ row.mention = S
    BY <2>2 DEF Row
  <2>4. LocalOK(p, q) /\ q.step = "created"
    BY DEF LocalOK
  <2> HIDE DEF row, q
  <2>5. /\ floor' \in [Floors -> Row]
        /\ \A f \in Floors : floor'[f] = IF f = p THEN row ELSE floor[f]
    BY <1>0, <2>1, <2>3 DEF MailPart
  <2>6. \A f \in Floors : floor[f].state # "none" => floor'[f].state # "none"
    BY <2>3, <2>5
  <2>7. DOMAIN sender' = Senders /\ \A x \in Senders : SenderOK(x)'
    BY <1>0, <2>1, <2>4, <2>6, OneSender
  <2>8. FloorsOK'
    <3> SUFFICES ASSUME NEW f \in Floors
                 PROVE  /\ floor'[f].state # "none" => floor'[f].by \in Users
                        /\ \A g \in floor'[f].mention : floor'[g].state # "none"
      BY DEF FloorsOK
    <3>1. CASE f = p
      BY <2>1, <2>2, <2>3, <2>5, <2>6, <3>1
    <3>2. CASE f # p
      <4>1. floor'[f] = floor[f] /\ floor[f].mention \subseteq Floors
        BY <2>5, <3>2 DEF MailPart, Row
      <4> QED
        BY <2>6, <4>1 DEF MailPart, FloorsOK
    <3> QED
      BY <3>1, <3>2
  <2>9. DeletedFloorsForgotten'
    BY <2>1, <2>3, <2>5 DEF MailPart, DeletedFloorsForgotten
  <2>10. RemovalInv'
    <3>1. \A x \in Senders : sender'[x] = IF x = p THEN q ELSE sender[x]
      BY <1>0, <2>1 DEF MailPart, To
    <3>2. \A f \in Floors : floor'[f].state = "deleted" => f \in removal'
      BY <2>1, <2>3, <2>5 DEF MailPart, RemovalInv
    <3> QED
      BY <2>1, <2>4, <3>1, <3>2 DEF MailPart, RemovalInv, At
  <2>11. (message \subseteq Message /\ InboxWhole)'
    BY <2>1 DEF MailPart, InboxWhole
  <2> QED
    BY <2>5, <2>7, <2>8, <2>9, <2>10, <2>11 DEF MailPart
<1> QED
  BY <1>1, <1>2 DEF Post

\* Messages go with their rows in the inbox and with what was read.
LEMMA DroppedOK ==
    ASSUME MailPart, NEW M, Dropped(M)
    PROVE  /\ message' = message \ M
           /\ message' \subseteq Message
           /\ InboxWhole'
<1>1. /\ message' = message \ M /\ inbox' = {i \in inbox : i[1] \notin M}
      /\ read' = {i \in read : i[1] \notin M}
  BY DEF Dropped
<1>2. /\ message \subseteq Message /\ inbox \subseteq message \X Users /\ read \subseteq inbox
      /\ \A m \in message : \E u \in Users : <<m, u>> \in inbox
  BY DEF MailPart, InboxWhole
<1>3. \A m \in message' : \E u \in Users : <<m, u>> \in inbox'
  BY <1>1, <1>2
<1>4. inbox' \subseteq message' \X Users
  BY <1>1, <1>2
<1>5. read' \subseteq inbox'
  BY <1>1, <1>2
<1> QED
  BY <1>1, <1>2, <1>3, <1>4, <1>5 DEF InboxWhole

LEMMA TaskStep ==
    ASSUME MailPart, NEW x \in Tasks, Task(x)
    PROVE  MailPart'
<1>0. x \in Senders
  BY DEF Senders
<1>1. ASSUME NEW u \in Users, NEW f \in Floors, NEW review \in BOOLEAN,
             PluckMessages(x, u, f, review)
      PROVE  MailPart'
  <2> DEFINE F == {m \in message : m.about = f}
             q == [step |-> "remove", floor |-> f, tell |-> ~ review /\ u # floor[f].by,
                   found |-> F]
  <2>1. /\ floor[f].state # "none" /\ To(x, q) /\ removal' = removal \cup {f}
        /\ UNCHANGED <<floor, message, inbox, read, late>>
    BY <1>1 DEF PluckMessages, tables
  <2>2. q.step = "remove" /\ q.floor = f /\ q.found = F
    OBVIOUS
  <2>3. \A m \in message : m.about = f <=> m \in F
    OBVIOUS
  <2>f. \A m \in F : m.about = f
    OBVIOUS
  <2> HIDE DEF q, F
  <2>4. DOMAIN sender' = Senders /\ \A y \in Senders : SenderOK(y)'
    BY <1>0, <2>1, <2>2, OneSender
  <2>5. (floor \in [Floors -> Row] /\ FloorsOK)'
    BY <2>1 DEF MailPart, FloorsOK
  <2>6. (message \subseteq Message /\ InboxWhole /\ DeletedFloorsForgotten)'
    BY <2>1 DEF MailPart, InboxWhole, DeletedFloorsForgotten
  <2>7. RemovalInv'
    <3>1. \A y \in Senders : sender'[y] = IF y = x THEN q ELSE sender[y]
      BY <1>0, <2>1 DEF MailPart, To
    <3> QED
      BY <2>1, <2>2, <2>3, <2>f, <3>1 DEF MailPart, RemovalInv, At
  <2> QED
    BY <2>4, <2>5, <2>6, <2>7 DEF MailPart
<1>2. ASSUME NEW u \in Users, NEW f \in Floors, EditFloor(x, u, f)
      PROVE  MailPart'
  <2>1. /\ floor[f].state # "none"
        /\ To(x, Sending(f, <<Note("modify", SetToBag({floor[f].by}))>>))
        /\ UNCHANGED <<floor, message, inbox, read, removal, late>>
    BY <1>2 DEF EditFloor, tables, history
  <2>2. {floor[f].by} \subseteq Users /\ "modify" \in Types
    BY <2>1, AuthorOK DEF Types
  <2>3. LocalOK(x, Sending(f, <<Note("modify", SetToBag({floor[f].by}))>>))
    BY <2>2, ModifyNoteOK
  <2> QED
    BY <1>0, <2>1, <2>3, QuietStep
<1>3. ASSUME NEW S \in Mails, SendMail(x, S)
      PROVE  MailPart'
  <2>1. /\ To(x, Sending(None, <<Note("mail", SetToBag(S))>>))
        /\ UNCHANGED <<floor, message, inbox, read, removal, late>>
    BY <1>3 DEF SendMail, tables, history
  <2>2. S \subseteq Users /\ "mail" \in Types
    BY UsersAssumption DEF Types
  <2>3. LocalOK(x, Sending(None, <<Note("mail", SetToBag(S))>>))
    BY <2>2, ModifyNoteOK
  <2> QED
    BY <1>0, <2>1, <2>3, QuietStep
<1>4. CASE FailRemove(x)
  <2>1. To(x, Done) /\ UNCHANGED <<floor, message, inbox, read, removal, late>>
    BY <1>4 DEF FailRemove, tables, history
  <2> QED
    BY <1>0, <2>1, DoneOK, QuietStep
<1>5. CASE RemoveFloor(x)
  <2> DEFINE f == sender[x].floor
             M == sender[x].found
  <2>1. /\ sender[x].step = "remove" /\ Dropped(M)
        /\ floor' = [floor EXCEPT ![f].state = "deleted"]
        /\ UNCHANGED <<removal, late>>
    BY <1>5 DEF RemoveFloor, At, history
  <2>2. f \in Floors /\ floor[f].state # "none" /\ floor[f].by \in Users
    BY <1>0, <2>1, AuthorOK DEF MailPart, SenderOK, At
  <2>3. PICK q : To(x, q) /\ LocalOK(x, q)
    <3>1. {floor[f].by} \subseteq Users /\ "modify" \in Types
      BY <2>2 DEF Types
    <3>2. LocalOK(x, Sending(f, <<Note("modify", SetToBag({floor[f].by}))>>))
      BY <2>2, <3>1, ModifyNoteOK
    <3> QED
      BY <1>5, <3>2, DoneOK DEF RemoveFloor
  <2>4. f \in removal /\ \A m \in message : m.about = f => m \in M \cup late
    BY <1>0, <2>1 DEF MailPart, RemovalInv, At
  <2> HIDE DEF f, M
  <2>5. /\ floor \in [Floors -> Row] /\ floor' \in [Floors -> Row]
        /\ \A g \in Floors : /\ floor'[g].by = floor[g].by
                             /\ floor'[g].mention = floor[g].mention
                             /\ floor'[g].state = IF g = f THEN "deleted" ELSE floor[g].state
    BY <2>1, <2>2 DEF MailPart, Row
  <2>6. \A g \in Floors : floor[g].state # "none" => floor'[g].state # "none"
    BY <2>5
  <2>7. DOMAIN sender' = Senders /\ \A y \in Senders : SenderOK(y)'
    BY <1>0, <2>3, <2>6, OneSender
  <2>8. FloorsOK'
    <3>1. \A g \in Floors : floor[g].mention \subseteq Floors
      BY <2>5 DEF Row
    <3> QED
      BY <2>2, <2>5, <2>6, <3>1 DEF MailPart, FloorsOK
  <2>9. message' = message \ M /\ message' \subseteq Message /\ InboxWhole'
    BY <2>1, DroppedOK
  <2>10. DeletedFloorsForgotten'
    BY <2>1, <2>4, <2>5, <2>9 DEF MailPart, DeletedFloorsForgotten
  <2>11. RemovalInv'
    <3>1. \A y \in Senders : sender'[y] = IF y = x THEN q ELSE sender[y]
      BY <1>0, <2>3 DEF MailPart, To
    <3>2. \A g \in Floors : floor'[g].state = "deleted" => g \in removal'
      BY <2>1, <2>4, <2>5 DEF MailPart, RemovalInv
    <3> QED
      BY <2>1, <2>3, <2>9, <3>1, <3>2 DEF MailPart, RemovalInv, At, LocalOK
  <2> QED
    BY <2>5, <2>7, <2>8, <2>9, <2>10, <2>11 DEF MailPart
<1> QED
  BY <1>1, <1>2, <1>3, <1>4, <1>5 DEF Task

LEMMA ReadStep ==
    ASSUME MailPart, NEW u, Read(u)
    PROVE  MailPart'
<1>1. /\ UNCHANGED <<floor, message, inbox, sender, removal, late>>
      /\ read' \subseteq inbox'
  BY DEF Read, ClearMessages, DeleteMessage, history, MailPart, InboxWhole
<1>2. DOMAIN sender' = Senders /\ \A x \in Senders : SenderOK(x)'
  <2> SUFFICES ASSUME NEW x \in Senders
               PROVE  SenderOK(x)'
    BY <1>1 DEF MailPart
  <2>1. SenderOK(x)
    BY DEF MailPart
  <2>2. IsQueue(sender[x].queue) => IsQueue(sender[x].queue)'
    BY <1>1 DEF IsQueue, IsNote, BagToSet
  <2> QED
    BY <1>1, <2>1, <2>2 DEF SenderOK, At
<1>3. (floor \in [Floors -> Row] /\ FloorsOK)'
  BY <1>1 DEF MailPart, FloorsOK
<1>4. (message \subseteq Message /\ InboxWhole)'
  BY <1>1 DEF MailPart, InboxWhole
<1>5. (DeletedFloorsForgotten /\ RemovalInv)'
  BY <1>1 DEF MailPart, DeletedFloorsForgotten, RemovalInv, At
<1> QED
  BY <1>2, <1>3, <1>4, <1>5 DEF MailPart

LEMMA PurgeStep ==
    ASSUME MailPart, PurgeMessage
    PROVE  MailPart'
<1>1. PICK M : Dropped(M)
  BY DEF PurgeMessage
<1>2. UNCHANGED <<floor, sender, removal, late>>
  BY DEF PurgeMessage
<1>3. message' = message \ M /\ message' \subseteq Message /\ InboxWhole'
  BY <1>1, DroppedOK
<1>4. DOMAIN sender' = Senders /\ \A x \in Senders : SenderOK(x)'
  <2> SUFFICES ASSUME NEW x \in Senders
               PROVE  SenderOK(x)'
    BY <1>2 DEF MailPart
  <2>1. SenderOK(x)
    BY DEF MailPart
  <2>2. IsQueue(sender[x].queue) => IsQueue(sender[x].queue)'
    BY <1>2 DEF IsQueue, IsNote, BagToSet
  <2> QED
    BY <1>2, <2>1, <2>2 DEF SenderOK, At
<1>5. (floor \in [Floors -> Row] /\ FloorsOK)'
  BY <1>2 DEF MailPart, FloorsOK
<1>6. (DeletedFloorsForgotten /\ RemovalInv)'
  BY <1>2, <1>3 DEF MailPart, DeletedFloorsForgotten, RemovalInv, At
<1> QED
  BY <1>3, <1>4, <1>5, <1>6 DEF MailPart

-----------------------------------------------------------------------------
(* Merging *)

\* Lists in which every recipient occurs.
BagOK(to) == \A u \in DOMAIN to : to[u] \in Nat \ {0}

BagsOK(q) ==
    /\ q \in Seq({q[i] : i \in DOMAIN q})
    /\ \A i \in 1..Len(q) : BagOK(q[i].to)

\* Whom the messages q of a type are for.
For(q, type) == {u \in Users : \E i \in 1..Len(q) : q[i].type = type /\ u \in DOMAIN q[i].to}

OnePerType(q) == \A i, j \in 1..Len(q) : q[i].type = q[j].type => i = j

LEMMA PlacesOf ==
    ASSUME NEW q, BagsOK(q), NEW u
    PROVE  /\ IsFiniteSet(Places(q, u)) /\ Cardinality(Places(q, u)) \in Nat
           /\ Cardinality(Places(q, u)) = 0 <=> \A i \in 1..Len(q) : u \notin DOMAIN q[i].to
<1> DEFINE P(i) == {i} \X (1..Copies(u, q[i].to))
           D == DOMAIN q
<1>1. D = 1..Len(q) /\ Len(q) \in Nat
  BY DEF BagsOK
<1>2. \A i \in D : /\ Copies(u, q[i].to) \in Nat
                   /\ Copies(u, q[i].to) = 0 <=> u \notin DOMAIN q[i].to
  BY <1>1 DEF BagsOK, BagOK, Copies, BagToSet
<1>3. \A i \in D : IsFiniteSet(P(i))
  <2> TAKE i \in D
  <2>1. \A c \in Nat : IsFiniteSet(1..c)
    BY FS_Interval
  <2>2. IsFiniteSet({i}) /\ IsFiniteSet(1..Copies(u, q[i].to))
    BY <1>2, <2>1, FS_Singleton
  <2> QED
    BY <2>2, FS_Product
<1>4. Places(q, u) = UNION {P(i) : i \in D}
  BY DEF Places
<1>5. IsFiniteSet({P(i) : i \in D})
  <2>1. IsFiniteSet(D)
    BY <1>1, FS_Interval
  <2> DEFINE g == [i \in D |-> P(i)]
  <2>2. g \in Surjection(D, {P(i) : i \in D})
    <3> HIDE DEF P, D
    <3> QED
      BY DEF Surjection
  <2> HIDE DEF P, D, g
  <2> QED
    BY <2>1, <2>2, FS_Surjection
<1>6. IsFiniteSet(Places(q, u))
  <2>1. \A T \in {P(i) : i \in D} : IsFiniteSet(T)
    BY <1>3
  <2> HIDE DEF P, D
  <2> QED
    BY <1>4, <1>5, <2>1, FS_UNION
<1>7. Places(q, u) = {} <=> \A i \in D : u \notin DOMAIN q[i].to
  <2>1. ASSUME NEW i \in D, u \in DOMAIN q[i].to
        PROVE  Places(q, u) # {}
    <3>1. 1 \in 1..Copies(u, q[i].to)
      BY <1>2, <2>1
    <3>2. <<i, 1>> \in P(i)
      BY <3>1
    <3> HIDE DEF P
    <3> QED
      BY <1>4, <3>2
  <2>2. ASSUME NEW i \in D, u \notin DOMAIN q[i].to
        PROVE  P(i) = {}
    BY <1>2, <2>2
  <2> HIDE DEF P
  <2> QED
    BY <1>4, <2>1, <2>2
<1> QED
  BY <1>1, <1>6, <1>7, FS_CardinalityType, FS_EmptySet

\* A single message of which u is a recipient once.
LEMMA PlacesOne ==
    ASSUME NEW n, NEW u, BagOK(n.to)
    PROVE  Cardinality(Places(<<n>>, u)) = Copies(u, n.to)
<1> DEFINE c == Copies(u, n.to)
<1>1. c \in Nat
  BY DEF BagOK, Copies, BagToSet
<1>2. Places(<<n>>, u) = {1} \X (1..c)
  <2>1. DOMAIN <<n>> = {1} /\ <<n>>[1] = n
    OBVIOUS
  <2> QED
    BY <2>1 DEF Places
<1> HIDE DEF c
<1>3. IsFiniteSet({1}) /\ Cardinality({1}) = 1
  BY FS_Singleton
<1>6. Cardinality({1}) * c = c
  BY <1>1, <1>3
<1>4. IsFiniteSet(1..c) /\ Cardinality(1..c) = c
  BY <1>1, FS_Interval
<1>5. Cardinality({1} \X (1..c)) = Cardinality({1}) * Cardinality(1..c)
  BY <1>3, <1>4, FS_Product
<1> QED
  BY <1>1, <1>2, <1>4, <1>5, <1>6 DEF c

\* What a merge adds: a message for the users who are left.
LEMMA Merged ==
    ASSUME NEW q, BagsOK(q), OnePerType(q), NEW type, type \notin TypesOf(q),
           NEW to, BagOK(to), DOMAIN to \subseteq Users
    PROVE  LET r == Merge(q, Note(type, to))
           IN /\ BagsOK(r) /\ OnePerType(r) /\ TypesOf(r) \subseteq TypesOf(q) \cup {type}
              /\ For(r, type) = {u \in DOMAIN to : to[u] > Cardinality(Places(q, u))}
              /\ \A t : t # type => For(r, t) = For(q, t)
<1> DEFINE N == Note(type, to)
           left(u) == Copies(u, to) - Cardinality(Places(q, u))
           users == {u \in DOMAIN to : left(u) > 0}
           less == [u \in users |-> left(u)]
           n == [type |-> type, to |-> less]
           W == {u \in DOMAIN to : to[u] > Cardinality(Places(q, u))}
<1>1. N.to = to /\ N = [type |-> type, to |-> to]
  BY DEF Note
<1> HIDE DEF N
<1>2. Merge(q, N) = IF users = {} THEN q ELSE Append(q, n)
  <2>1. Merge(q, N) = IF users = {} THEN q ELSE Append(q, [N EXCEPT !.to = less])
    BY <1>1 DEF Merge, BagToSet
  <2> HIDE DEF less
  <2>2. [N EXCEPT !.to = less] = n
    BY <1>1
  <2> QED
    BY <2>1, <2>2
<1>3. \A u \in DOMAIN to : /\ left(u) = to[u] - Cardinality(Places(q, u))
                           /\ left(u) \in Int /\ (left(u) > 0 <=> u \in W)
  <2> TAKE u \in DOMAIN to
  <2>1. Cardinality(Places(q, u)) \in Nat /\ to[u] \in Nat
    BY PlacesOf DEF BagOK
  <2>2. Copies(u, to) = to[u]
    BY DEF Copies, BagToSet
  <2> QED
    BY <2>1, <2>2
<1>4. users = W
  BY <1>3
<1>5. DOMAIN less = W /\ BagOK(less)
  BY <1>3, <1>4 DEF BagOK
<1> HIDE DEF less, users, W
<1>6. n.type = type /\ n.to = less
  OBVIOUS
<1> HIDE DEF n
<1>7. DOMAIN q = 1..Len(q) /\ Len(q) \in Nat /\ q \in Seq({q[i] : i \in DOMAIN q})
  BY DEF BagsOK
<1>8. \A i \in 1..Len(q) : q[i].type # type
  BY <1>7 DEF TypesOf
<1>9. CASE users = {}
  <2>1. For(q, type) = {}
    BY <1>8 DEF For
  <2> QED
    BY <1>2, <1>4, <1>9, <2>1 DEF N, W
<1>10. CASE users # {}
  <2> DEFINE r == Append(q, n)
             R == {q[i] : i \in DOMAIN q}
             S == R \cup {n}
  <2>1. q \in Seq(S) /\ n \in S
    <3>1. R \subseteq S
      OBVIOUS
    <3> HIDE DEF R, S
    <3>2. q \in Seq(S)
      BY <1>7, <3>1 DEF R
    <3> QED
      BY <3>2 DEF S
  <2> HIDE DEF R, S
  <2>2. /\ r \in Seq(S) /\ Len(r) = Len(q) + 1 /\ r[Len(q) + 1] = n
        /\ \A i \in 1..Len(q) : r[i] = q[i]
    BY <2>1
  <2>3. r \in Seq({r[i] : i \in DOMAIN r}) /\ DOMAIN r = 1..Len(r)
    BY <2>2, OwnRange
  <2> HIDE DEF r
  <2>4. \A i \in 1..Len(r) : \/ i \in 1..Len(q) /\ r[i] = q[i]
                             \/ i = Len(q) + 1 /\ r[i] = n
    BY <1>7, <2>2
  <2>5. \A i \in 1..Len(q) : i \in 1..Len(r) /\ r[i] = q[i]
    BY <1>7, <2>2
  <2>6. Len(q) + 1 \in 1..Len(r)
    BY <1>7, <2>2
  <2>7. BagsOK(r)
    BY <1>5, <1>6, <2>3, <2>4 DEF BagsOK
  <2>8. OnePerType(r)
    BY <1>6, <1>8, <2>4 DEF OnePerType
  <2>9. TypesOf(r) \subseteq TypesOf(q) \cup {type}
    BY <1>6, <1>7, <2>3, <2>4 DEF TypesOf
  <2>10. For(r, type) = W
    <3>1. \A u \in W : u \in Users /\ u \in DOMAIN r[Len(q) + 1].to
      BY <1>5, <1>6, <2>2 DEF W
    <3>2. \A i \in 1..Len(r) : r[i].type = type => DOMAIN r[i].to = W
      BY <1>5, <1>6, <1>8, <2>4
    <3> QED
      BY <1>6, <2>2, <2>6, <3>1, <3>2 DEF For
  <2>11. \A t : t # type => For(r, t) = For(q, t)
    BY <1>6, <2>4, <2>5 DEF For
  <2> QED
    BY <1>2, <1>10, <2>7, <2>8, <2>9, <2>10, <2>11 DEF N, W, r
<1> QED
  BY <1>9, <1>10

LEMMA NoQueue == /\ BagsOK(<<>>) /\ OnePerType(<<>>) /\ TypesOf(<<>>) = {}
                 /\ \A t : For(<<>>, t) = {}
                 /\ \A u : Cardinality(Places(<<>>, u)) = 0
<1>1. <<>> \in Seq({<<>>[i] : i \in DOMAIN <<>>}) /\ Len(<<>>) = 0 /\ DOMAIN <<>> = {}
  BY QueueEmpty DEF IsQueue
<1>2. BagsOK(<<>>)
  BY <1>1 DEF BagsOK
<1> QED
  BY <1>1, <1>2, PlacesOf DEF OnePerType, TypesOf, For

\* Mentions are counted; who is mentioned is counted at least once.
LEMMA Counting ==
    ASSUME NEW p, floor[p].mention \subseteq OldFloors
    PROVE  /\ \A u : Mentions(p, u) \in Nat
           /\ \A u : Mentions(p, u) > 0 <=> \E f \in floor[p].mention : floor[f].by = u
<1> SUFFICES ASSUME NEW u
             PROVE  /\ Mentions(p, u) \in Nat
                    /\ Mentions(p, u) > 0 <=> \E f \in floor[p].mention : floor[f].by = u
  OBVIOUS
<1> DEFINE S == {f \in floor[p].mention : floor[f].by = u}
<1>1. IsFiniteSet(S)
  BY HandlersAssumption, FS_Subset
<1>2. Cardinality(S) \in Nat /\ (Cardinality(S) = 0 <=> S = {})
  BY <1>1, FS_CardinalityType, FS_EmptySet
<1> QED
  BY <1>2 DEF Mentions

LEMMA SetBagOK == \A S : BagOK(SetToBag(S)) /\ DOMAIN SetToBag(S) = S
                         /\ \A u \in S : SetToBag(S)[u] = 1
BY DEF BagOK, SetToBag

\* A floor that was stopped is shown to the admins and to nobody else.
LEMMA Stopped ==
    LET r == Merge(<<>>, Note("sensitive", SetToBag(AdminList)))
    IN /\ OnePerType(r) /\ For(r, "sensitive") = AdminList
       /\ \A t : t # "sensitive" => For(r, t) = {}
<1> DEFINE to == SetToBag(AdminList)
           r == Merge(<<>>, Note("sensitive", to))
<1>1. /\ BagOK(to) /\ DOMAIN to \subseteq Users /\ DOMAIN to = AdminList
      /\ \A u \in AdminList : to[u] = 1
  BY UsersAssumption, SetBagOK
<1>2. "sensitive" \notin TypesOf(<<>>)
  BY NoQueue
<1> HIDE DEF to
<1>3. /\ OnePerType(r)
      /\ For(r, "sensitive") = {u \in DOMAIN to : to[u] > Cardinality(Places(<<>>, u))}
      /\ \A t : t # "sensitive" => For(r, t) = For(<<>>, t)
  BY <1>1, <1>2, NoQueue, Merged
<1> HIDE DEF r
<1>4. {u \in DOMAIN to : to[u] > Cardinality(Places(<<>>, u))} = AdminList
  BY <1>1, NoQueue
<1>5. OnePerType(r) /\ For(r, "sensitive") = AdminList /\ \A t : t # "sensitive" => For(r, t) = {}
  BY <1>3, <1>4, NoQueue
<1> QED
  BY <1>5 DEF r, to

\* Whom a floor that was let pass is announced to: its reply to the author of
\* the hole, the mention to the others it mentions and to him if it is another
\* one, the subscription to who has heard of neither.
IsFor(q, p, A, S) ==
    LET by == floor[p].by
    IN /\ OnePerType(q) /\ TypesOf(q) \subseteq {"reply", "mention", "favorite"}
       /\ For(q, "reply") = A \ {by}
       /\ For(q, "mention") =
            {u \in Users \ {by} : Mentions(p, u) > 0 /\ (u \in A => Mentions(p, u) > 1)}
       /\ For(q, "favorite") = {u \in S \ {by} : u \notin A /\ ~ Mentions(p, u) > 0}

LEMMA Announced ==
    ASSUME MailPart, NEW p \in Posts, NEW A \in SUBSET {Owner}, NEW S \in SUBSET Users,
           floor[p].mention \subseteq OldFloors
    PROVE  IsFor(Announcements(p, A, S), p, A, S)
<1> DEFINE by == floor[p].by
           q1 == Merge(<<>>, SendReply(p, A))
           q2 == Merge(q1, SendMention(p))
           q3 == Merge(q2, SendSubscription(p, S))
           W == A \ {by}
           M == {floor[f].by : f \in floor[p].mention} \ {by}
           bag == [u \in M |-> Mentions(p, u)]
           V == S \ {by}
<1>0. p \in Floors /\ Owner \in Users
  BY UsersAssumption DEF Floors
<1>1. /\ \A u : Mentions(p, u) \in Nat
      /\ \A u : u \in M <=> u # by /\ Mentions(p, u) > 0
  BY Counting
<1>2. M \subseteq Users
  <2>1. floor[p].mention \subseteq Floors
    BY DEF Floors
  <2>2. \A f \in floor[p].mention : floor[f].by \in Users
    BY <1>0, <2>1, AuthorOK DEF MailPart, FloorsOK
  <2> QED
    BY <2>2
<1>3. /\ SendReply(p, A) = Note("reply", SetToBag(W))
      /\ SendMention(p) = Note("mention", bag)
      /\ SendSubscription(p, S) = Note("favorite", SetToBag(V))
  BY DEF SendReply, SendMention, SendSubscription
<1>4. BagOK(bag) /\ DOMAIN bag = M /\ \A u \in M : bag[u] = Mentions(p, u)
  BY <1>1 DEF BagOK
<1>5. W \subseteq Users /\ V \subseteq Users
  BY <1>0
<1> HIDE DEF by, M, bag, W, V
<1>6. /\ BagsOK(q1) /\ OnePerType(q1) /\ TypesOf(q1) \subseteq {"reply"}
      /\ For(q1, "reply") = W /\ \A t : t # "reply" => For(q1, t) = {}
  <2> DEFINE to == SetToBag(W)
  <2>1. BagOK(to) /\ DOMAIN to \subseteq Users /\ DOMAIN to = W /\ \A u \in W : to[u] = 1
    BY <1>5, SetBagOK
  <2>2. "reply" \notin TypesOf(<<>>)
    BY NoQueue
  <2> HIDE DEF to
  <2>3. /\ BagsOK(Merge(<<>>, Note("reply", to))) /\ OnePerType(Merge(<<>>, Note("reply", to)))
        /\ TypesOf(Merge(<<>>, Note("reply", to))) \subseteq TypesOf(<<>>) \cup {"reply"}
        /\ For(Merge(<<>>, Note("reply", to)), "reply") =
              {u \in DOMAIN to : to[u] > Cardinality(Places(<<>>, u))}
        /\ \A t : t # "reply" => For(Merge(<<>>, Note("reply", to)), t) = For(<<>>, t)
    BY <2>1, <2>2, NoQueue, Merged
  <2>4. {u \in DOMAIN to : to[u] > Cardinality(Places(<<>>, u))} = W
    BY <2>1, NoQueue
  <2>5. q1 = Merge(<<>>, Note("reply", to))
    BY <1>3 DEF to
  <2> HIDE DEF q1
  <2> QED
    BY <2>3, <2>4, <2>5, NoQueue
<1>7. \A u \in Users : Cardinality(Places(q1, u)) = IF u \in W THEN 1 ELSE 0
  <2> DEFINE to == SetToBag(W)
             less == [u \in W |-> 1]
             n == [type |-> "reply", to |-> less]
  <2>1. q1 = IF W = {} THEN <<>> ELSE <<n>>
    <3> DEFINE N == Note("reply", to)
               left(u) == Copies(u, to) - Cardinality(Places(<<>>, u))
               users == {u \in DOMAIN to : left(u) > 0}
               rest == [u \in users |-> left(u)]
    <3>1. N.to = to /\ N = [type |-> "reply", to |-> to]
      BY DEF Note
    <3>2. \A u \in W : left(u) = 1
      BY SetBagOK, NoQueue DEF Copies, BagToSet
    <3>3. users = W /\ rest = less
      BY <3>2, SetBagOK
    <3> HIDE DEF N
    <3>4. Merge(<<>>, N) = IF users = {} THEN <<>> ELSE Append(<<>>, [N EXCEPT !.to = rest])
      BY <3>1 DEF Merge, BagToSet
    <3> HIDE DEF rest, less, users, to
    <3>5. [N EXCEPT !.to = rest] = n
      BY <3>1, <3>3
    <3>6. Append(<<>>, n) = <<n>>
      OBVIOUS
    <3> QED
      BY <1>3, <3>3, <3>4, <3>5, <3>6 DEF N, to
  <2>2. BagOK(n.to) /\ \A u : Copies(u, n.to) = IF u \in W THEN 1 ELSE 0
    BY DEF BagOK, Copies, BagToSet
  <2> HIDE DEF n, q1
  <2>3. CASE W = {}
    BY <2>1, <2>3, NoQueue
  <2>4. CASE W # {}
    BY <2>1, <2>2, <2>4, PlacesOne
  <2> QED
    BY <2>3, <2>4
<1>8. /\ BagsOK(q2) /\ OnePerType(q2) /\ TypesOf(q2) \subseteq {"reply", "mention"}
      /\ For(q2, "reply") = W
      /\ For(q2, "mention") = {u \in M : u \in W => Mentions(p, u) > 1}
      /\ \A t : t \notin {"reply", "mention"} => For(q2, t) = {}
  <2> HIDE DEF q1
  <2>1. "mention" \notin TypesOf(q1)
    BY <1>6
  <2>2. q2 = Merge(q1, Note("mention", bag))
    BY <1>3
  <2> HIDE DEF q2
  <2>3. /\ BagsOK(q2) /\ OnePerType(q2)
        /\ TypesOf(q2) \subseteq TypesOf(q1) \cup {"mention"}
        /\ For(q2, "mention") = {u \in DOMAIN bag : bag[u] > Cardinality(Places(q1, u))}
        /\ \A t : t # "mention" => For(q2, t) = For(q1, t)
    BY <1>2, <1>4, <1>6, <2>1, <2>2, Merged
  <2>4. {u \in DOMAIN bag : bag[u] > Cardinality(Places(q1, u))} =
          {u \in M : u \in W => Mentions(p, u) > 1}
    BY <1>1, <1>2, <1>4, <1>7
  <2> QED
    BY <1>6, <2>3, <2>4
<1>9. /\ OnePerType(q3) /\ TypesOf(q3) \subseteq {"reply", "mention", "favorite"}
      /\ For(q3, "reply") = W /\ For(q3, "mention") = For(q2, "mention")
      /\ For(q3, "favorite") = {u \in V : u \notin For(q2, "reply") \cup For(q2, "mention")}
  <2> DEFINE to == SetToBag(V)
  <2>1. BagOK(to) /\ DOMAIN to \subseteq Users /\ DOMAIN to = V /\ \A u \in V : to[u] = 1
    BY <1>5, SetBagOK
  <2> HIDE DEF q2
  <2>2. "favorite" \notin TypesOf(q2)
    BY <1>8
  <2>3. q3 = Merge(q2, Note("favorite", to))
    BY <1>3
  <2> HIDE DEF q3, to
  <2>4. /\ OnePerType(q3)
        /\ TypesOf(q3) \subseteq TypesOf(q2) \cup {"favorite"}
        /\ For(q3, "favorite") = {u \in DOMAIN to : to[u] > Cardinality(Places(q2, u))}
        /\ \A t : t # "favorite" => For(q3, t) = For(q2, t)
    BY <1>8, <2>1, <2>2, <2>3, Merged
  <2>5. \A u \in V : 1 > Cardinality(Places(q2, u)) <=>
                       u \notin For(q2, "reply") \cup For(q2, "mention")
    <3> TAKE u \in V
    <3>1. /\ Cardinality(Places(q2, u)) \in Nat
          /\ Cardinality(Places(q2, u)) = 0 <=> \A i \in 1..Len(q2) : u \notin DOMAIN q2[i].to
      BY <1>8, PlacesOf
    <3>2. DOMAIN q2 = 1..Len(q2)
      BY <1>8 DEF BagsOK
    <3>3. \A i \in 1..Len(q2) : q2[i].type \in {"reply", "mention"}
      BY <1>8, <3>2 DEF TypesOf
    <3>4. (\A i \in 1..Len(q2) : u \notin DOMAIN q2[i].to) <=>
            u \notin For(q2, "reply") \cup For(q2, "mention")
      BY <1>5, <3>3 DEF For
    <3>5. 1 > Cardinality(Places(q2, u)) <=> Cardinality(Places(q2, u)) = 0
      BY <3>1
    <3> QED
      BY <3>1, <3>4, <3>5
  <2>6. {u \in DOMAIN to : to[u] > Cardinality(Places(q2, u))} =
          {u \in V : u \notin For(q2, "reply") \cup For(q2, "mention")}
    BY <2>1, <2>5
  <2> QED
    BY <1>8, <2>4, <2>6
<1>10. {u \in M : u \in W => Mentions(p, u) > 1} =
         {u \in Users \ {by} : Mentions(p, u) > 0 /\ (u \in A => Mentions(p, u) > 1)}
  BY <1>1, <1>2 DEF W
<1>11. {u \in V : u \notin W \cup {v \in M : v \in W => Mentions(p, v) > 1}} =
         {u \in V : u \notin A /\ ~ Mentions(p, u) > 0}
  <2> SUFFICES ASSUME NEW u \in V
               PROVE  u \notin W \cup {v \in M : v \in W => Mentions(p, v) > 1} <=>
                        u \notin A /\ ~ Mentions(p, u) > 0
    OBVIOUS
  <2>1. u # by
    BY DEF V
  <2> QED
    BY <1>1, <2>1 DEF W
<1>12. Announcements(p, A, S) = q3
  BY DEF Announcements
<1> HIDE DEF q1, q2, q3
<1>13. For(q3, "mention") =
         {u \in Users \ {by} : Mentions(p, u) > 0 /\ (u \in A => Mentions(p, u) > 1)}
  BY <1>8, <1>9, <1>10
<1>14. For(q3, "favorite") = {u \in V : u \notin A /\ ~ Mentions(p, u) > 0}
  BY <1>8, <1>9, <1>11
<1>15. OnePerType(q3) /\ TypesOf(q3) \subseteq {"reply", "mention", "favorite"}
  BY <1>9
<1>16. For(q3, "reply") = W
  BY <1>9
<1>17. /\ OnePerType(q3) /\ TypesOf(q3) \subseteq {"reply", "mention", "favorite"}
       /\ For(q3, "reply") = A \ {by}
       /\ For(q3, "mention") =
            {u \in Users \ {by} : Mentions(p, u) > 0 /\ (u \in A => Mentions(p, u) > 1)}
       /\ For(q3, "favorite") =
            {u \in S \ {by} : u \notin A /\ ~ Mentions(p, u) > 0}
  BY <1>13, <1>14, <1>15, <1>16 DEF W, V
<1> QED
  BY <1>12, <1>17 DEF by, IsFor

-----------------------------------------------------------------------------
(* Being told *)

\* A step that leaves alone what decides who is to hear of the floor p.
Unmoved(p) ==
    /\ floor'[p].by = floor[p].by /\ floor'[p].mention = floor[p].mention
    /\ floor'[p].sensitive = floor[p].sensitive
    /\ \A f \in OldFloors : floor'[f].by = floor[f].by
    /\ recipients'[p] = recipients[p]

LEMMA HearsKept ==
    ASSUME NEW p, floor[p].mention \subseteq OldFloors, Unmoved(p)
    PROVE  \A u : Hears(p, u)' = Hears(p, u)
<1> SUFFICES ASSUME NEW u
             PROVE  Hears(p, u)' = Hears(p, u)
  OBVIOUS
<1>1. {f \in floor'[p].mention : floor'[f].by = u} = {f \in floor[p].mention : floor[f].by = u}
  BY DEF Unmoved
<1>2. Mentions(p, u)' = Mentions(p, u)
  BY <1>1 DEF Mentions
<1> QED
  BY <1>2 DEF Hears, Unmoved

LEMMA WantsKept ==
    ASSUME NEW u, config'[u] = config[u]
    PROVE  \A t : Wants(u, t)' <=> Wants(u, t)
BY DEF Wants

\* A step of another handler: it takes messages of the floor p away only in a
\* removal of the floor or a purge.
LEMMA PostKept ==
    ASSUME NEW p \in Posts, PostInv(p), Unmoved(p), sender'[p] = sender[p],
           \A m \in message' : m.from = p => m \in message,
           \A m \in message, u \in Users :
              m.from = p =>
                /\ m \in message' /\ <<m, u>> \in inbox' => <<m, u>> \in inbox
                /\ \/ m \in message' /\ (<<m, u>> \in inbox => <<m, u>> \in inbox')
                   \/ p \in removal' \/ purged',
           broken \subseteq broken', removal \subseteq removal', purged => purged',
           \A u \in Users : u \in changed => u \in changed',
           \A u \in Users : config'[u] = config[u] \/ u \in changed'
    PROVE  PostInv(p)'
<1>1. \A u : Hears(p, u)' = Hears(p, u)
  BY HearsKept DEF PostInv
<1>2. /\ \A s : At(p, s)' <=> At(p, s)
      /\ Pending(p)' = Pending(p)
  BY DEF At, Pending, TypesOf
<1>3. ASSUME NEW u \in Users
      PROVE  /\ Told(p, u)' \subseteq Told(p, u)
             /\ ~ (p \in removal' \/ purged') => Told(p, u) \subseteq Told(p, u)'
  BY <1>3 DEF Told
<1>4. ASSUME NEW u \in Users
      PROVE  ToldInv(p, u)'
  <2>1. ToldInv(p, u)
    BY DEF PostInv
  <2>2. CASE u \in changed'
    BY <1>1, <1>2, <1>3, <2>1, <2>2 DEF ToldInv
  <2>3. CASE u \notin changed'
    <3>1. \A t : Wants(u, t)' <=> Wants(u, t)
      BY <2>3, WantsKept
    <3>2. u \notin changed
      BY <2>3
    <3>3. /\ (Told(p, u) \subseteq Hears(p, u) \ Pending(p))'
          /\ (At(p, "new") \/ At(p, "created") => Told(p, u) = {})'
          /\ \A t \in Told(p, u)' : Wants(u, t)'
      BY <1>1, <1>2, <1>3, <2>1, <3>1, <3>2 DEF ToldInv
    <3>4. ASSUME ~ (At(p, "new") \/ At(p, "created") \/ p \in broken \cup removal \/ purged)',
                 NEW t \in Hears(p, u)' \ Pending(p)', Wants(u, t)'
          PROVE  t \in Told(p, u)'
      <4>1. t \in Told(p, u)
        BY <1>1, <1>2, <2>1, <3>1, <3>2, <3>4 DEF ToldInv
      <4> QED
        BY <1>3, <3>4, <4>1
    <3> QED
      BY <2>3, <3>3, <3>4 DEF ToldInv
  <2> QED
    BY <2>2, <2>3
<1>5. ASSUME NEW u \in Users, At(p, "store")'
      PROVE  ToInv(p, u)'
  <2>1. ToInv(p, u)
    BY <1>2, <1>5 DEF PostInv
  <2>2. CASE u \in changed'
    BY <2>1, <2>2 DEF ToInv, BagToSet
  <2>3. CASE u \notin changed'
    <3>1. \A t : Wants(u, t)' <=> Wants(u, t)
      BY <2>3, WantsKept
    <3> QED
      BY <2>1, <2>3, <3>1 DEF ToInv, BagToSet
  <2> QED
    BY <2>2, <2>3
<1>6. (At(p, "send") \/ At(p, "store"))' => QueueInv(p)'
  BY <1>1, <1>2 DEF PostInv, QueueInv, BagToSet
<1>7. /\ ~ At(p, "remove")' /\ AuthorInv(p)'
      /\ (floor[p].mention \subseteq OldFloors)'
      /\ (\A m \in message : m.from = p => m.about = p)'
  BY <1>2 DEF PostInv, AuthorInv, Unmoved
<1> QED
  BY <1>4, <1>5, <1>6, <1>7 DEF PostInv

\* The queue without its head.
LEMMA TailQueue ==
    ASSUME NEW q, IsQueue(q), q # <<>>, OnePerType(q)
    PROVE  /\ Len(q) \in Nat \ {0} /\ Head(q) = q[1] /\ 1 \in 1..Len(q)
           /\ \A i \in 1..Len(Tail(q)) : i + 1 \in 1..Len(q) /\ Tail(q)[i] = q[i + 1]
           /\ TypesOf(Tail(q)) = TypesOf(q) \ {Head(q).type}
           /\ Head(q).type \in TypesOf(q)
           /\ OnePerType(Tail(q)) /\ (Len(q) = 1 => TypesOf(Tail(q)) = {})
<1> DEFINE R == {q[i] : i \in DOMAIN q}
           r == Tail(q)
<1>1. q \in Seq(R)
  BY DEF IsQueue
<1> HIDE DEF R
<1>2. /\ Len(q) \in Nat \ {0} /\ Head(q) = q[1] /\ 1 \in 1..Len(q)
      /\ r \in Seq(R) /\ Len(r) = Len(q) - 1
      /\ \A i \in 1..Len(r) : i + 1 \in 1..Len(q) /\ r[i] = q[i + 1]
      /\ DOMAIN q = 1..Len(q) /\ DOMAIN r = 1..Len(r)
  BY <1>1
<1> HIDE DEF r
<1>3. \A i \in 1..Len(q) : i = 1 \/ (i - 1 \in 1..Len(r) /\ r[i - 1] = q[i])
  BY <1>2
<1>4. \A i \in 1..Len(r) : r[i].type # q[1].type
  <2> TAKE i \in 1..Len(r)
  <2>1. i + 1 # 1 /\ i + 1 \in 1..Len(q) /\ r[i] = q[i + 1]
    BY <1>2
  <2> QED
    BY <1>2, <2>1 DEF OnePerType
<1>5. TypesOf(r) = TypesOf(q) \ {q[1].type}
  <2>1. ASSUME NEW i \in 1..Len(r)
        PROVE  \E j \in 1..Len(q) : r[i].type = q[j].type
    BY <1>2
  <2>2. ASSUME NEW j \in 1..Len(q), q[j].type # q[1].type
        PROVE  \E i \in 1..Len(r) : r[i].type = q[j].type
    BY <1>3, <2>2
  <2>3. /\ TypesOf(q) = {q[j].type : j \in 1..Len(q)}
        /\ TypesOf(r) = {r[i].type : i \in 1..Len(r)}
    BY <1>2 DEF TypesOf
  <2>4. TypesOf(r) \subseteq TypesOf(q) \ {q[1].type}
    BY <1>4, <2>1, <2>3
  <2>5. TypesOf(q) \ {q[1].type} \subseteq TypesOf(r)
    BY <2>2, <2>3
  <2> QED
    BY <2>4, <2>5
<1>6. OnePerType(r)
  <2> SUFFICES ASSUME NEW i \in 1..Len(r), NEW j \in 1..Len(r), r[i].type = r[j].type
               PROVE  i = j
    BY DEF OnePerType
  <2>1. i + 1 = j + 1
    BY <1>2 DEF OnePerType
  <2> QED
    BY <2>1
<1>7. Len(q) = 1 => TypesOf(r) = {}
  BY <1>2 DEF TypesOf
<1>8. q[1].type \in TypesOf(q)
  BY <1>2 DEF TypesOf
<1> QED
  BY <1>2, <1>5, <1>6, <1>7, <1>8 DEF r

\* The head of the queue is for those who are to hear of it; when the handler has
\* gone past it, the rest of the queue is as it should be.
LEMMA GoneOn ==
    ASSUME MailPart, NEW p \in Posts, PostInv(p), sender[p].step \in {"send", "store"},
           sender[p].queue # <<>>
    PROVE  LET n == Head(sender[p].queue)
           IN /\ n.type \in Pending(p)
              /\ \A u \in Users : u \in BagToSet(n.to) <=> n.type \in Hears(p, u)
              /\ Unmoved(p) /\ To(p, Next1(p)) =>
                   /\ sender'[p].step \in {"send", "done"}
                   /\ Pending(p)' = Pending(p) \ {n.type}
                   /\ sender'[p].step = "send" => QueueInv(p)'
<1> DEFINE q == sender[p].queue
           r == Tail(q)
           n == Head(q)
<1>0. p \in Senders /\ DOMAIN sender = Senders
  BY DEF Senders, MailPart
<1>1. IsQueue(q) /\ QueueInv(p)
  BY <1>0 DEF MailPart, SenderOK, PostInv, At
<1>2. OnePerType(q)
  BY <1>1 DEF QueueInv, OnePerType
<1>3. /\ Len(q) \in Nat \ {0} /\ n = q[1] /\ 1 \in 1..Len(q)
      /\ \A i \in 1..Len(r) : i + 1 \in 1..Len(q) /\ r[i] = q[i + 1]
      /\ TypesOf(r) = TypesOf(q) \ {n.type}
      /\ n.type \in TypesOf(q)
      /\ OnePerType(r) /\ (Len(q) = 1 => TypesOf(r) = {})
  BY <1>1, <1>2, TailQueue
<1>4. Pending(p) = TypesOf(q)
  BY DEF Pending, At
<1>5. \A i \in 1..Len(q), u \in Users : u \in BagToSet(q[i].to) <=> q[i].type \in Hears(p, u)
  BY <1>1 DEF QueueInv
<1>6. ASSUME Unmoved(p), To(p, Next1(p))
      PROVE  /\ sender'[p].step \in {"send", "done"}
             /\ Pending(p)' = Pending(p) \ {n.type}
             /\ sender'[p].step = "send" => QueueInv(p)'
  <2>1. sender'[p] = Next1(p)
    BY <1>0, <1>6 DEF To
  <2>2. \A u : Hears(p, u)' = Hears(p, u)
    BY <1>6, HearsKept DEF PostInv
  <2>3. CASE Len(q) = 1
    <3>1. sender'[p].step = "done"
      BY <2>1, <2>3 DEF Next1, Done
    <3>2. Pending(p)' = {}
      BY <3>1 DEF Pending, At
    <3> QED
      BY <1>3, <1>4, <2>3, <3>1, <3>2
  <2>4. CASE Len(q) # 1
    <3>1. /\ sender'[p].step = "send" /\ sender'[p].queue = r
          /\ sender'[p].floor = sender[p].floor
      BY <2>1, <2>4 DEF Next1, Sending
    <3>2. Pending(p)' = TypesOf(r)
      BY <3>1 DEF Pending, At, TypesOf
    <3>3. \A i \in 1..Len(r), u \in Users :
             u \in BagToSet(r[i].to) <=> r[i].type \in Hears(p, u)'
      BY <1>3, <1>5, <2>2
    <3>4. sender[p].floor = p
      BY <1>1 DEF QueueInv
    <3> HIDE DEF r
    <3>5. QueueInv(p)'
      BY <1>3, <3>1, <3>3, <3>4 DEF QueueInv, OnePerType, BagToSet
    <3> QED
      BY <1>3, <1>4, <3>1, <3>2, <3>5
  <2> QED
    BY <2>3, <2>4
<1> QED
  BY <1>3, <1>4, <1>5, <1>6

\* The handler of a floor goes on without telling anybody; what it leaves out is
\* for nobody who wants it, or it has failed.
LEMMA PostSkips ==
    ASSUME MailPart, NEW p \in Posts, PostInv(p), sender[p].step \in {"send", "store"},
           Unmoved(p), UNCHANGED <<message, inbox, config, removal, changed, purged>>,
           broken \subseteq broken',
           sender'[p].step \in {"send", "store", "done"},
           Pending(p)' \subseteq Pending(p),
           sender'[p].step \in {"send", "store"} => QueueInv(p)',
           sender'[p].step = "store" => \A u \in Users : ToInv(p, u)',
           \/ p \in broken'
           \/ \A t \in Pending(p) \ Pending(p)', u \in Users : t \in Hears(p, u) => ~ Wants(u, t)
    PROVE  PostInv(p)'
<1>1. \A u : Hears(p, u)' = Hears(p, u)
  BY HearsKept DEF PostInv
<1>2. \A u, t : Wants(u, t)' <=> Wants(u, t)
  BY DEF Wants
<1>3. \A u : Told(p, u)' = Told(p, u)
  BY DEF Told
<1>4. ~ At(p, "remove")' /\ ~ At(p, "new")' /\ ~ At(p, "created")'
  BY DEF At
<1>5. ASSUME NEW u \in Users
      PROVE  ToldInv(p, u)'
  <2>1. ToldInv(p, u) /\ ~ At(p, "new") /\ ~ At(p, "created")
    BY DEF PostInv, At
  <2>2. /\ (Told(p, u) \subseteq Hears(p, u) \ Pending(p))'
        /\ (u \notin changed => \A t \in Told(p, u) : Wants(u, t))'
    BY <1>1, <1>2, <1>3, <2>1 DEF ToldInv
  <2>3. ASSUME ~ (p \in broken \cup removal \/ purged \/ u \in changed)',
               NEW t \in Hears(p, u)' \ Pending(p)', Wants(u, t)'
        PROVE  t \in Told(p, u)'
    <3>1. t \notin Pending(p)
      BY <1>1, <1>2, <2>3
    <3>2. ~ (p \in broken \cup removal \/ purged \/ u \in changed)
      BY <2>3
    <3> QED
      BY <1>1, <1>2, <1>3, <2>1, <2>3, <3>1, <3>2 DEF ToldInv
  <2> QED
    BY <1>4, <2>2, <2>3 DEF ToldInv
<1>6. /\ (floor[p].mention \subseteq OldFloors)' /\ (\A m \in message : m.from = p => m.about = p)'
      /\ AuthorInv(p)'
  BY DEF PostInv, AuthorInv, At, Unmoved
<1> QED
  BY <1>4, <1>5, <1>6 DEF PostInv, At

LEMMA WantingIs == \A n, u : u \in Wanting(n) <=> u \in BagToSet(n.to) /\ Wants(u, n.type)
BY DEF Wanting, Wants

LEMMA PostSends ==
    ASSUME MailPart, NEW p \in Posts, PostInv(p), Send(p)
    PROVE  PostInv(p)'
<1>0. p \in Senders /\ DOMAIN sender = Senders
  BY DEF Senders, MailPart
<1> DEFINE n == Head(sender[p].queue)
<1>1. UNCHANGED <<floor, recipients, config, removal, changed, purged>> /\ broken \subseteq broken'
  BY DEF Send, Skip, CheckConfig, Store, FailStore, tables, history
<1>2. Unmoved(p) /\ \A u : Hears(p, u)' = Hears(p, u)
  BY <1>1, HearsKept DEF Unmoved, PostInv
<1>3. ASSUME sender[p].step \in {"send", "store"}, sender[p].queue # <<>>
      PROVE  /\ n.type \in Pending(p)
             /\ \A u \in Users : u \in BagToSet(n.to) <=> n.type \in Hears(p, u)
             /\ To(p, Next1(p)) =>
                   /\ sender'[p].step \in {"send", "done"}
                   /\ Pending(p)' = Pending(p) \ {n.type}
                   /\ sender'[p].step = "send" => QueueInv(p)'
  BY <1>2, <1>3, GoneOn
<1> HIDE DEF n
<1>4. ASSUME To(p, Done)
      PROVE  sender'[p].step = "done" /\ Pending(p)' = {}
  BY <1>0, <1>4 DEF To, Done, Pending, At
<1>5. CASE Skip(p)
  <2>1. sender[p].step = "send" /\ UNCHANGED <<message, inbox>>
    BY <1>5 DEF Skip, At, tables
  <2>2. CASE sender[p].queue = <<>>
    <3>1. To(p, Done)
      BY <1>5, <2>2 DEF Skip
    <3>2. Pending(p) = {}
      BY <2>1, <2>2 DEF Pending, At, TypesOf
    <3> QED
      BY <1>1, <1>2, <1>4, <2>1, <3>1, <3>2, PostSkips
  <2>3. CASE sender[p].queue # <<>>
    <3>1. To(p, Next1(p)) /\ (Wanting(n) = {} \/ p \in broken')
      BY <1>5, <2>3 DEF Skip, n
    <3>2. /\ sender'[p].step \in {"send", "done"}
          /\ Pending(p)' = Pending(p) \ {n.type}
          /\ sender'[p].step = "send" => QueueInv(p)'
          /\ \A u \in Users : u \in BagToSet(n.to) <=> n.type \in Hears(p, u)
      BY <1>3, <2>1, <2>3, <3>1
    <3>3. \/ p \in broken'
          \/ \A t \in Pending(p) \ Pending(p)', u \in Users : t \in Hears(p, u) => ~ Wants(u, t)
      BY <3>1, <3>2, WantingIs
    <3> QED
      BY <1>1, <1>2, <2>1, <3>2, <3>3, PostSkips
  <2> QED
    BY <2>2, <2>3
<1>6. CASE FailStore(p)
  <2>1. sender[p].step = "store" /\ UNCHANGED <<message, inbox>> /\ To(p, Done) /\ p \in broken'
    BY <1>6 DEF FailStore, At, tables
  <2> QED
    BY <1>1, <1>2, <1>4, <2>1, PostSkips
<1>7. CASE CheckConfig(p)
  <2> DEFINE q == [step |-> "store", floor |-> sender[p].floor, queue |-> sender[p].queue,
                   to |-> Wanting(n)]
  <2>1. /\ sender[p].step = "send" /\ UNCHANGED <<message, inbox>> /\ To(p, q)
    BY <1>7 DEF CheckConfig, At, tables, n
  <2>2. /\ sender'[p].step = "store" /\ sender'[p].floor = sender[p].floor
        /\ sender'[p].queue = sender[p].queue /\ sender'[p].to = Wanting(n)
    BY <1>0, <2>1 DEF To
  <2>3. Pending(p)' = Pending(p)
    BY <2>1, <2>2 DEF Pending, At, TypesOf
  <2>4. QueueInv(p)'
    BY <1>2, <2>1, <2>2 DEF PostInv, At, QueueInv, BagToSet
  <2>5. \A u, t : Wants(u, t)' <=> Wants(u, t)
    BY <1>1 DEF Wants
  <2>6. \A u \in Users : ToInv(p, u)'
    BY <1>1, <2>2, <2>5, WantingIs DEF ToInv, BagToSet, n
  <2> QED
    BY <1>1, <1>2, <2>1, <2>2, <2>3, <2>4, <2>6, PostSkips
<1>8. CASE Store(p)
  <2> DEFINE m == [about |-> sender[p].floor, type |-> n.type, from |-> p]
  <2>1. /\ sender[p].step = "store" /\ message' = message \cup {m}
        /\ inbox' = inbox \cup ({m} \X sender[p].to)
        /\ \/ To(p, Next1(p))
           \/ To(p, Done) /\ p \in broken'
    BY <1>8 DEF Store, Stored, At, n
  <2>2. sender[p].queue # <<>> /\ sender[p].floor = p
    BY <1>0, <2>1 DEF MailPart, SenderOK, PostInv, QueueInv, At
  <2>3. /\ sender'[p].step \in {"send", "done"}
        /\ Pending(p)' \subseteq Pending(p) \ {n.type}
        /\ Pending(p)' = Pending(p) \ {n.type} \/ p \in broken'
        /\ sender'[p].step = "send" => QueueInv(p)'
        /\ n.type \in Pending(p)
        /\ \A u \in Users : u \in BagToSet(n.to) <=> n.type \in Hears(p, u)
    BY <1>3, <1>4, <2>1, <2>2
  <2>4. m.about = p /\ m.type = n.type /\ m.from = p
    BY <2>2
  <2> HIDE DEF m
  <2>5. ASSUME NEW u \in Users
        PROVE  ToldInv(p, u)'
    <3>1. /\ ToldInv(p, u) /\ ToInv(p, u) /\ ~ At(p, "new") /\ ~ At(p, "created")
      BY <2>1 DEF PostInv, At
    <3>2. Told(p, u)' = Told(p, u) \cup {t \in {n.type} : u \in sender[p].to}
      <4> DEFINE S == {k \in message : k.from = p /\ <<k, u>> \in inbox}
                 T == {k \in message' : k.from = p /\ <<k, u>> \in inbox'}
      <4>1. T = S \cup {k \in {m} : u \in sender[p].to}
        <5>1. inbox \subseteq message \X Users
          BY DEF MailPart, InboxWhole
        <5> QED
          BY <2>1, <2>4, <5>1
      <4> HIDE DEF S, T
      <4>2. {k.type : k \in T} = {k.type : k \in S} \cup {t \in {n.type} : u \in sender[p].to}
        BY <2>4, <4>1
      <4> QED
        BY <4>2 DEF Told, S, T
    <3>3. \A t : Wants(u, t)' <=> Wants(u, t)
      BY <1>1 DEF Wants
    <3>4. /\ u \in sender[p].to => n.type \in Hears(p, u)
          /\ u \notin changed =>
                (u \in sender[p].to <=> n.type \in Hears(p, u) /\ Wants(u, n.type))
      BY <2>3, <3>1 DEF ToInv, n
    <3>5. (Told(p, u) \subseteq Hears(p, u) \ Pending(p))'
      BY <1>2, <2>3, <3>1, <3>2, <3>4 DEF ToldInv
    <3>6. (u \notin changed => \A t \in Told(p, u) : Wants(u, t))'
      BY <1>1, <3>1, <3>2, <3>3, <3>4 DEF ToldInv
    <3>7. ASSUME ~ (p \in broken \cup removal \/ purged \/ u \in changed)',
                 NEW t \in Hears(p, u)' \ Pending(p)', Wants(u, t)'
          PROVE  t \in Told(p, u)'
      <4>1. ~ (p \in broken \cup removal \/ purged \/ u \in changed)
        BY <1>1, <3>7
      <4>2. t \in Hears(p, u) \ Pending(p) \/ t = n.type
        BY <1>2, <2>3, <3>7
      <4>3. CASE t = n.type
        BY <1>2, <3>2, <3>3, <3>4, <3>7, <4>1, <4>3
      <4>4. CASE t \in Hears(p, u) \ Pending(p)
        BY <3>1, <3>2, <3>3, <3>7, <4>1, <4>4 DEF ToldInv
      <4> QED
        BY <4>2, <4>3, <4>4
    <3>8. ~ At(p, "new")' /\ ~ At(p, "created")'
      BY <2>3 DEF At
    <3> QED
      BY <3>5, <3>6, <3>7, <3>8 DEF ToldInv
  <2>6. (\A k \in message : k.from = p => k.about = p)'
    BY <2>1, <2>4 DEF PostInv
  <2>7. (floor[p].mention \subseteq OldFloors)' /\ AuthorInv(p)'
    BY <1>1, <2>1 DEF PostInv, AuthorInv, At
  <2> QED
    BY <2>3, <2>5, <2>6, <2>7 DEF PostInv, At
<1> QED
  BY <1>5, <1>6, <1>7, <1>8 DEF Send

\* The queue of a handler that has collected it: everything that is to be heard is
\* queued and nobody has been told yet.
LEMMA PostCollects ==
    ASSUME MailPart, subscribed \subseteq Users, replica \subseteq Users,
           recipients \in [Posts -> Recipients], NEW p \in Posts, PostInv(p), Collect(p)
    PROVE  PostInv(p)'
<1>0. p \in Senders /\ DOMAIN sender = Senders
  BY DEF Senders, MailPart
<1>1. /\ sender[p].step = "created"
      /\ UNCHANGED <<floor, message, inbox>>
      /\ floor[p].mention \subseteq OldFloors
  BY DEF Collect, At, tables, PostInv
<1>b. PICK A \in SUBSET {Owner}, S \in SUBSET Users :
        /\ To(p, Sending(p, IF floor[p].sensitive
                            THEN Merge(<<>>, Note("sensitive", SetToBag(AdminList)))
                            ELSE Announcements(p, A, S)))
        /\ ~ floor[p].sensitive => /\ recipients'[p].author = A
                                   /\ recipients'[p].subscribers = S
                                   /\ A = {Owner} \/ p \in broken'
  <2>1. CASE floor[p].sensitive
    <3>1. To(p, Sending(p, Merge(<<>>, Note("sensitive", SetToBag(AdminList)))))
      BY <2>1 DEF Collect
    <3>2. {} \in SUBSET {Owner} /\ {} \in SUBSET Users
      OBVIOUS
    <3> QED
      BY <2>1, <3>1, <3>2
  <2>2. CASE ~ floor[p].sensitive
    <3>1. PICK A \in {{Owner}, {}}, S \in {subscribed, replica, {}} :
            /\ To(p, Sending(p, Announcements(p, A, S)))
            /\ recipients' = [recipients EXCEPT ![p] = [author |-> A, subscribers |-> S]]
            /\ broken' = IF A = {Owner} /\ S \in {subscribed, replica} THEN broken
                         ELSE broken \cup {p}
      BY <2>2 DEF Collect
    <3>2. recipients'[p] = [author |-> A, subscribers |-> S]
      BY <3>1
    <3>3. recipients'[p].author = A /\ recipients'[p].subscribers = S
      BY <3>2
    <3>4. A = {Owner} \/ p \in broken'
      BY <3>1
    <3>5. A \in SUBSET {Owner} /\ S \in SUBSET Users
      BY <3>1
    <3> QED
      BY <2>2, <3>1, <3>3, <3>4, <3>5
  <2> QED
    BY <2>1, <2>2
<1> DEFINE q == IF floor[p].sensitive THEN Merge(<<>>, Note("sensitive", SetToBag(AdminList)))
                ELSE Announcements(p, A, S)
<1>2. /\ sender'[p].step = "send" /\ sender'[p].floor = p /\ sender'[p].queue = q
  BY <1>0, <1>b DEF To, Sending
<1>3. IsQueue(q)
  <2>1. AdminList \subseteq Users /\ "sensitive" \in Types
    BY UsersAssumption DEF Types
  <2>2. DOMAIN SetToBag(AdminList) \subseteq Users
    BY <2>1, SetBagOK
  <2>3. IsQueue(Merge(<<>>, Note("sensitive", SetToBag(AdminList))))
    BY <2>1, <2>2, QueueEmpty, MergeOK
  <2> QED
    BY <1>b, <2>3, AnnouncementsOK
<1>4. Mentions(p, Owner)' = Mentions(p, Owner) /\ \A u : Mentions(p, u)' = Mentions(p, u)
  BY <1>1 DEF Mentions
<1>5. OnePerType(q) /\ \A u \in Users : \A t : t \in Hears(p, u)' <=> u \in For(q, t)
  <2>1. CASE floor[p].sensitive
    <3>1. q = Merge(<<>>, Note("sensitive", SetToBag(AdminList)))
      BY <2>1
    <3> HIDE DEF q
    <3>2. /\ OnePerType(q) /\ For(q, "sensitive") = AdminList
          /\ \A t : t # "sensitive" => For(q, t) = {}
      BY <3>1, Stopped
    <3>3. \A u, t : t \in Hears(p, u)' <=> t = "sensitive" /\ u \in AdminList
      BY <1>1, <2>1 DEF Hears
    <3> QED
      BY <3>2, <3>3
  <2>2. CASE ~ floor[p].sensitive
    <3> DEFINE by == floor[p].by
    <3>1. q = Announcements(p, A, S)
      BY <2>2
    <3> HIDE DEF q
    <3>2. /\ OnePerType(q) /\ TypesOf(q) \subseteq {"reply", "mention", "favorite"}
          /\ For(q, "reply") = A \ {by}
          /\ For(q, "mention") =
               {u \in Users \ {by} : Mentions(p, u) > 0 /\ (u \in A => Mentions(p, u) > 1)}
          /\ For(q, "favorite") =
               {u \in S \ {by} : u \notin A /\ ~ Mentions(p, u) > 0}
      <4>1. IsFor(Announcements(p, A, S), p, A, S)
        BY <1>1, Announced
      <4> QED
        BY <3>1, <4>1 DEF IsFor
    <3>3. \A t : t \notin {"reply", "mention", "favorite"} => For(q, t) = {}
      <4>1. DOMAIN q = 1..Len(q)
        BY <1>3, <3>1 DEF IsQueue, q
      <4>2. \A i \in 1..Len(q) : q[i].type \in TypesOf(q)
        BY <4>1 DEF TypesOf
      <4>3. \A i \in 1..Len(q) : q[i].type \in {"reply", "mention", "favorite"}
        BY <3>2, <4>2
      <4> QED
        BY <4>3 DEF For
    <3>4. ASSUME NEW u \in Users
          PROVE  Hears(p, u)' =
                   IF u = by THEN {}
                   ELSE IF u \in A THEN {"reply"} \cup {t \in {"mention"} : Mentions(p, u) > 1}
                   ELSE IF Mentions(p, u) > 0 THEN {"mention"}
                   ELSE {t \in {"favorite"} : u \in S}
      BY <1>1, <1>4, <1>b, <2>2 DEF Hears
    <3>5. \A u : Mentions(p, u) > 1 => Mentions(p, u) > 0
      BY <1>1, Counting
    <3> HIDE DEF by
    <3> SUFFICES ASSUME NEW u \in Users, NEW t
                 PROVE  t \in Hears(p, u)' <=> u \in For(q, t)
      BY <3>2
    <3>6. CASE t = "reply"
      BY <3>2, <3>4, <3>6
    <3>7. CASE t = "mention"
      BY <3>2, <3>4, <3>5, <3>7
    <3>8. CASE t = "favorite"
      BY <3>2, <3>4, <3>8
    <3>9. CASE t \notin {"reply", "mention", "favorite"}
      BY <3>3, <3>4, <3>9
    <3> QED
      BY <3>6, <3>7, <3>8, <3>9
  <2> QED
    BY <2>1, <2>2
<1> HIDE DEF q
<1>6. DOMAIN q = 1..Len(q)
  BY <1>3 DEF IsQueue
<1>7. QueueInv(p)'
  <2>1. \A i \in 1..Len(q), u \in Users : u \in BagToSet(q[i].to) <=> q[i].type \in Hears(p, u)'
    BY <1>5 DEF For, OnePerType, BagToSet
  <2> QED
    BY <1>2, <1>5, <2>1 DEF QueueInv, OnePerType, BagToSet
<1>8. Pending(p)' = TypesOf(q)
  BY <1>2 DEF Pending, At, TypesOf
<1>9. \A u \in Users : Hears(p, u)' \subseteq Pending(p)'
  BY <1>5, <1>6, <1>8 DEF For, TypesOf
<1>10. \A u \in Users : Told(p, u)' = {}
  BY <1>1 DEF PostInv, ToldInv, At, Told
<1>11. \A u \in Users : ToldInv(p, u)'
  BY <1>9, <1>10 DEF ToldInv
<1>12. AuthorInv(p)'
  BY <1>1, <1>b DEF AuthorInv
<1> QED
  BY <1>1, <1>2, <1>7, <1>11, <1>12 DEF PostInv, At

LEMMA PostCreated ==
    ASSUME MailPart, NEW p \in Posts, PostInv(p),
           NEW u \in Users, NEW S \in SUBSET OldFloors, NEW b \in BOOLEAN,
           CreateFloor(p, u, S, b)
    PROVE  PostInv(p)'
<1>1. /\ sender[p].step = "new" /\ sender'[p].step = "created"
      /\ floor'[p].mention = S /\ UNCHANGED <<message, inbox>>
  <2>1. p \in Senders /\ DOMAIN sender = Senders /\ p \in Floors /\ DOMAIN floor = Floors
    BY DEF Senders, MailPart, Floors
  <2> QED
    BY <2>1 DEF CreateFloor, At, To
<1>2. \A v \in Users : Told(p, v)' = {}
  BY <1>1 DEF PostInv, ToldInv, At, Told
<1>3. \A v \in Users : ToldInv(p, v)'
  BY <1>1, <1>2 DEF ToldInv, At
<1> QED
  BY <1>1, <1>3 DEF PostInv, AuthorInv, At

\* The steps of the others.
LEMMA OthersKeep ==
    ASSUME MailPart, SubscriptionPart, SettingPart, PostPart, NEW p \in Posts,
           \/ \E h \in Senders \ {p} : Send(h)
           \/ \E o \in Posts \ {p} : Post(o)
           \/ \E x \in Tasks : Task(x)
           \/ \E s \in Follows : Subscribe(s)
           \/ \E c \in Settings : ModifyUser(c)
           \/ \E v \in Readers : Read(v)
           \/ CatchUp
           \/ PurgeMessage
           \/ UNCHANGED vars
    PROVE  PostInv(p)'
<1>0. /\ DOMAIN sender = Senders /\ p \in Senders /\ p \notin Tasks
      /\ OldFloors \cap Posts = {} /\ OldFloors \subseteq Floors /\ Posts \subseteq Floors
      /\ Posts \subseteq Senders /\ Tasks \subseteq Senders
      /\ floor \in [Floors -> Row] /\ PostInv(p) /\ recipients \in [Posts -> Recipients]
      /\ inbox \subseteq message \X Users
  BY HandlersAssumption DEF MailPart, PostPart, Senders, Floors, InboxWhole
<1>1. \A x \in Senders : \A q : x # p /\ To(x, q) => sender'[p] = sender[p]
  BY <1>0 DEF To
<1>2. ASSUME NEW h \in Senders \ {p}, Send(h)
      PROVE  PostInv(p)'
  <2>1. /\ sender'[p] = sender[p] /\ Unmoved(p)
        /\ UNCHANGED <<removal, purged, changed, config>> /\ broken \subseteq broken'
    BY <1>1, <1>2 DEF Send, Skip, CheckConfig, Store, FailStore, tables, history, Unmoved
  <2>2. CASE Store(h)
    <3> DEFINE m == [about |-> sender[h].floor, type |-> Head(sender[h].queue).type, from |-> h]
    <3>1. message' = message \cup {m} /\ inbox' = inbox \cup ({m} \X sender[h].to)
      BY <2>2 DEF Store, Stored
    <3>2. m.from = h
      OBVIOUS
    <3> HIDE DEF m
    <3> QED
      BY <1>0, <2>1, <3>1, <3>2, PostKept
  <2>3. CASE ~ Store(h)
    <3>1. UNCHANGED <<message, inbox>>
      BY <1>2, <2>3 DEF Send, Skip, CheckConfig, FailStore, tables
    <3> QED
      BY <1>0, <2>1, <3>1, PostKept
  <2> QED
    BY <2>2, <2>3
<1>3. ASSUME NEW o \in Posts \ {p}, Post(o)
      PROVE  PostInv(p)'
  <2>1. /\ UNCHANGED <<message, inbox, config, removal, purged, changed>>
        /\ broken \subseteq broken' /\ sender'[p] = sender[p]
    BY <1>0, <1>1, <1>3 DEF Post, CreateFloor, Collect, tables, history
  <2>2. Unmoved(p)
    <3>1. /\ \A f \in Floors : f # o => floor'[f] = floor[f]
          /\ recipients'[p] = recipients[p]
      BY <1>0, <1>3 DEF Post, CreateFloor, Collect, tables, history
    <3> QED
      BY <1>0, <3>1 DEF Unmoved
  <2> QED
    BY <1>0, <2>1, <2>2, PostKept
<1>4. ASSUME NEW x \in Tasks, Task(x)
      PROVE  PostInv(p)'
  <2>1. /\ sender'[p] = sender[p]
        /\ UNCHANGED <<recipients, config, broken, purged, changed>> /\ removal \subseteq removal'
    BY <1>0, <1>1, <1>4 DEF Task, PluckMessages, EditFloor, RemoveFloor, FailRemove, SendMail,
                            tables, history
  <2>2. CASE RemoveFloor(x)
    <3> DEFINE M == sender[x].found
    <3>1. /\ message' = message \ M /\ inbox' = {i \in inbox : i[1] \notin M}
          /\ floor' = [floor EXCEPT ![sender[x].floor].state = "deleted"]
          /\ sender[x].step = "remove" /\ removal' = removal
      BY <2>2 DEF RemoveFloor, Dropped, At, history
    <3>2. sender[x].floor \in removal /\ \A m \in M : m.about = sender[x].floor
      BY <1>0, <3>1 DEF MailPart, RemovalInv, At
    <3>3. \A f \in Floors : floor'[f].by = floor[f].by /\ floor'[f].mention = floor[f].mention
                            /\ floor'[f].sensitive = floor[f].sensitive
      BY <1>0, <3>1 DEF Row
    <3>4. Unmoved(p)
      BY <1>0, <2>1, <3>3 DEF Unmoved
    <3>5. \A m \in message, u \in Users :
             <<m, u>> \in inbox' <=> <<m, u>> \in inbox /\ m \notin M
      BY <3>1
    <3>6. \A m \in message : m.from = p => (m \in message' \/ p \in removal')
      BY <1>0, <3>1, <3>2 DEF PostInv
    <3> HIDE DEF M
    <3> QED
      BY <1>0, <2>1, <3>1, <3>4, <3>5, <3>6, PostKept
  <2>3. CASE ~ RemoveFloor(x)
    <3>1. UNCHANGED <<floor, message, inbox>>
      BY <1>4, <2>3 DEF Task, PluckMessages, EditFloor, FailRemove, SendMail, tables, history
    <3>2. Unmoved(p)
      BY <2>1, <3>1 DEF Unmoved
    <3> QED
      BY <1>0, <2>1, <3>1, <3>2, PostKept
  <2> QED
    BY <2>2, <2>3
<1>5. ASSUME NEW c \in Settings, ModifyUser(c)
      PROVE  PostInv(p)'
  <2>1. /\ UNCHANGED <<floor, message, inbox, sender, recipients, broken, removal, purged>>
        /\ changed \subseteq changed'
    BY <1>5 DEF ModifyUser, ReadConfig, WriteConfig, tables, history
  <2>2. Unmoved(p)
    BY <2>1 DEF Unmoved
  <2>3. \A u \in Users : config'[u] = config[u] \/ u \in changed'
    <3>1. config \in [Users -> Config]
      BY DEF SettingPart
    <3> QED
      BY <1>5, <3>1 DEF ModifyUser, ReadConfig, WriteConfig, tables
  <2> QED
    BY <1>0, <2>1, <2>2, <2>3, PostKept
<1>6. CASE PurgeMessage
  <2>1. PICK M : message' = message \ M /\ inbox' = {i \in inbox : i[1] \notin M}
    BY <1>6 DEF PurgeMessage, Dropped
  <2>2. UNCHANGED <<floor, sender, recipients, broken, removal, config, changed>> /\ purged' = TRUE
    BY <1>6 DEF PurgeMessage
  <2>3. Unmoved(p)
    BY <2>2 DEF Unmoved
  <2> QED
    BY <1>0, <2>1, <2>2, <2>3, PostKept
<1>7. CASE \/ \E s \in Follows : Subscribe(s)
           \/ \E v \in Readers : Read(v)
           \/ CatchUp \/ UNCHANGED vars
  <2>1. UNCHANGED <<floor, message, inbox, sender, recipients, broken, removal, purged, config,
                    changed>>
    BY <1>7 DEF Subscribe, CheckSubscription, AddUserSubscription, RemoveUserSubscription,
                FailSubscription, CatchUp, Read, ClearMessages, DeleteMessage, vars, tables,
                history
  <2>2. Unmoved(p)
    BY <2>1 DEF Unmoved
  <2> QED
    BY <1>0, <2>1, <2>2, PostKept
<1> QED
  BY <1>2, <1>3, <1>4, <1>5, <1>6, <1>7

LEMMA NextPost ==
    ASSUME SubscriptionPart, SettingPart, MailPart, PostPart, [Next]_vars
    PROVE  PostPart'
<1>1. recipients' \in [Posts -> Recipients]
  <2>1. /\ subscribed \in SUBSET Users /\ replica \in SUBSET Users
        /\ recipients \in [Posts -> Recipients]
    BY DEF SubscriptionPart, PostPart
  <2>2. CASE \E h \in Senders : Send(h)
    BY <2>1, <2>2 DEF Send, Skip, CheckConfig, Store, FailStore, history
  <2>3. CASE \E p \in Posts : Post(p)
    <3>1. \/ UNCHANGED recipients
          \/ \E p \in Posts, A \in {{Owner}, {}}, S \in {subscribed, replica, {}} :
                recipients' = [recipients EXCEPT ![p] = [author |-> A, subscribers |-> S]]
      BY <2>3 DEF Post, CreateFloor, Collect, history
    <3>2. \A A \in {{Owner}, {}}, S \in {subscribed, replica, {}} :
             [author |-> A, subscribers |-> S] \in Recipients
      BY <2>1 DEF Recipients
    <3> QED
      BY <2>1, <3>1, <3>2
  <2>4. CASE \E x \in Tasks : Task(x)
    BY <2>1, <2>4 DEF Task, PluckMessages, EditFloor, RemoveFloor, FailRemove, SendMail, history
  <2>5. CASE \E c \in Follows : Subscribe(c)
    BY <2>1, <2>5 DEF Subscribe, CheckSubscription, AddUserSubscription,
                      RemoveUserSubscription, FailSubscription, history
  <2>6. CASE \E c \in Settings : ModifyUser(c)
    BY <2>1, <2>6 DEF ModifyUser, ReadConfig, WriteConfig, history
  <2>7. CASE (\E u \in Readers : Read(u)) \/ CatchUp \/ PurgeMessage
    BY <2>1, <2>7 DEF Read, ClearMessages, DeleteMessage, CatchUp, PurgeMessage, history
  <2>8. CASE UNCHANGED vars
    BY <2>1, <2>8 DEF vars, history
  <2> QED
    BY <2>2, <2>3, <2>4, <2>5, <2>6, <2>7, <2>8 DEF Next
<1>2. ASSUME NEW p \in Posts
      PROVE  PostInv(p)'
  <2>1. /\ subscribed \subseteq Users /\ replica \subseteq Users
        /\ recipients \in [Posts -> Recipients] /\ PostInv(p)
    BY DEF SubscriptionPart, PostPart
  <2>2. CASE Send(p)
    BY <2>1, <2>2, PostSends
  <2>3. CASE Post(p)
    BY <2>1, <2>3, PostCollects, PostCreated DEF Post
  <2>4. CASE ~ Send(p) /\ ~ Post(p)
    BY <2>4, OthersKeep DEF Next
  <2> QED
    BY <2>2, <2>3, <2>4
<1> QED
  BY <1>1, <1>2 DEF PostPart

LEMMA InitPost == Init => PostPart
<1> SUFFICES ASSUME Init
             PROVE  PostPart
  OBVIOUS
<1>1. recipients \in [Posts -> Recipients]
  BY DEF Init, Recipients
<1>2. ASSUME NEW p \in Posts
      PROVE  PostInv(p)
  <2>1. sender[p].step = "new" /\ message = {} /\ floor[p].mention = {}
    BY HandlersAssumption DEF Init, Senders, Floors, New, NoFloor
  <2>2. \A u \in Users : Told(p, u) = {}
    BY <2>1 DEF Told
  <2> QED
    BY <2>1, <2>2 DEF PostInv, AuthorInv, ToldInv, At
<1> QED
  BY <1>1, <1>2 DEF PostPart

LEMMA PostOnce == PostPart => HeardOnce
<1> SUFFICES ASSUME PostPart, NEW p \in Posts, NEW u \in Users
             PROVE  /\ Cardinality(Told(p, u)) > 1 =>
                          u = Owner /\ Mentions(p, u) > 1 /\ Told(p, u) = {"reply", "mention"}
                    /\ u = floor[p].by /\ u \notin AdminList => Told(p, u) = {}
  BY DEF HeardOnce
<1>1. Told(p, u) \subseteq Hears(p, u)
  BY DEF PostPart, PostInv, ToldInv
<1>2. \A t : Cardinality({t}) = 1 /\ Cardinality({}) = 0
  BY FS_Singleton, FS_EmptySet
<1>3. CASE \E t : Hears(p, u) \subseteq {t}
  <2>1. ~ Cardinality(Told(p, u)) > 1
    <3>1. PICK t : Told(p, u) \subseteq {t}
      BY <1>1, <1>3
    <3>2. Told(p, u) = {} \/ Told(p, u) = {t}
      BY <3>1
    <3>3. Cardinality(Told(p, u)) = 0 \/ Cardinality(Told(p, u)) = 1
      BY <1>2, <3>2
    <3> QED
      BY <3>3
  <2>2. u = floor[p].by /\ u \notin AdminList => Told(p, u) = {}
    BY <1>1 DEF Hears
  <2> QED
    BY <2>1, <2>2
<1>4. CASE ~ \E t : Hears(p, u) \subseteq {t}
  <2>1. u # floor[p].by /\ u = Owner /\ Mentions(p, u) > 1 /\ Hears(p, u) = {"reply", "mention"}
    <3>1. recipients[p].author \subseteq {Owner}
      BY DEF PostPart, Recipients
    <3> QED
      BY <1>4, <3>1 DEF Hears
  <2>2. \/ \E t : Told(p, u) = {t}
        \/ Told(p, u) = {}
        \/ Told(p, u) = {"reply", "mention"}
    <3>1. Told(p, u) \subseteq {"reply", "mention"}
      BY <1>1, <2>1
    <3>2. CASE "reply" \in Told(p, u) /\ "mention" \in Told(p, u)
      BY <3>1, <3>2
    <3>3. CASE "reply" \notin Told(p, u)
      <4>1. Told(p, u) = {} \/ Told(p, u) = {"mention"}
        BY <3>1, <3>3
      <4> QED
        BY <4>1
    <3>4. CASE "mention" \notin Told(p, u)
      <4>1. Told(p, u) = {} \/ Told(p, u) = {"reply"}
        BY <3>1, <3>4
      <4> QED
        BY <4>1
    <3> QED
      BY <3>2, <3>3, <3>4
  <2>3. (\E t : Told(p, u) = {t}) => Cardinality(Told(p, u)) = 1
    BY <1>2
  <2>4. Told(p, u) = {} => Cardinality(Told(p, u)) = 0
    BY <1>2
  <2>5. Cardinality(Told(p, u)) > 1 => Told(p, u) = {"reply", "mention"}
    <3>1. CASE \E t : Told(p, u) = {t}
      BY <2>3, <3>1
    <3>2. CASE Told(p, u) = {}
      BY <2>4, <3>2
    <3> QED
      BY <2>2, <3>1, <3>2
  <2> QED
    BY <2>1, <2>5
<1> QED
  BY <1>3, <1>4

LEMMA PostEveryone == PostPart => EveryoneTold
<1> SUFFICES ASSUME PostPart, NEW p \in Posts, NEW u \in Users,
                    At(p, "done"), p \notin broken, p \notin removal, ~ purged,
                    ~ floor[p].sensitive, u \notin changed, u # floor[p].by
             PROVE  Told(p, u) =
                      IF u = Owner
                      THEN {"reply"} \cup {t \in {"mention"} : /\ Mentions(p, u) > 1
                                                               /\ t \in config[u].notify}
                      ELSE IF Mentions(p, u) > 0 THEN {"mention"} \cap config[u].notify
                      ELSE IF u \in recipients[p].subscribers THEN {"favorite"} \cap config[u].notify
                      ELSE {}
  BY DEF EveryoneTold
<1>1. /\ ToldInv(p, u) /\ Pending(p) = {} /\ ~ At(p, "new") /\ ~ At(p, "created")
      /\ recipients[p].author = {Owner}
  BY DEF PostPart, PostInv, AuthorInv, At, Pending
<1>2. Told(p, u) = {t \in Hears(p, u) : Wants(u, t)}
  BY <1>1 DEF ToldInv
<1>3. /\ Wants(u, "reply")
      /\ Wants(u, "mention") <=> "mention" \in config[u].notify
      /\ Wants(u, "favorite") <=> "favorite" \in config[u].notify
  BY DEF Wants, Switchable
<1> QED
  BY <1>1, <1>2, <1>3 DEF Hears

-----------------------------------------------------------------------------
(* Theorems *)

LEMMA InitIInv == Init => IInv
<1> SUFFICES ASSUME Init
             PROVE  IInv
  OBVIOUS
<1>0. Owner \in Users /\ OldAuthor \in [OldFloors -> Users] /\ FirstConfig \in [Users -> Config]
  BY UsersAssumption
<1>1. SubscriptionPart
  <2>1. New \in Follow /\ New.step = "new"
    BY DEF New, Follow
  <2>2. follow \in [Follows -> Follow] /\ FollowInv
    BY <2>1 DEF Init, FollowInv
  <2>3. subscribed = {} /\ replica = {} /\ subscriptionCount = 0 /\ overlaps = 0
    BY DEF Init
  <2>4. Cardinality(subscribed) = 0
    BY <2>3, FS_EmptySet
  <2>5. SubscriptionsCounted
    BY <2>3, <2>4 DEF SubscriptionsCounted
  <2> QED
    BY <2>2, <2>3, <2>5 DEF SubscriptionPart
<1>2. SettingPart
  <2>1. New \in Setting /\ New.step = "new"
    BY DEF New, Setting
  <2> QED
    BY <1>0, <2>1 DEF Init, SettingPart, SettingsKept, SettingInv
<1>3. MailPart
  <2>1. \A f \in Floors :
          /\ floor[f] \in Row /\ floor[f].mention = {} /\ floor[f].state # "deleted"
          /\ floor[f].state # "none" => floor[f].by \in Users
    <3> TAKE f \in Floors
    <3>1. CASE f \in OldFloors
      <4>1. floor[f] = [state |-> "live", by |-> OldAuthor[f], mention |-> {},
                        sensitive |-> FALSE]
        BY <3>1 DEF Init
      <4> QED
        BY <1>0, <3>1, <4>1 DEF Row
    <3>2. CASE f \notin OldFloors
      <4>1. floor[f] = [state |-> "none", by |-> None, mention |-> {}, sensitive |-> FALSE]
        BY <3>2 DEF Init, NoFloor
      <4> QED
        BY <4>1 DEF Row
    <3> QED
      BY <3>1, <3>2
  <2>2. floor \in [Floors -> Row] /\ FloorsOK
    <3>1. floor \in [Floors -> Row]
      BY <2>1 DEF Init
    <3> QED
      BY <2>1, <3>1 DEF FloorsOK
  <2>3. DOMAIN sender = Senders /\ \A h \in Senders : SenderOK(h)
    BY DEF Init, New, SenderOK, At
  <2>4. message \subseteq Message /\ InboxWhole /\ DeletedFloorsForgotten
    BY DEF Init, InboxWhole, DeletedFloorsForgotten
  <2>5. RemovalInv
    BY <2>1 DEF Init, RemovalInv, At, New
  <2> QED
    BY <2>2, <2>3, <2>4, <2>5 DEF MailPart
<1> QED
  BY <1>1, <1>2, <1>3, InitPost, Parts

\* A step belongs to one part and leaves the variables of the others alone.
LEMMA NextParts ==
    ASSUME SubscriptionPart, SettingPart, MailPart, [Next]_vars
    PROVE  SubscriptionPart' /\ SettingPart' /\ MailPart'
<1>1. subscribed \subseteq Users /\ replica \subseteq Users
  BY DEF SubscriptionPart
<1>2. ASSUME NEW h \in Senders, Send(h)
      PROVE  SubscriptionPart' /\ SettingPart' /\ MailPart'
  <2>1. UNCHANGED subscriptionVars /\ UNCHANGED settingVars
    BY <1>2 DEF Send, Skip, CheckConfig, Store, FailStore, tables, history,
                subscriptionVars, settingVars
  <2> QED
    BY <1>2, <2>1, SendStep, SubscriptionFrame, SettingFrame
<1>3. ASSUME NEW p \in Posts, Post(p)
      PROVE  SubscriptionPart' /\ SettingPart' /\ MailPart'
  <2>1. UNCHANGED subscriptionVars /\ UNCHANGED settingVars
    BY <1>3 DEF Post, CreateFloor, Collect, tables, history, subscriptionVars, settingVars
  <2> QED
    BY <1>1, <1>3, <2>1, PostStep, SubscriptionFrame, SettingFrame
<1>4. ASSUME NEW x \in Tasks, Task(x)
      PROVE  SubscriptionPart' /\ SettingPart' /\ MailPart'
  <2>1. UNCHANGED subscriptionVars /\ UNCHANGED settingVars
    BY <1>4 DEF Task, PluckMessages, EditFloor, RemoveFloor, FailRemove, SendMail, tables,
                history, subscriptionVars, settingVars
  <2> QED
    BY <1>4, <2>1, TaskStep, SubscriptionFrame, SettingFrame
<1>5. ASSUME NEW s \in Follows, Subscribe(s)
      PROVE  SubscriptionPart' /\ SettingPart' /\ MailPart'
  <2>1. UNCHANGED mailVars /\ UNCHANGED settingVars
    BY <1>5 DEF Subscribe, CheckSubscription, AddUserSubscription, RemoveUserSubscription,
                FailSubscription, tables, history, mailVars, settingVars
  <2> QED
    BY <1>5, <2>1, SubscribeStep, MailFrame, SettingFrame
<1>6. ASSUME NEW c \in Settings, ModifyUser(c)
      PROVE  SubscriptionPart' /\ SettingPart' /\ MailPart'
  <2>1. UNCHANGED mailVars /\ UNCHANGED subscriptionVars
    BY <1>6 DEF ModifyUser, ReadConfig, WriteConfig, tables, history, mailVars,
                subscriptionVars
  <2> QED
    BY <1>6, <2>1, ModifyStep, MailFrame, SubscriptionFrame
<1>7. ASSUME NEW u \in Readers, Read(u)
      PROVE  SubscriptionPart' /\ SettingPart' /\ MailPart'
  <2>1. UNCHANGED subscriptionVars /\ UNCHANGED settingVars
    BY <1>7 DEF Read, ClearMessages, DeleteMessage, history, subscriptionVars, settingVars
  <2> QED
    BY <1>7, <2>1, ReadStep, SubscriptionFrame, SettingFrame
<1>8. CASE PurgeMessage
  <2>1. UNCHANGED subscriptionVars /\ UNCHANGED settingVars
    BY <1>8 DEF PurgeMessage, subscriptionVars, settingVars
  <2> QED
    BY <1>8, <2>1, PurgeStep, SubscriptionFrame, SettingFrame
<1>9. CASE CatchUp
  <2>1. /\ replica' = subscribed /\ UNCHANGED <<subscribed, subscriptionCount, overlaps, follow>>
        /\ UNCHANGED settingVars /\ UNCHANGED mailVars
    BY <1>9 DEF CatchUp, history, settingVars, mailVars
  <2>2. SubscriptionPart'
    BY <2>1 DEF SubscriptionPart, SubscriptionsCounted, FollowInv
  <2> QED
    BY <2>1, <2>2, MailFrame, SettingFrame
<1>10. CASE UNCHANGED vars
  <2>1. UNCHANGED subscriptionVars /\ UNCHANGED settingVars /\ UNCHANGED mailVars
    BY <1>10 DEF vars, tables, history, subscriptionVars, settingVars, mailVars
  <2> QED
    BY <2>1, MailFrame, SubscriptionFrame, SettingFrame
<1> QED
  BY <1>2, <1>3, <1>4, <1>5, <1>6, <1>7, <1>8, <1>9, <1>10 DEF Next

LEMMA NextIInv == IInv /\ [Next]_vars => IInv'
<1>1. SubscriptionPart /\ SettingPart /\ MailPart /\ PostPart /\ [Next]_vars
        => SubscriptionPart' /\ SettingPart' /\ MailPart' /\ PostPart'
  BY NextParts, NextPost
<1> QED
  BY <1>1, Parts, PTL

\* The inductive invariant holds always.
THEOREM Invariance == Spec => []IInv
BY InitIInv, NextIInv, PTL DEF Spec

\* Rows, settings and what the handlers hold keep their types.
THEOREM TypeCorrect == Spec => []TypeOK
BY Invariance, PTL DEF IInv

\* For any users, floors and handlers, a floor is announced to a user once, but
\* for the author of the hole, and never to its poster.
THEOREM Once == Spec => []HeardOnce
<1>1. IInv => HeardOnce
  BY Parts, PostOnce
<1> QED
  BY <1>1, Invariance, PTL

\* And when its handler is done and no step failed, everybody has been told what
\* there was to hear, unless it is switched off.
THEOREM AllTold == Spec => []EveryoneTold
<1>1. IInv => EveryoneTold
  BY Parts, PostEveryone
<1> QED
  BY <1>1, Invariance, PTL

\* Messages come and go with their recipients, whatever is sent, removed and
\* purged at the same moment.
THEOREM InboxesWhole == Spec => []InboxWhole
BY Invariance, PTL DEF IInv

\* Once a floor is deleted only messages that came after its removal had looked
\* for them are left.
THEOREM Forgotten == Spec => []DeletedFloorsForgotten
BY Invariance, PTL DEF IInv

\* For any number of users and requests the counter of subscriptions is wrong by
\* at most the number of requests that acted on what another one of their user
\* had changed.
THEOREM Counted == Spec => []SubscriptionsCounted
BY Invariance, PTL DEF IInv

\* Only two changes at once lose a user's settings.
THEOREM Kept == Spec => []SettingsKept
BY Invariance, PTL DEF IInv
=============================================================================
