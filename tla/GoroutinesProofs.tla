-------------------------- MODULE GoroutinesProofs --------------------------
(***************************************************************************)
(* Proofs about the two modules in which goroutines finish what a handler  *)
(* has answered already.                                                   *)
(*                                                                         *)
(* HoleViews, for any holes, requests and capacity: every view that was    *)
(* accepted is in one of seven places, and a task that stopped has flushed *)
(* its map.                                                                *)
(*                                                                         *)
(* SearchIndex, for any holes, floors, texts and number of tasks: once the *)
(* goroutines have run and nothing let the index drift, it holds exactly   *)
(* the floors a user may find, with their current texts.                   *)
(***************************************************************************)
EXTENDS HoleViews, SearchIndex, FiniteSetTheorems, SequenceTheorems, TLAPS

\* How often x occurs in a sequence.
Occurrences(s, x) == {i \in DOMAIN s : s[i] = x}

LEMMA OccurrencesFinite ==
    ASSUME NEW S, NEW s \in Seq(S), NEW x
    PROVE  /\ IsFiniteSet(Occurrences(s, x))
           /\ Cardinality(Occurrences(s, x)) \in Nat
<1>1. DOMAIN s = 1..Len(s) /\ Len(s) \in Nat
  OBVIOUS
<1>2. IsFiniteSet(DOMAIN s)
  BY <1>1, FS_Interval
<1>3. Occurrences(s, x) \subseteq DOMAIN s
  BY DEF Occurrences
<1> QED
  BY <1>2, <1>3, FS_Subset, FS_CardinalityType

\* Appending adds an occurrence of what is appended and no other.
LEMMA OccurrencesAppend ==
    ASSUME NEW S, NEW s \in Seq(S), NEW e \in S, NEW x
    PROVE  Cardinality(Occurrences(Append(s, e), x)) =
             Cardinality(Occurrences(s, x)) + (IF e = x THEN 1 ELSE 0)
<1> DEFINE n == Len(s)
<1>1. n \in Nat /\ DOMAIN s = 1..n /\ DOMAIN Append(s, e) = 1..(n + 1)
  OBVIOUS
<1>2. \A i \in 1..n : Append(s, e)[i] = s[i]
  OBVIOUS
<1>3. Append(s, e)[n + 1] = e
  OBVIOUS
<1>4. n + 1 \notin Occurrences(s, x)
  BY <1>1 DEF Occurrences
<1>5. CASE e = x
  <2>1. Occurrences(Append(s, e), x) = Occurrences(s, x) \cup {n + 1}
    BY <1>1, <1>2, <1>3, <1>5 DEF Occurrences
  <2> QED
    BY <1>4, <1>5, <2>1, OccurrencesFinite, FS_AddElement
<1>6. CASE e # x
  <2>1. Occurrences(Append(s, e), x) = Occurrences(s, x)
    BY <1>1, <1>2, <1>3, <1>6 DEF Occurrences
  <2> QED
    BY <1>6, <2>1, OccurrencesFinite
<1> QED
  BY <1>5, <1>6

\* Taking the head removes an occurrence of it and no other.
LEMMA OccurrencesTail ==
    ASSUME NEW S, NEW s \in Seq(S), s # << >>, NEW x
    PROVE  Cardinality(Occurrences(s, x)) =
             Cardinality(Occurrences(Tail(s), x)) + (IF Head(s) = x THEN 1 ELSE 0)
<1> DEFINE n == Len(s)
           A == Occurrences(Tail(s), x)
           B == Occurrences(s, x) \ {1}
           f == [i \in A |-> i + 1]
<1>1. n \in Nat \ {0} /\ DOMAIN s = 1..n /\ Head(s) = s[1]
  OBVIOUS
<1>2. DOMAIN Tail(s) = 1..(n - 1) /\ Tail(s) \in Seq(S)
  BY <1>1
<1>3. \A i \in 1..(n - 1) : Tail(s)[i] = s[i + 1]
  BY <1>1
<1>4. ExistsBijection(A, B)
  <2>1. \A i \in A : i + 1 \in B /\ i \in Int
    BY <1>1, <1>2, <1>3 DEF Occurrences
  <2>2. f \in [A -> B]
    BY <2>1
  <2>3. \A j \in B : j - 1 \in A /\ j \in Int
    BY <1>1, <1>2, <1>3 DEF Occurrences
  <2>4. \A j \in B : \E i \in A : f[i] = j
    <3> TAKE j \in B
    <3>1. j - 1 \in A /\ f[j - 1] = (j - 1) + 1
      BY <2>3
    <3> QED
      BY <2>3, <3>1
  <2>5. \A i, k \in A : f[i] = f[k] => i = k
    BY <2>1
  <2>6. f \in Bijection(A, B)
    BY <2>2, <2>4, <2>5 DEF Bijection, Injection, Surjection, IsInjective
  <2> QED
    BY <2>6 DEF ExistsBijection
<1>5. IsFiniteSet(A) /\ IsFiniteSet(Occurrences(s, x)) /\ Cardinality(A) \in Nat
  BY <1>2, OccurrencesFinite
<1>6. Cardinality(B) = Cardinality(A)
  BY <1>4, <1>5, FS_Bijection
<1>7. Cardinality(B) = IF 1 \in Occurrences(s, x) THEN Cardinality(Occurrences(s, x)) - 1
                       ELSE Cardinality(Occurrences(s, x))
  BY <1>5, FS_RemoveElement
<1>8. 1 \in Occurrences(s, x) <=> Head(s) = x
  BY <1>1 DEF Occurrences
<1>9. Cardinality(Occurrences(s, x)) \in Nat
  BY OccurrencesFinite
<1> QED
  BY <1>5, <1>6, <1>7, <1>8, <1>9

-----------------------------------------------------------------------------
(* The invariant *)

LEMMA InChannelIs ==
    /\ \A h : InChannel(h) = Cardinality(Occurrences(channel, h))
    /\ \A h : InChannel(h)' = Cardinality(Occurrences(channel', h))
BY DEF InChannel, Occurrences

\* Types of one hole's counts.
LEMMA CountTypes ==
    ASSUME TypeOK, NEW h \in Holes
    PROVE  /\ view[h] \in Nat /\ holeViews[h] \in Nat /\ statement[h] \in Nat
           /\ seen[h] \in Nat /\ nowhere[h] \in Nat /\ failed[h] \in Nat
           /\ dropped[h] \in Nat /\ InChannel(h) \in Nat
<1>1. InChannel(h) \in Nat
  BY InChannelIs, OccurrencesFinite DEF TypeOK
<1> QED
  BY <1>1 DEF TypeOK, Counts

LEMMA ZeroCount == Zero \in Counts /\ \A h \in Holes : Zero[h] = 0
BY DEF Zero, Counts

LEMMA PlusCount ==
    ASSUME NEW f \in Counts, NEW g \in Counts
    PROVE  /\ Plus(f, g) \in Counts
           /\ \A h \in Holes : Plus(f, g)[h] = f[h] + g[h]
BY DEF Plus, Counts

LEMMA OnlyCount ==
    ASSUME NEW S, NEW f \in Counts
    PROVE  /\ Only(S, f) \in Counts
           /\ \A h \in Holes : Only(S, f)[h] = IF h \in S THEN f[h] ELSE 0
BY DEF Only, Counts

LEMMA EmptyChannel ==
    /\ << >> \in Seq(Holes) /\ Len(<< >>) = 0
    /\ \A h : Cardinality(Occurrences(<< >>, h)) = 0
<1>1. \A h : Occurrences(<< >>, h) = {}
  BY DEF Occurrences
<1> QED
  BY <1>1, FS_EmptySet

LEMMA InitInv == Init => IInv
<1> SUFFICES ASSUME Init PROVE IInv
  OBVIOUS
<1>1. TypeOK
  <2>1. {view, holeViews, statement, seen, nowhere, failed, dropped} \subseteq Counts
    BY ZeroCount DEF Init
  <2>2. channel \in Seq(Holes) /\ Len(channel) <= MaxChan
    BY EmptyChannel, ChanAssumption DEF Init
  <2> QED
    BY <2>1, <2>2 DEF Init, TypeOK, Handler
<1>2. ViewsAccounted
  BY ZeroCount, EmptyChannel, InChannelIs DEF Init, ViewsAccounted
<1>3. StopFlushes
  BY DEF Init, StopFlushes
<1> QED
  BY <1>1, <1>2, <1>3 DEF IInv

\* Steps that move no view: the counts and the channel stay.
LEMMA NoViewMoves ==
    ASSUME ViewsAccounted,
           UNCHANGED <<view, channel, holeViews, statement, seen, lost>>
    PROVE  ViewsAccounted'
BY DEF ViewsAccounted, InChannel, lost

LEMMA PatchStep ==
    ASSUME IInv, NEW r \in Requests, NEW h \in Holes, PatchHole(r, h)
    PROVE  IInv'
<1>1. TypeOK'
  BY DEF IInv, TypeOK, PatchHole, Handler, lost
<1>2. ViewsAccounted'
  BY NoViewMoves DEF IInv, PatchHole
<1>3. StopFlushes'
  BY DEF IInv, StopFlushes, PatchHole
<1> QED
  BY <1>1, <1>2, <1>3 DEF IInv

LEMMA SendStep ==
    ASSUME IInv, NEW r \in Requests, Send(r)
    PROVE  IInv'
<1> PICK k : k = patch[r].hole
  OBVIOUS
<1>1. /\ k \in Holes /\ channel' = Append(channel, k)
      /\ seen' = [seen EXCEPT ![k] = @ + 1]
  BY DEF IInv, TypeOK, Send
<1>2. TypeOK'
  <2>1. channel' \in Seq(Holes) /\ Len(channel') <= MaxChan
    BY <1>1, ChanAssumption DEF IInv, TypeOK, Send
  <2>2. seen' \in Counts
    BY <1>1 DEF IInv, TypeOK, Counts
  <2>3. /\ patch' \in [Requests -> Handler]
        /\ \A q \in Requests : patch'[q].step = "sending" => patch'[q].hole \in Holes
    BY DEF IInv, TypeOK, Send, Handler
  <2> QED
    BY <2>1, <2>2, <2>3 DEF IInv, TypeOK, Send, lost
<1>3. ViewsAccounted'
  <2> SUFFICES ASSUME NEW h \in Holes
               PROVE  seen'[h] = view'[h] + nowhere'[h] + failed'[h] + dropped'[h]
                                   + statement'[h] + holeViews'[h] + InChannel(h)'
    BY DEF ViewsAccounted
  <2>1. InChannel(h)' = InChannel(h) + (IF k = h THEN 1 ELSE 0)
    BY <1>1, InChannelIs, OccurrencesAppend DEF IInv, TypeOK
  <2>2. seen'[h] = seen[h] + (IF k = h THEN 1 ELSE 0)
    BY <1>1 DEF IInv, TypeOK, Counts
  <2>3. UNCHANGED <<view, nowhere, failed, dropped, statement, holeViews>>
    BY DEF Send, lost
  <2>4. seen[h] = view[h] + nowhere[h] + failed[h] + dropped[h]
                    + statement[h] + holeViews[h] + InChannel(h)
    BY DEF IInv, ViewsAccounted
  <2> QED
    BY <2>1, <2>2, <2>3, <2>4, CountTypes DEF IInv
<1>4. StopFlushes'
  BY DEF IInv, StopFlushes, Send
<1> QED
  BY <1>2, <1>3, <1>4 DEF IInv

LEMMA TickStep ==
    ASSUME IInv, Tick
    PROVE  IInv'
<1>1. TypeOK'
  BY DEF IInv, TypeOK, Tick, lost
<1>2. ViewsAccounted'
  BY NoViewMoves DEF IInv, Tick
<1>3. StopFlushes'
  BY DEF IInv, StopFlushes, Tick
<1> QED
  BY <1>1, <1>2, <1>3 DEF IInv

LEMMA TakeStep ==
    ASSUME IInv, Take
    PROVE  IInv'
<1> PICK k : k = Head(channel)
  OBVIOUS
<1>1. /\ channel \in Seq(Holes) /\ channel # << >> /\ k \in Holes
      /\ channel' = Tail(channel)
      /\ holeViews' = [holeViews EXCEPT ![k] = @ + 1]
  BY DEF IInv, TypeOK, Take
<1>2. TypeOK'
  <2>1. channel' \in Seq(Holes) /\ Len(channel') <= MaxChan
    BY <1>1, ChanAssumption DEF IInv, TypeOK
  <2>2. holeViews' \in Counts
    <3>1. holeViews \in Counts
      BY DEF IInv, TypeOK
    <3> QED
      BY <1>1, <3>1 DEF Counts
  <2> QED
    BY <2>1, <2>2 DEF IInv, TypeOK, Take, lost
<1>3. ViewsAccounted'
  <2> SUFFICES ASSUME NEW h \in Holes
               PROVE  seen'[h] = view'[h] + nowhere'[h] + failed'[h] + dropped'[h]
                                   + statement'[h] + holeViews'[h] + InChannel(h)'
    BY DEF ViewsAccounted
  <2>1. InChannel(h) = InChannel(h)' + (IF k = h THEN 1 ELSE 0)
    BY <1>1, InChannelIs, OccurrencesTail
  <2>2. holeViews'[h] = holeViews[h] + (IF k = h THEN 1 ELSE 0)
    <3>1. holeViews \in Counts
      BY DEF IInv, TypeOK
    <3> QED
      BY <1>1, <3>1, CountTypes DEF IInv, Counts
  <2>3. UNCHANGED <<view, nowhere, failed, dropped, statement, seen>>
    BY DEF Take, lost
  <2>4. seen[h] = view[h] + nowhere[h] + failed[h] + dropped[h]
                    + statement[h] + holeViews[h] + InChannel(h)
    BY DEF IInv, ViewsAccounted
  <2>5. InChannel(h)' \in Nat
    BY <1>2, InChannelIs, OccurrencesFinite DEF TypeOK
  <2> QED
    BY <2>1, <2>2, <2>3, <2>4, <2>5, CountTypes DEF IInv
<1>4. StopFlushes'
  BY DEF IInv, StopFlushes, Take
<1> QED
  BY <1>2, <1>3, <1>4 DEF IInv

\* The map moves into a statement, which was empty.
LEMMA BuildStep ==
    ASSUME IInv, NEW busy \in {"writing", "last"}, NEW idle \in {"select", "stopped"},
           task = "select", Build(busy, idle),
           UNCHANGED <<view, channel, server, patch, seen, lost>>, ticked' \in BOOLEAN,
           idle = "stopped" => server = "cancelled",
           busy = "last" => server = "cancelled"
    PROVE  IInv'
<1>1. statement' = holeViews /\ holeViews' = Zero /\ statement = Zero
  BY DEF IInv, StopFlushes, Build
<1>2. TypeOK'
  BY <1>1, ZeroCount DEF IInv, TypeOK, Build, lost
<1>3. ViewsAccounted'
  <2> SUFFICES ASSUME NEW h \in Holes
               PROVE  seen'[h] = view'[h] + nowhere'[h] + failed'[h] + dropped'[h]
                                   + statement'[h] + holeViews'[h] + InChannel(h)'
    BY DEF ViewsAccounted
  <2>1. InChannel(h)' = InChannel(h)
    BY DEF InChannel
  <2>2. statement'[h] = holeViews[h] /\ holeViews'[h] = 0 /\ statement[h] = 0
    BY <1>1, ZeroCount
  <2>3. seen[h] = view[h] + nowhere[h] + failed[h] + dropped[h]
                    + statement[h] + holeViews[h] + InChannel(h)
    BY DEF IInv, ViewsAccounted
  <2>4. UNCHANGED <<view, nowhere, failed, dropped, seen>>
    BY DEF lost
  <2> QED
    BY <2>1, <2>2, <2>3, <2>4, CountTypes DEF IInv
<1>4. StopFlushes'
  <2>1. task' = busy \/ (task' = idle /\ statement' = Zero)
    BY <1>1 DEF Build
  <2>2. server # "down"
    BY DEF IInv, StopFlushes
  <2> QED
    BY <1>1, <2>1, <2>2 DEF StopFlushes
<1> QED
  BY <1>2, <1>3, <1>4 DEF IInv

LEMMA FlushStep == ASSUME IInv, Flush PROVE IInv'
BY BuildStep DEF Flush

LEMMA DoneStep == ASSUME IInv, Done PROVE IInv'
<1>1. ticked' \in BOOLEAN
  BY DEF IInv, TypeOK, Done
<1> QED
  BY <1>1, BuildStep DEF Done

\* What a statement adds to the tables.
LEMMA ExecuteAdds ==
    ASSUME TypeOK, Execute
    PROVE  /\ view' \in Counts /\ nowhere' \in Counts
           /\ \A h \in Holes :
                view'[h] + nowhere'[h] = view[h] + nowhere[h] + statement[h]
<1>1. view \in Counts /\ nowhere \in Counts /\ statement \in Counts
  BY DEF TypeOK
<1>2. Only(Rows, statement) \in Counts /\ Only(Holes \ Rows, statement) \in Counts
  BY <1>1, OnlyCount
<1>3. view' \in Counts /\ nowhere' \in Counts
  BY <1>1, <1>2, PlusCount DEF Execute
<1>4. ASSUME NEW h \in Holes
      PROVE  view'[h] + nowhere'[h] = view[h] + nowhere[h] + statement[h]
  <2>1. /\ view'[h] = view[h] + Only(Rows, statement)[h]
        /\ nowhere'[h] = nowhere[h] + Only(Holes \ Rows, statement)[h]
    BY <1>1, <1>2, PlusCount DEF Execute
  <2>2. /\ Only(Rows, statement)[h] = IF h \in Rows THEN statement[h] ELSE 0
        /\ Only(Holes \ Rows, statement)[h] = IF h \in Rows THEN 0 ELSE statement[h]
    BY <1>1, OnlyCount
  <2> QED
    BY <2>1, <2>2, CountTypes
<1> QED
  BY <1>3, <1>4

LEMMA StoreStep ==
    ASSUME IInv, Store
    PROVE  IInv'
<1>1. TypeOK'
  BY ExecuteAdds, ZeroCount DEF IInv, TypeOK, Store, Resumed, lost
<1>2. ViewsAccounted'
  <2> SUFFICES ASSUME NEW h \in Holes
               PROVE  seen'[h] = view'[h] + nowhere'[h] + failed'[h] + dropped'[h]
                                   + statement'[h] + holeViews'[h] + InChannel(h)'
    BY DEF ViewsAccounted
  <2>1. view'[h] + nowhere'[h] = view[h] + nowhere[h] + statement[h]
    BY ExecuteAdds DEF IInv, Store
  <2>2. statement'[h] = 0 /\ InChannel(h)' = InChannel(h)
    BY ZeroCount DEF Store, InChannel
  <2>3. seen[h] = view[h] + nowhere[h] + failed[h] + dropped[h]
                    + statement[h] + holeViews[h] + InChannel(h)
    BY DEF IInv, ViewsAccounted
  <2>4. UNCHANGED <<failed, dropped, seen, holeViews>>
    BY DEF Store
  <2>5. view'[h] \in Nat /\ nowhere'[h] \in Nat
    BY <1>1 DEF TypeOK, Counts
  <2> QED
    BY <2>1, <2>2, <2>3, <2>4, <2>5, CountTypes DEF IInv
<1>3. StopFlushes'
  BY DEF IInv, StopFlushes, Store, Resumed
<1> QED
  BY <1>1, <1>2, <1>3 DEF IInv

LEMMA FailStoreStep ==
    ASSUME IInv, FailStore
    PROVE  IInv'
<1>1. failed' \in Counts /\ \A h \in Holes : failed'[h] = failed[h] + statement[h]
  BY PlusCount DEF IInv, TypeOK, FailStore
<1>2. TypeOK'
  BY <1>1, ZeroCount DEF IInv, TypeOK, FailStore, Resumed, lost
<1>3. ViewsAccounted'
  <2> SUFFICES ASSUME NEW h \in Holes
               PROVE  seen'[h] = view'[h] + nowhere'[h] + failed'[h] + dropped'[h]
                                   + statement'[h] + holeViews'[h] + InChannel(h)'
    BY DEF ViewsAccounted
  <2>1. statement'[h] = 0 /\ InChannel(h)' = InChannel(h)
    BY ZeroCount DEF FailStore, InChannel
  <2>2. seen[h] = view[h] + nowhere[h] + failed[h] + dropped[h]
                    + statement[h] + holeViews[h] + InChannel(h)
    BY DEF IInv, ViewsAccounted
  <2>3. UNCHANGED <<view, nowhere, dropped, seen, holeViews>>
    BY DEF FailStore
  <2> QED
    BY <1>1, <2>1, <2>2, <2>3, CountTypes DEF IInv
<1>4. StopFlushes'
  BY DEF IInv, StopFlushes, FailStore, Resumed
<1> QED
  BY <1>2, <1>3, <1>4 DEF IInv

\* Steps of main that change nothing but where it is.
LEMMA ServerStep ==
    ASSUME IInv, server' \in {"closing", "cancelled"}, server \in {"up", "closing"},
           UNCHANGED <<view, channel, holeViews, task, statement, ticked, patch,
                       seen, lost>>
    PROVE  IInv'
<1>1. TypeOK'
  BY DEF IInv, TypeOK, lost
<1>2. ViewsAccounted'
  BY NoViewMoves DEF IInv
<1>3. StopFlushes'
  BY DEF IInv, StopFlushes
<1> QED
  BY <1>1, <1>2, <1>3 DEF IInv

LEMMA EndStep ==
    ASSUME IInv, NEW executed \in BOOLEAN, End(executed)
    PROVE  IInv'
<1> DEFINE Memory(h) == dropped[h] + holeViews[h] + InChannel(h)
<1>1. /\ channel' = << >> /\ holeViews' = Zero /\ statement' = Zero
      /\ UNCHANGED <<seen, failed>>
  BY DEF End
<1>2. \/ /\ Execute
         /\ dropped' = [h \in Holes |-> Memory(h)]
      \/ /\ UNCHANGED <<view, nowhere>>
         /\ dropped' = [h \in Holes |-> Memory(h) + statement[h]]
  BY DEF End
<1>3. ASSUME NEW h \in Holes
      PROVE  /\ view'[h] \in Nat /\ nowhere'[h] \in Nat /\ dropped'[h] \in Nat
             /\ view'[h] + nowhere'[h] + dropped'[h] =
                  view[h] + nowhere[h] + statement[h] + Memory(h)
  <2>1. CASE Execute /\ dropped' = [k \in Holes |-> Memory(k)]
    <3>1. dropped'[h] = Memory(h)
      BY <2>1
    <3>2. view'[h] \in Nat /\ nowhere'[h] \in Nat
      BY <2>1, ExecuteAdds DEF IInv, Counts
    <3>3. view'[h] + nowhere'[h] = view[h] + nowhere[h] + statement[h]
      BY <2>1, ExecuteAdds DEF IInv
    <3> QED
      BY <3>1, <3>2, <3>3, CountTypes DEF IInv
  <2>2. CASE /\ UNCHANGED <<view, nowhere>>
             /\ dropped' = [k \in Holes |-> Memory(k) + statement[k]]
    <3>1. dropped'[h] = Memory(h) + statement[h]
      BY <2>2
    <3> QED
      BY <2>2, <3>1, CountTypes DEF IInv
  <2> QED
    BY <1>2, <2>1, <2>2
<1>4. {view', nowhere', dropped'} \subseteq Counts
  <2>1. CASE Execute /\ dropped' = [k \in Holes |-> Memory(k)]
    BY <1>3, <2>1, ExecuteAdds DEF IInv, Counts
  <2>2. CASE /\ UNCHANGED <<view, nowhere>>
             /\ dropped' = [k \in Holes |-> Memory(k) + statement[k]]
    BY <1>3, <2>2 DEF IInv, TypeOK, Counts
  <2> QED
    BY <1>2, <2>1, <2>2
<1>5. TypeOK'
  <2>1. /\ patch' \in [Requests -> Handler]
        /\ \A r \in Requests : patch'[r].step # "sending"
    BY DEF IInv, TypeOK, End, Handler
  <2>2. {seen', failed', holeViews', statement'} \subseteq Counts
    BY <1>1, ZeroCount DEF IInv, TypeOK
  <2>3. channel' \in Seq(Holes) /\ Len(channel') <= MaxChan
    BY <1>1, EmptyChannel, ChanAssumption
  <2>4. ticked' \in BOOLEAN /\ task' = "stopped" /\ server' = "down"
    BY DEF End
  <2> QED
    BY <1>4, <2>1, <2>2, <2>3, <2>4 DEF TypeOK
<1>6. ViewsAccounted'
  <2> SUFFICES ASSUME NEW h \in Holes
               PROVE  seen'[h] = view'[h] + nowhere'[h] + failed'[h] + dropped'[h]
                                   + statement'[h] + holeViews'[h] + InChannel(h)'
    BY DEF ViewsAccounted
  <2>1. statement'[h] = 0 /\ holeViews'[h] = 0 /\ InChannel(h)' = 0
    BY <1>1, ZeroCount, EmptyChannel, InChannelIs
  <2>2. seen[h] = view[h] + nowhere[h] + failed[h] + dropped[h]
                    + statement[h] + holeViews[h] + InChannel(h)
    BY DEF IInv, ViewsAccounted
  <2>3. view'[h] + nowhere'[h] + dropped'[h] =
          view[h] + nowhere[h] + statement[h] + dropped[h] + holeViews[h] + InChannel(h)
    BY <1>3, CountTypes DEF IInv
  <2>4. seen'[h] = view'[h] + nowhere'[h] + dropped'[h] + failed'[h]
    <3>1. seen'[h] = seen[h] /\ failed'[h] = failed[h]
      BY <1>1
    <3>2. /\ view'[h] \in Nat /\ nowhere'[h] \in Nat /\ dropped'[h] \in Nat
          /\ view[h] \in Nat /\ nowhere[h] \in Nat /\ dropped[h] \in Nat
          /\ failed[h] \in Nat /\ statement[h] \in Nat /\ holeViews[h] \in Nat
          /\ InChannel(h) \in Nat
      BY <1>3, CountTypes DEF IInv
    <3> QED
      BY <2>2, <2>3, <3>1, <3>2
  <2>5. failed'[h] \in Nat /\ view'[h] \in Nat /\ nowhere'[h] \in Nat /\ dropped'[h] \in Nat
    BY <1>1, <1>3, CountTypes DEF IInv
  <2> QED
    BY <2>1, <2>4, <2>5
<1>7. StopFlushes'
  BY DEF End, StopFlushes
<1> QED
  BY <1>5, <1>6, <1>7 DEF IInv

LEMMA StartStep ==
    ASSUME IInv, Start
    PROVE  IInv'
<1>1. TypeOK'
  BY DEF IInv, TypeOK, Start, lost
<1>2. ViewsAccounted'
  BY NoViewMoves DEF IInv, Start
<1>3. StopFlushes'
  BY DEF IInv, StopFlushes, Start
<1> QED
  BY <1>1, <1>2, <1>3 DEF IInv

LEMMA Stutter ==
    ASSUME IInv, UNCHANGED vars
    PROVE  IInv'
<1>1. TypeOK'
  BY DEF IInv, TypeOK, vars, lost
<1>2. ViewsAccounted'
  BY NoViewMoves DEF IInv, vars
<1>3. StopFlushes'
  BY DEF IInv, StopFlushes, vars
<1> QED
  BY <1>1, <1>2, <1>3 DEF IInv

\* The invariant holds in every state, whatever fails and whenever the process
\* ends.
THEOREM Invariance == Spec => []IInv
<1>1. Init => IInv
  BY InitInv
<1>2. IInv /\ [Next]_vars => IInv'
  <2> SUFFICES ASSUME IInv, [Next]_vars PROVE IInv'
    OBVIOUS
  <2>1. ASSUME NEW r \in Requests, NEW h \in Holes, PatchHole(r, h) PROVE IInv'
    BY <2>1, PatchStep
  <2>2. ASSUME NEW r \in Requests, Send(r) PROVE IInv'
    BY <2>2, SendStep
  <2>3. CASE Tick \/ Take \/ Flush \/ Done \/ Store \/ FailStore
    BY <2>3, TickStep, TakeStep, FlushStep, DoneStep, StoreStep, FailStoreStep
  <2>4. CASE Shutdown \/ Cancel \/ FailShutdown
    BY <2>4, ServerStep DEF Shutdown, Cancel, FailShutdown
  <2>5. ASSUME NEW executed \in BOOLEAN, Exit(executed) \/ Crash(executed) PROVE IInv'
    BY <2>5, EndStep DEF Exit, Crash
  <2>6. CASE Start
    BY <2>6, StartStep
  <2>7. CASE UNCHANGED vars
    BY <2>7, Stutter
  <2> QED
    BY <2>1, <2>2, <2>3, <2>4, <2>5, <2>6, <2>7 DEF Next
<1> QED
  BY <1>1, <1>2, PTL DEF Spec

\* Types; the channel never holds more than it has room for.
THEOREM TypeCorrect == Spec => []TypeOK
<1>1. IInv => TypeOK
  BY DEF IInv
<1> QED
  BY <1>1, Invariance, PTL

\* Each accepted view is in one place, so it is stored at most once, and it is
\* lost by a missing hole, a failed statement or the end of the process only.
THEOREM EveryViewAccounted == Spec => []ViewsAccounted
<1>1. IInv => ViewsAccounted
  BY DEF IInv
<1> QED
  BY <1>1, Invariance, PTL

\* A task that has stopped has flushed its map.
THEOREM StoppedTaskFlushed == Spec => []StopFlushes
<1>1. IInv => StopFlushes
  BY DEF IInv
<1> QED
  BY <1>1, Invariance, PTL

-----------------------------------------------------------------------------
(* The refinement of the counter *)

\* What the counter takes from the memory of the process, and from the three ways
\* in which views are lost.
Waiting == [h \in Holes |-> holeViews[h] + InChannel(h)]

Gone == [h \in Holes |-> nowhere[h] + failed[h] + dropped[h]]

LEMMA CounterIs ==
    /\ VC!Zero = Zero
    /\ \A h \in Holes : Waiting[h] = holeViews[h] + InChannel(h)
    /\ \A h \in Holes : Waiting'[h] = holeViews'[h] + InChannel(h)'
    /\ \A h \in Holes : Gone[h] = nowhere[h] + failed[h] + dropped[h]
    /\ \A h \in Holes : Gone'[h] = nowhere'[h] + failed'[h] + dropped'[h]
BY DEF VC!Zero, Zero, Waiting, Gone

LEMMA CounterKept ==
    ASSUME UNCHANGED <<view, channel, holeViews, statement, lost>>
    PROVE  UNCHANGED VC!vars
<1>1. \A h : InChannel(h)' = InChannel(h)
  BY DEF InChannel
<1>2. Waiting' = Waiting
  BY <1>1 DEF Waiting
<1>3. Gone' = Gone
  BY DEF Gone, lost
<1> QED
  BY <1>2, <1>3 DEF VC!vars, Waiting, Gone

\* A view that is sent is accepted.
LEMMA SendAccepts ==
    ASSUME IInv, NEW r \in Requests, Send(r)
    PROVE  \E h \in Holes : VC!Accept(h)
<1> PICK k : k = patch[r].hole
  OBVIOUS
<1>1. k \in Holes /\ channel' = Append(channel, k) /\ channel \in Seq(Holes)
  BY DEF IInv, TypeOK, Send
<1>2. UNCHANGED <<view, holeViews, statement, nowhere, failed, dropped>>
  BY DEF Send, lost
<1>3. ASSUME NEW h \in Holes
      PROVE  Waiting'[h] = IF h = k THEN Waiting[h] + 1 ELSE Waiting[h]
  <2>1. InChannel(h)' = InChannel(h) + (IF k = h THEN 1 ELSE 0)
    BY <1>1, InChannelIs, OccurrencesAppend
  <2>2. holeViews'[h] = holeViews[h]
    BY <1>2
  <2> QED
    BY <2>1, <2>2, CounterIs, CountTypes DEF IInv
<1>4. Waiting' = [Waiting EXCEPT ![k] = @ + 1]
  <2>1. Waiting' = [h \in Holes |-> Waiting'[h]]
    BY DEF Waiting
  <2>2. [Waiting EXCEPT ![k] = @ + 1] =
          [h \in Holes |-> IF h = k THEN Waiting[h] + 1 ELSE Waiting[h]]
    BY <1>1 DEF Waiting
  <2> QED
    BY <1>3, <2>1, <2>2
<1>5. Gone' = Gone
  BY <1>2 DEF Gone
<1>6. VC!Accept(k)
  BY <1>2, <1>4, <1>5 DEF VC!Accept, Waiting, Gone
<1> QED
  BY <1>1, <1>6

\* A view that is taken from the channel still waits.
LEMMA TakeWaits ==
    ASSUME IInv, Take
    PROVE  UNCHANGED VC!vars
<1> PICK k : k = Head(channel)
  OBVIOUS
<1>1. /\ channel \in Seq(Holes) /\ channel # << >> /\ k \in Holes
      /\ channel' = Tail(channel)
      /\ holeViews' = [holeViews EXCEPT ![k] = @ + 1]
      /\ holeViews \in Counts
  BY DEF IInv, TypeOK, Take
<1>2. UNCHANGED <<view, statement, nowhere, failed, dropped>>
  BY DEF Take, lost
<1>3. ASSUME NEW h \in Holes PROVE Waiting'[h] = Waiting[h]
  <2>1. InChannel(h) = InChannel(h)' + (IF k = h THEN 1 ELSE 0)
    BY <1>1, InChannelIs, OccurrencesTail
  <2>2. holeViews'[h] = holeViews[h] + (IF k = h THEN 1 ELSE 0)
    BY <1>1, CountTypes DEF IInv, Counts
  <2>3. InChannel(h)' \in Nat
    <3>1. Tail(channel) \in Seq(Holes)
      BY <1>1
    <3> QED
      BY <1>1, <3>1, InChannelIs, OccurrencesFinite
  <2> QED
    BY <2>1, <2>2, <2>3, CounterIs, CountTypes DEF IInv
<1>4. Waiting' = Waiting
  BY <1>3 DEF Waiting
<1>5. Gone' = Gone
  BY <1>2 DEF Gone
<1> QED
  BY <1>2, <1>4, <1>5 DEF VC!vars, Waiting, Gone

\* The map becomes the batch: the last one is settled when the task selects.
LEMMA BuildCollects ==
    ASSUME IInv, NEW busy, NEW idle, task = "select", Build(busy, idle),
           UNCHANGED <<view, channel, lost>>
    PROVE  VC!Collect
<1>1. statement' = holeViews /\ holeViews' = Zero /\ statement = Zero
  BY DEF IInv, StopFlushes, Build
<1>2. holeViews \in [Holes -> Nat]
  BY DEF IInv, TypeOK, Counts
<1>3. \A h : InChannel(h)' = InChannel(h)
  BY DEF InChannel
<1>4. ASSUME NEW h \in Holes
      PROVE  holeViews[h] <= Waiting[h] /\ Waiting'[h] = Waiting[h] - holeViews[h]
  <2>1. holeViews'[h] = 0
    BY <1>1, ZeroCount
  <2> QED
    BY <1>3, <2>1, CounterIs, CountTypes DEF IInv
<1>5. Waiting' = [h \in Holes |-> Waiting[h] - holeViews[h]]
  <2>1. Waiting' = [h \in Holes |-> Waiting'[h]]
    BY DEF Waiting
  <2> QED
    BY <1>4, <2>1
<1>6. Gone' = Gone
  BY DEF Gone, lost
<1>7. /\ statement = VC!Zero
      /\ statement' \in [Holes -> Nat]
      /\ \A h \in Holes : statement'[h] <= Waiting[h]
      /\ Waiting' = [h \in Holes |-> Waiting[h] - statement'[h]]
  BY <1>1, <1>2, <1>4, <1>5, CounterIs
<1> QED
  BY <1>6, <1>7 DEF VC!Collect, Waiting, Gone

\* A statement that is executed adds to the holes that are there.
LEMMA ExecuteIs ==
    ASSUME TypeOK, Execute, NEW h \in Holes
    PROVE  /\ view'[h] = view[h] + (IF h \in Rows THEN statement[h] ELSE 0)
           /\ nowhere'[h] = nowhere[h] + (IF h \in Rows THEN 0 ELSE statement[h])
<1>1. view \in Counts /\ nowhere \in Counts /\ statement \in Counts
  BY DEF TypeOK
<1>2. Only(Rows, statement) \in Counts /\ Only(Holes \ Rows, statement) \in Counts
  BY <1>1, OnlyCount
<1>3. /\ view'[h] = view[h] + Only(Rows, statement)[h]
      /\ nowhere'[h] = nowhere[h] + Only(Holes \ Rows, statement)[h]
  BY <1>1, <1>2, PlusCount DEF Execute
<1> QED
  BY <1>1, <1>3, OnlyCount

\* The batch is settled: stored or not, hole by hole.
LEMMA Settles ==
    ASSUME IInv, NEW stored \in BOOLEAN, NEW others,
           view' \in Counts, statement' = Zero,
           \A h \in Holes :
              /\ view'[h] = view[h]
                    + (IF h \in (IF stored THEN Rows ELSE {}) THEN statement[h] ELSE 0)
              /\ Gone'[h] = Gone[h] + others[h]
                    + (IF h \in (IF stored THEN Rows ELSE {}) THEN 0 ELSE statement[h])
              /\ Waiting'[h] = Waiting[h] - others[h]
    PROVE  VC!Settle(stored, others)
<1>1. view' = [h \in Holes |-> view'[h]]
  BY DEF Counts
<1>2. Waiting' = [h \in Holes |-> Waiting'[h]] /\ Gone' = [h \in Holes |-> Gone'[h]]
  BY DEF Waiting, Gone
<1> DEFINE kept == IF stored THEN Rows ELSE {}
<1>3. view' = [h \in Holes |-> view[h] + (IF h \in kept THEN statement[h] ELSE 0)]
  BY <1>1
<1>4. Gone' = [h \in Holes |-> Gone[h] + others[h]
                                  + (IF h \in kept THEN 0 ELSE statement[h])]
  BY <1>2
<1>5. Waiting' = [h \in Holes |-> Waiting[h] - others[h]]
  BY <1>2
<1> QED
  BY <1>3, <1>4, <1>5, CounterIs DEF VC!Settle, Waiting, Gone

\* So with all that waits lost beside it.
LEMMA SettlesAll ==
    ASSUME IInv, NEW stored \in BOOLEAN,
           view' \in Counts, statement' = Zero,
           \A h \in Holes :
              /\ view'[h] = view[h]
                    + (IF h \in (IF stored THEN Rows ELSE {}) THEN statement[h] ELSE 0)
              /\ Gone'[h] = Gone[h] + Waiting[h]
                    + (IF h \in (IF stored THEN Rows ELSE {}) THEN 0 ELSE statement[h])
              /\ Waiting'[h] = Waiting[h] - Waiting[h]
    PROVE  VC!Settle(stored, Waiting)
<1>1. view' = [h \in Holes |-> view'[h]]
  BY DEF Counts
<1>2. Waiting' = [h \in Holes |-> Waiting'[h]] /\ Gone' = [h \in Holes |-> Gone'[h]]
  BY DEF Waiting, Gone
<1> DEFINE kept == IF stored THEN Rows ELSE {}
<1>3. view' = [h \in Holes |-> view[h] + (IF h \in kept THEN statement[h] ELSE 0)]
  BY <1>1
<1>4. Gone' = [h \in Holes |-> Gone[h] + Waiting[h]
                                  + (IF h \in kept THEN 0 ELSE statement[h])]
  BY <1>2
<1>5. Waiting' = [h \in Holes |-> Waiting[h] - Waiting[h]]
  BY <1>2
<1> QED
  BY <1>3, <1>4, <1>5, CounterIs DEF VC!Settle, Waiting, Gone

LEMMA StoreSettles ==
    ASSUME IInv, Store
    PROVE  VC!Settle(TRUE, VC!Zero)
<1>1. view' \in Counts
  BY ExecuteAdds DEF IInv, Store
<1>2. statement' = Zero /\ UNCHANGED <<channel, holeViews, failed, dropped>>
  BY DEF Store
<1>3. ASSUME NEW h \in Holes
      PROVE  /\ view'[h] = view[h]
                   + (IF h \in (IF TRUE THEN Rows ELSE {}) THEN statement[h] ELSE 0)
             /\ Gone'[h] = Gone[h] + Zero[h]
                   + (IF h \in (IF TRUE THEN Rows ELSE {}) THEN 0 ELSE statement[h])
             /\ Waiting'[h] = Waiting[h] - Zero[h]
  <2>1. /\ view'[h] = view[h] + (IF h \in Rows THEN statement[h] ELSE 0)
        /\ nowhere'[h] = nowhere[h] + (IF h \in Rows THEN 0 ELSE statement[h])
    BY ExecuteIs DEF IInv, Store
  <2>2. failed'[h] = failed[h] /\ dropped'[h] = dropped[h]
    BY <1>2
  <2>3. Gone'[h] = Gone[h] + (IF h \in Rows THEN 0 ELSE statement[h])
    BY <2>1, <2>2, CounterIs, CountTypes DEF IInv
  <2>4. Waiting'[h] = Waiting[h]
    <3>1. InChannel(h)' = InChannel(h) /\ holeViews'[h] = holeViews[h]
      BY <1>2 DEF InChannel
    <3> QED
      BY <3>1, CounterIs
  <2>5. Gone[h] \in Nat /\ Waiting[h] \in Nat
    BY CounterIs, CountTypes DEF IInv
  <2> QED
    BY <2>1, <2>3, <2>4, <2>5, ZeroCount, CountTypes DEF IInv
<1>4. VC!Settle(TRUE, Zero)
  BY <1>1, <1>2, <1>3, Settles
<1> QED
  BY <1>4, CounterIs

LEMMA FailStoreSettles ==
    ASSUME IInv, FailStore
    PROVE  VC!Settle(FALSE, VC!Zero)
<1>1. /\ view' \in Counts /\ statement' = Zero
      /\ UNCHANGED <<view, channel, holeViews, nowhere, dropped>>
  BY DEF IInv, TypeOK, FailStore
<1>2. ASSUME NEW h \in Holes
      PROVE  /\ view'[h] = view[h]
                   + (IF h \in (IF FALSE THEN Rows ELSE {}) THEN statement[h] ELSE 0)
             /\ Gone'[h] = Gone[h] + Zero[h]
                   + (IF h \in (IF FALSE THEN Rows ELSE {}) THEN 0 ELSE statement[h])
             /\ Waiting'[h] = Waiting[h] - Zero[h]
  <2>1. failed'[h] = failed[h] + statement[h]
    BY PlusCount DEF IInv, TypeOK, FailStore
  <2>2. nowhere'[h] = nowhere[h] /\ dropped'[h] = dropped[h] /\ view'[h] = view[h]
    BY <1>1
  <2>3. Gone'[h] = Gone[h] + statement[h]
    BY <2>1, <2>2, CounterIs, CountTypes DEF IInv
  <2>4. Waiting'[h] = Waiting[h]
    <3>1. InChannel(h)' = InChannel(h) /\ holeViews'[h] = holeViews[h]
      BY <1>1 DEF InChannel
    <3> QED
      BY <3>1, CounterIs
  <2>5. Gone[h] \in Nat /\ Waiting[h] \in Nat
    BY CounterIs, CountTypes DEF IInv
  <2> QED
    BY <2>2, <2>3, <2>4, <2>5, ZeroCount, CountTypes DEF IInv
<1>3. VC!Settle(FALSE, Zero)
  BY <1>1, <1>2, Settles
<1> QED
  BY <1>3, CounterIs

\* The end of the process settles the batch, and loses all that waits.
LEMMA EndSettles ==
    ASSUME IInv, NEW executed \in BOOLEAN, End(executed)
    PROVE  VC!Settle(TRUE, Waiting) \/ VC!Settle(FALSE, Waiting)
<1>1. /\ channel' = << >> /\ holeViews' = Zero /\ statement' = Zero
      /\ UNCHANGED failed
  BY DEF End
<1>2. ASSUME NEW h \in Holes PROVE Waiting'[h] = Waiting[h] - Waiting[h]
  <2>1. holeViews'[h] = 0 /\ InChannel(h)' = 0
    BY <1>1, ZeroCount, EmptyChannel, InChannelIs
  <2>2. Waiting[h] \in Nat
    BY CounterIs, CountTypes DEF IInv
  <2> QED
    BY <2>1, <2>2, CounterIs
<1>3. CASE /\ Execute
           /\ dropped' = [h \in Holes |-> dropped[h] + holeViews[h] + InChannel(h)]
  <2>1. view' \in Counts
    BY <1>3, ExecuteAdds DEF IInv
  <2>2. ASSUME NEW h \in Holes
        PROVE  /\ view'[h] = view[h]
                     + (IF h \in (IF TRUE THEN Rows ELSE {}) THEN statement[h] ELSE 0)
               /\ Gone'[h] = Gone[h] + Waiting[h]
                     + (IF h \in (IF TRUE THEN Rows ELSE {}) THEN 0 ELSE statement[h])
               /\ Waiting'[h] = Waiting[h] - Waiting[h]
    <3>1. /\ view'[h] = view[h] + (IF h \in Rows THEN statement[h] ELSE 0)
          /\ nowhere'[h] = nowhere[h] + (IF h \in Rows THEN 0 ELSE statement[h])
      BY <1>3, ExecuteIs DEF IInv
    <3>2. dropped'[h] = dropped[h] + holeViews[h] + InChannel(h) /\ failed'[h] = failed[h]
      BY <1>1, <1>3
    <3>3. Gone'[h] = Gone[h] + Waiting[h] + (IF h \in Rows THEN 0 ELSE statement[h])
      BY <3>1, <3>2, CounterIs, CountTypes DEF IInv
    <3> QED
      BY <1>2, <3>1, <3>3
  <2> QED
    BY <1>1, <2>1, <2>2, SettlesAll
<1>4. CASE /\ UNCHANGED <<view, nowhere>>
           /\ dropped' = [h \in Holes |-> dropped[h] + holeViews[h] + InChannel(h)
                                             + statement[h]]
  <2>1. view' \in Counts
    BY <1>4 DEF IInv, TypeOK
  <2>2. ASSUME NEW h \in Holes
        PROVE  /\ view'[h] = view[h]
                     + (IF h \in (IF FALSE THEN Rows ELSE {}) THEN statement[h] ELSE 0)
               /\ Gone'[h] = Gone[h] + Waiting[h]
                     + (IF h \in (IF FALSE THEN Rows ELSE {}) THEN 0 ELSE statement[h])
               /\ Waiting'[h] = Waiting[h] - Waiting[h]
    <3>1. /\ dropped'[h] = dropped[h] + holeViews[h] + InChannel(h) + statement[h]
          /\ failed'[h] = failed[h] /\ nowhere'[h] = nowhere[h] /\ view'[h] = view[h]
      BY <1>1, <1>4
    <3>2. Gone'[h] = Gone[h] + Waiting[h] + statement[h]
      BY <3>1, CounterIs, CountTypes DEF IInv
    <3> QED
      BY <1>2, <3>1, <3>2, CountTypes DEF IInv
  <2> QED
    BY <1>1, <2>1, <2>2, SettlesAll
<1> QED
  BY <1>3, <1>4 DEF End

LEMMA CounterStep == IInv /\ [Next]_vars => [VC!Next]_(VC!vars)
<1> SUFFICES ASSUME IInv, [Next]_vars PROVE VC!Next \/ UNCHANGED VC!vars
  OBVIOUS
<1>1. ASSUME NEW r \in Requests, Send(r) PROVE VC!Next
  BY <1>1, SendAccepts DEF VC!Next
<1>2. CASE Take
  BY <1>2, TakeWaits
<1>3. CASE Flush \/ Done
  <2>1. VC!Collect
    BY <1>3, BuildCollects DEF Flush, Done
  <2> QED
    BY <2>1 DEF VC!Next
<1>4. CASE Store \/ FailStore
  <2>1. VC!Settle(TRUE, VC!Zero) \/ VC!Settle(FALSE, VC!Zero)
    BY <1>4, StoreSettles, FailStoreSettles
  <2> QED
    BY <2>1 DEF VC!Next
<1>5. ASSUME NEW executed \in BOOLEAN, Exit(executed) \/ Crash(executed) PROVE VC!Next
  <2>1. VC!Settle(TRUE, Waiting) \/ VC!Settle(FALSE, Waiting)
    BY <1>5, EndSettles DEF Exit, Crash
  <2> QED
    BY <2>1 DEF VC!Next, Waiting
<1>6. ASSUME \/ \E r \in Requests, h \in Holes : PatchHole(r, h)
             \/ Tick \/ Shutdown \/ Cancel \/ FailShutdown \/ Start
             \/ UNCHANGED vars
      PROVE  UNCHANGED VC!vars
  BY <1>6, CounterKept DEF PatchHole, Tick, Shutdown, Cancel, FailShutdown, Start, vars
<1> QED
  BY <1>1, <1>2, <1>3, <1>4, <1>5, <1>6 DEF Next

LEMMA CounterInit == Init => VC!Init
<1> SUFFICES ASSUME Init PROVE VC!Init
  OBVIOUS
<1>1. ASSUME NEW h \in Holes PROVE Waiting[h] = 0 /\ Gone[h] = 0
  BY CounterIs, ZeroCount, EmptyChannel, InChannelIs DEF Init
<1>2. Waiting = Zero /\ Gone = Zero
  BY <1>1 DEF Waiting, Gone, Zero
<1> QED
  BY <1>2, CounterIs DEF Init, VC!Init, Waiting, Gone

\* Handlers, a channel, a task and its statements, with every failure and restart,
\* count as ViewCounter does: in whole batches, each view once at most.
THEOREM CounterRefinement == Spec => ImplementsCounter
BY CounterInit, CounterStep, Invariance, PTL DEF Spec, VC!Spec, ImplementsCounter

-----------------------------------------------------------------------------
(* The index: the invariant by tasks *)

\* A function on some keys, and the keys it is on.
LEMMA PartlyIs ==
    ASSUME NEW K, NEW V, NEW g \in Partly(K, V)
    PROVE  DOMAIN g \subseteq K /\ g \in [DOMAIN g -> V]
BY DEF Partly

LEMMA IsPartly ==
    ASSUME NEW K, NEW V, NEW S \in SUBSET K, NEW g \in [S -> V]
    PROVE  g \in Partly(K, V)
BY DEF Partly

\* The state of a hole and the row of a floor when the transaction of t is over.
HoleThen(t, h, hs) == IF h \in DOMAIN t.change.hole THEN t.change.hole[h] ELSE hs[h]

RowThen(t, f, fs) == IF f \in DOMAIN t.change.floor THEN t.change.floor[f] ELSE fs[f]

FoundThen(t, f, hs, fs) == Findable(HoleThen(t, HoleOf[f], hs), RowThen(t, f, fs))

\* What the invariant says of one task, and of any two.
Alone(t) ==
    /\ ~ t.found => /\ t.waiting /\ ~ t.open
                    /\ \A f \in DOMAIN t.docs : t.docs[f] = NoDoc
    /\ t.waiting \/ t.open
    /\ ~ t.open => DOMAIN t.change.hole = {} /\ DOMAIN t.change.floor = {}

Locks(t, hs, fs, d) ==
    /\ \A h \in DOMAIN t.change.hole :
          /\ hs[h] # "absent" /\ t.change.hole[h] # "absent"
          /\ t.change.hole[h] = hs[h] \/ In(h, fs) \subseteq DOMAIN t.docs \/ d
    /\ \A f \in DOMAIN t.change.floor :
          /\ f \in DOMAIN t.docs
          /\ fs[f].state # "absent" /\ t.change.floor[f].state # "absent"

Writes(t, hs, fs, ix) ==
    \A f \in DOMAIN t.docs :
        /\ t.docs[f] = FoundThen(t, f, hs, fs)
        /\ ~ t.waiting => ix[f] = t.docs[f]

Drops(t, fs) == \A f \in DOMAIN t.docs : fs[f].state = "absent" => t.docs[f] = NoDoc

Unlocked(s, t) ==
    /\ DOMAIN s.change.hole \cap DOMAIN t.change.hole = {}
    /\ DOMAIN s.change.floor \cap DOMAIN t.change.floor = {}

Apart(s, t) == DOMAIN s.docs \cap DOMAIN t.docs = {}

RowsAgree(hs, fs, ix, vs) ==
    \A f \in Floors :
        /\ hs[HoleOf[f]] = "absent" => fs[f].state = "absent"
        /\ fs[f].state = "absent" => ix[f] = NoDoc /\ vs[f] = {}

Exact(T, hs, fs, ix) ==
    \A f \in Floors :
        (\A t \in T : f \notin DOMAIN t.docs) => ix[f] = Findable(hs[HoleOf[f]], fs[f])

Sound(T, hs, fs, ix, vs, d) ==
    /\ RowsAgree(hs, fs, ix, vs)
    /\ \A t \in T : Alone(t) /\ Locks(t, hs, fs, d) /\ Drops(t, fs)
    /\ \A s, t \in T : s # t => Unlocked(s, t)
    /\ ~ d => /\ \A s, t \in T : s # t => Apart(s, t)
              /\ \A t \in T : Writes(t, hs, fs, ix)
              /\ Exact(T, hs, fs, ix)

LEMMA TaskIs ==
    ASSUME NEW t \in Task
    PROVE  /\ DOMAIN t.docs \subseteq Floors /\ t.docs \in [DOMAIN t.docs -> Docs]
           /\ DOMAIN t.change.hole \subseteq HoleIds
           /\ t.change.hole \in [DOMAIN t.change.hole -> States]
           /\ DOMAIN t.change.floor \subseteq Floors
           /\ t.change.floor \in [DOMAIN t.change.floor -> Row]
           /\ t.found \in BOOLEAN /\ t.waiting \in BOOLEAN /\ t.open \in BOOLEAN
           /\ t.id \in Nat
<1>1. /\ t.docs \in Partly(Floors, Docs)
      /\ t.change.hole \in Partly(HoleIds, States)
      /\ t.change.floor \in Partly(Floors, Row)
      /\ t.found \in BOOLEAN /\ t.waiting \in BOOLEAN /\ t.open \in BOOLEAN
      /\ t.id \in Nat
  BY DEF Task
<1>2. DOMAIN t.docs \subseteq Floors /\ t.docs \in [DOMAIN t.docs -> Docs]
  BY <1>1, PartlyIs
<1>3. DOMAIN t.change.hole \subseteq HoleIds /\ t.change.hole \in [DOMAIN t.change.hole -> States]
  BY <1>1, PartlyIs
<1>4. /\ DOMAIN t.change.floor \subseteq Floors
      /\ t.change.floor \in [DOMAIN t.change.floor -> Row]
  BY <1>1, PartlyIs
<1> QED
  BY <1>1, <1>2, <1>3, <1>4

\* What should be found after a change, row by row.
LEMMA WantedThen ==
    ASSUME IndexTypeOK, NEW t \in Task, NEW f \in Floors
    PROVE  WantedAfter(t, f) = FoundThen(t, f, hole, floor)
<1>1. HoleOf[f] \in HoleIds
  BY FloorsAssumption
<1>2. After(hole, t.change.hole)[HoleOf[f]] = HoleThen(t, HoleOf[f], hole)
  BY <1>1 DEF IndexTypeOK, After, HoleThen
<1>3. After(floor, t.change.floor)[f] = RowThen(t, f, floor)
  BY DEF IndexTypeOK, After, RowThen
<1> QED
  BY <1>2, <1>3 DEF WantedAfter, FoundThen

LEMMA IndexParts ==
    IndexIInv <=>
      IndexTypeOK /\ ReplicaInv /\ Sound(tasks, hole, floor, index, history, disturbed)
<1> SUFFICES ASSUME IndexTypeOK
             PROVE  AbsentInv /\ OpenInv /\ LockInv /\ DocInv <=>
                    Sound(tasks, hole, floor, index, history, disturbed)
  BY DEF IndexIInv
<1>1. \A t \in tasks : t \in Task /\ DOMAIN t.docs \subseteq Floors
  BY TaskIs DEF IndexTypeOK
<1>2. \A t \in tasks : \A f \in DOMAIN t.docs : WantedAfter(t, f) = FoundThen(t, f, hole, floor)
  BY <1>1, WantedThen
<1>3. AbsentInv <=> RowsAgree(hole, floor, index, history) /\ \A t \in tasks : Drops(t, floor)
  BY <1>1 DEF AbsentInv, RowsAgree, Drops
<1>4. OpenInv <=> \A t \in tasks : Alone(t)
  BY DEF OpenInv, Alone
<1>5. LockInv <=> /\ \A s, t \in tasks : s # t => Unlocked(s, t)
                  /\ \A t \in tasks : Locks(t, hole, floor, disturbed)
  BY DEF LockInv, Unlocked, Locks, Existing
<1>6. DocInv <=>
        (~ disturbed => /\ \A s, t \in tasks : s # t => Apart(s, t)
                        /\ \A t \in tasks : Writes(t, hole, floor, index)
                        /\ Exact(tasks, hole, floor, index))
  <2>1. (\A t \in tasks : \A f \in DOMAIN t.docs :
            /\ t.docs[f] = WantedAfter(t, f)
            /\ ~ t.waiting => index[f] = t.docs[f])
        <=> \A t \in tasks : Writes(t, hole, floor, index)
    BY <1>2 DEF Writes
  <2>2. (\A s, t \in tasks : s # t => DOMAIN s.docs \cap DOMAIN t.docs = {})
        <=> \A s, t \in tasks : s # t => Apart(s, t)
    BY DEF Apart
  <2>3. (\A f \in Floors :
            (\A t \in tasks : f \notin DOMAIN t.docs) => index[f] = Wanted(f))
        <=> Exact(tasks, hole, floor, index)
    BY DEF Exact, Wanted
  <2> QED
    BY <2>1, <2>2, <2>3 DEF DocInv
<1> QED
  BY <1>3, <1>4, <1>5, <1>6 DEF Sound

\* A task is started; the rows may change in the same step.
LEMMA Launching ==
    ASSUME IndexIInv, IndexTypeOK', NEW n \in Task, NEW blind \in BOOLEAN,
           tasks' = tasks \cup {n}, index' = index, replica' = replica,
           disturbed' = (disturbed \/ blind \/ Overlaps(DOMAIN n.docs)),
           \A f \in Floors :
               /\ floor[f].state # "absent" => floor'[f].state # "absent"
               /\ hole'[HoleOf[f]] = "absent" => floor'[f].state = "absent"
               /\ floor'[f].state = "absent" => history'[f] = history[f]
               /\ f \in DOMAIN n.docs
                    \/ /\ floor'[f] = floor[f]
                       /\ hole'[HoleOf[f]] = hole[HoleOf[f]] \/ floor[f].state = "absent",
           \A t \in tasks : \A h \in DOMAIN t.change.hole :
               hole'[h] = hole[h] /\ In(h, floor') \subseteq In(h, floor),
           Alone(n), Locks(n, hole', floor', disturbed'), Drops(n, floor'),
           \A t \in tasks : Unlocked(n, t),
           ~ blind => Writes(n, hole', floor', index)
    PROVE  IndexIInv'
<1> USE FloorsAssumption
<1>1. ReplicaInv /\ Sound(tasks, hole, floor, index, history, disturbed)
  BY IndexParts
<1>2. RowsAgree(hole', floor', index', history')
  BY <1>1 DEF Sound, RowsAgree
<1>3. \A t \in tasks : t \in Task /\ DOMAIN t.docs \subseteq Floors /\ DOMAIN t.change.floor \subseteq Floors
  BY TaskIs DEF IndexIInv, IndexTypeOK
<1>a. disturbed => disturbed'
  OBVIOUS
<1>4. ASSUME NEW t \in tasks
      PROVE  Alone(t) /\ Locks(t, hole', floor', disturbed') /\ Drops(t, floor')
  <2>1. Alone(t) /\ Locks(t, hole, floor, disturbed) /\ Drops(t, floor)
    BY <1>1 DEF Sound
  <2>2. Locks(t, hole', floor', disturbed')
    BY <1>3, <1>a, <2>1 DEF Locks
  <2>3. Drops(t, floor')
    BY <1>3, <2>1 DEF Drops
  <2> QED
    BY <2>1, <2>2, <2>3
<1>5. \A s, t \in tasks' : s # t => Unlocked(s, t)
  BY <1>1 DEF Sound, Unlocked
<1>6. ASSUME ~ disturbed'
      PROVE  /\ \A s, t \in tasks' : s # t => Apart(s, t)
             /\ \A t \in tasks' : Writes(t, hole', floor', index')
             /\ Exact(tasks', hole', floor', index')
  <2>1. ~ disturbed /\ ~ blind /\ \A t \in tasks : Apart(n, t) /\ Apart(t, n)
    BY <1>6 DEF Overlaps, Apart
  <2>2. /\ \A s, t \in tasks : s # t => Apart(s, t)
        /\ \A t \in tasks : Writes(t, hole, floor, index)
        /\ Exact(tasks, hole, floor, index)
    BY <1>1, <2>1 DEF Sound
  <2>3. \A s, t \in tasks' : s # t => Apart(s, t)
    BY <2>1, <2>2
  <2>4. ASSUME NEW t \in tasks
        PROVE  Writes(t, hole', floor', index')
    <3> SUFFICES ASSUME NEW f \in DOMAIN t.docs
                 PROVE  FoundThen(t, f, hole', floor') = FoundThen(t, f, hole, floor)
      BY <2>2 DEF Writes
    <3>1. f \in Floors /\ f \notin DOMAIN n.docs
      BY <1>3, <2>1 DEF Apart
    <3>2. floor'[f] = floor[f] /\ RowThen(t, f, floor') = RowThen(t, f, floor)
      BY <3>1 DEF RowThen
    <3>3. CASE hole'[HoleOf[f]] = hole[HoleOf[f]]
      BY <3>2, <3>3 DEF FoundThen, HoleThen
    <3>4. CASE floor[f].state = "absent"
      <4>1. f \notin DOMAIN t.change.floor
        BY <1>1, <3>4 DEF Sound, Locks
      <4> QED
        BY <3>2, <3>4, <4>1 DEF FoundThen, RowThen, Findable
    <3> QED
      BY <3>1, <3>3, <3>4
  <2>5. Exact(tasks', hole', floor', index')
    <3> SUFFICES ASSUME NEW f \in Floors, \A t \in tasks' : f \notin DOMAIN t.docs
                 PROVE  index[f] = Findable(hole'[HoleOf[f]], floor'[f])
      BY DEF Exact
    <3>1. f \notin DOMAIN n.docs /\ index[f] = Findable(hole[HoleOf[f]], floor[f])
      BY <2>2 DEF Exact
    <3> QED
      BY <3>1 DEF Findable
  <2> QED
    BY <2>1, <2>3, <2>4, <2>5
<1>7. Sound(tasks', hole', floor', index', history', disturbed')
  BY <1>2, <1>4, <1>5, <1>6 DEF Sound
<1>8. (IndexIInv <=> IndexTypeOK /\ ReplicaInv
                         /\ Sound(tasks, hole, floor, index, history, disturbed))'
  BY IndexParts, PTL
<1>9. ReplicaInv'
  BY <1>1 DEF ReplicaInv
<1> QED
  BY <1>7, <1>8, <1>9

\* The task n is started.
Starts(n, docs, found, open, change, blind) ==
    /\ n.docs = docs /\ n.found = found /\ n.waiting = TRUE /\ n.open = open
    /\ n.change = change
    /\ tasks' = tasks \cup {n} /\ index' = index
    /\ disturbed' = (disturbed \/ blind \/ Overlaps(DOMAIN docs))

\* The task that is started, and the types after it.
LEMMA TaskMade ==
    ASSUME IndexTypeOK, NEW docs \in Partly(Floors, Docs), NEW found \in BOOLEAN,
           NEW open \in BOOLEAN,
           NEW change \in [hole : Partly(HoleIds, States), floor : Partly(Floors, Row)],
           NEW blind \in BOOLEAN,
           LaunchTask(docs, found, open, change, blind),
           hole' \in [HoleIds -> States], floor' \in [Floors -> Row],
           history' \in [Floors -> SUBSET Version]
    PROVE  /\ IndexTypeOK' /\ replica' = replica
           /\ \E n \in Task : Starts(n, docs, found, open, change, blind)
<1> DEFINE n == [id |-> launched, docs |-> docs, found |-> found, waiting |-> TRUE,
                 open |-> open, change |-> change]
<1>1. /\ tasks' = tasks \cup {n} /\ index' = index /\ launched' = launched + 1
      /\ replica' = replica
      /\ disturbed' = (disturbed \/ blind \/ Overlaps(DOMAIN docs))
  BY DEF LaunchTask
<1>2. n \in Task
  BY DEF Task, IndexTypeOK
<1>3. /\ n.docs = docs /\ n.found = found /\ n.waiting = TRUE /\ n.open = open
      /\ n.change = change /\ n.id = launched
  OBVIOUS
<1> HIDE DEF n
<1>4. disturbed' \in BOOLEAN
  BY <1>1 DEF IndexTypeOK, Overlaps
<1>5. \A t \in tasks' : t \in Task /\ t.id < launched'
  <2>1. \A t \in tasks : t \in Task /\ t.id \in Nat /\ t.id < launched
    BY TaskIs DEF IndexTypeOK
  <2> QED
    BY <1>1, <1>2, <1>3, <2>1 DEF IndexTypeOK
<1>6. IndexTypeOK'
  BY <1>1, <1>4, <1>5 DEF IndexTypeOK
<1>7. Starts(n, docs, found, open, change, blind)
  BY <1>1, <1>3 DEF Starts
<1> QED
  BY <1>1, <1>2, <1>6, <1>7

LEMMA NoChangeIs ==
    /\ NoChange \in [hole : Partly(HoleIds, States), floor : Partly(Floors, Row)]
    /\ DOMAIN NoChange.hole = {} /\ DOMAIN NoChange.floor = {}
<1> DEFINE none == [k \in {} |-> NoDoc]
<1>1. none \in [{} -> States] /\ none \in [{} -> Row] /\ DOMAIN none = {}
  OBVIOUS
<1>2. none \in Partly(HoleIds, States) /\ none \in Partly(Floors, Row)
  <2> HIDE DEF none
  <2>1. none \in Partly(HoleIds, States)
    BY <1>1 DEF Partly
  <2>2. none \in Partly(Floors, Row)
    BY <1>1 DEF Partly
  <2> QED
    BY <2>1, <2>2
<1>3. NoChange = [hole |-> none, floor |-> none]
  BY DEF NoChange
<1> QED
  BY <1>1, <1>2, <1>3

\* One document.
LEMMA PutIs ==
    ASSUME NEW f \in Floors, NEW x \in Docs
    PROVE  /\ Put(f, x) \in Partly(Floors, Docs)
           /\ DOMAIN Put(f, x) = {f} /\ Put(f, x)[f] = x
<1>1. {f} \in SUBSET Floors /\ Put(f, x) \in [{f} -> Docs]
  BY DEF Put
<1>2. Put(f, x) \in Partly(Floors, Docs)
  BY <1>1 DEF Partly
<1> QED
  BY <1>2 DEF Put

OnlyRow(f, row) == floor' = [floor EXCEPT ![f] = row] /\ hole' = hole

\* A handler changes one row and starts a task for its document.
LEMMA FloorLaunch ==
    ASSUME IndexIInv, NEW f \in Floors, NEW row \in Row, NEW x \in Docs,
           NEW blind \in BOOLEAN,
           LaunchTask(Put(f, x), TRUE, FALSE, NoChange, blind),
           OnlyRow(f, row),
           history' \in [Floors -> SUBSET Version],
           \A g \in Floors : g # f => history'[g] = history[g],
           row.state # "absent",
           floor[f].state = "absent" => HoleFree(HoleOf[f]) /\ hole[HoleOf[f]] # "absent",
           ~ blind => x = Findable(hole[HoleOf[f]], row)
    PROVE  IndexIInv'
<1>1. IndexTypeOK /\ Sound(tasks, hole, floor, index, history, disturbed)
  BY IndexParts
<1>2. floor' \in [Floors -> Row] /\ hole' \in [HoleIds -> States]
  BY <1>1 DEF IndexTypeOK, OnlyRow
<1>a. Put(f, x) \in Partly(Floors, Docs) /\ DOMAIN Put(f, x) = {f} /\ Put(f, x)[f] = x
  BY PutIs
<1>b. /\ NoChange \in [hole : Partly(HoleIds, States), floor : Partly(Floors, Row)]
      /\ DOMAIN NoChange.hole = {} /\ DOMAIN NoChange.floor = {}
  BY NoChangeIs
<1>3. IndexTypeOK' /\ replica' = replica /\ \E n \in Task : Starts(n, Put(f, x), TRUE, FALSE, NoChange, blind)
  BY <1>1, <1>2, <1>a, <1>b, TaskMade, Zenon
<1>4. PICK n \in Task :
            /\ n.docs = Put(f, x) /\ n.found = TRUE /\ n.waiting = TRUE /\ n.open = FALSE
            /\ n.change = NoChange
            /\ tasks' = tasks \cup {n} /\ index' = index
            /\ disturbed' = (disturbed \/ blind \/ Overlaps(DOMAIN Put(f, x)))
  BY <1>3 DEF Starts
<1>5. /\ DOMAIN n.docs = {f} /\ n.docs[f] = x
      /\ DOMAIN n.change.hole = {} /\ DOMAIN n.change.floor = {}
  BY <1>4, <1>a, <1>b
<1>6. floor'[f] = row /\ \A g \in Floors : g # f => floor'[g] = floor[g]
  BY <1>1 DEF IndexTypeOK, OnlyRow
<1>7. Alone(n) /\ Locks(n, hole', floor', disturbed') /\ Drops(n, floor') /\ \A t \in tasks : Unlocked(n, t)
  BY <1>4, <1>5, <1>6 DEF Alone, Locks, Drops, Unlocked, OnlyRow
<1>8. ~ blind => Writes(n, hole', floor', index)
  BY <1>4, <1>5, <1>6 DEF Writes, FoundThen, HoleThen, RowThen, OnlyRow
<1>9. \A g \in Floors :
               /\ floor[g].state # "absent" => floor'[g].state # "absent"
               /\ hole'[HoleOf[g]] = "absent" => floor'[g].state = "absent"
               /\ floor'[g].state = "absent" => history'[g] = history[g]
               /\ g \in DOMAIN n.docs
                    \/ /\ floor'[g] = floor[g]
                       /\ hole'[HoleOf[g]] = hole[HoleOf[g]] \/ floor[g].state = "absent"
  BY <1>1, <1>5, <1>6 DEF Sound, RowsAgree, OnlyRow
<1>10. \A t \in tasks : \A h \in DOMAIN t.change.hole :
               hole'[h] = hole[h] /\ In(h, floor') \subseteq In(h, floor)
  BY <1>6 DEF In, HoleFree, OnlyRow
<1>11. /\ tasks' = tasks \cup {n} /\ index' = index
       /\ disturbed' = (disturbed \/ blind \/ Overlaps(DOMAIN n.docs))
  BY <1>4
<1> QED
  BY <1>3, <1>7, <1>8, <1>9, <1>10, <1>11, Launching

SameRows == UNCHANGED <<hole, floor, history>>

\* What a transaction will change and what its task writes go together.
Fits(docs, change, blind) ==
    /\ \A h \in DOMAIN change.hole :
          /\ HoleFree(h) /\ hole[h] # "absent" /\ change.hole[h] # "absent"
          /\ change.hole[h] = hole[h] \/ In(h, floor) \subseteq DOMAIN docs \/ blind
    /\ \A f \in DOMAIN change.floor :
          /\ FloorFree(f) /\ f \in DOMAIN docs
          /\ floor[f].state # "absent" /\ change.floor[f].state # "absent"
    /\ \A f \in DOMAIN docs :
          /\ floor[f].state = "absent" => docs[f] = NoDoc
          /\ blind \/ docs[f] = Findable(
                IF HoleOf[f] \in DOMAIN change.hole THEN change.hole[HoleOf[f]]
                                                    ELSE hole[HoleOf[f]],
                IF f \in DOMAIN change.floor THEN change.floor[f] ELSE floor[f])

\* A handler starts a task before it commits.
LEMMA FirstLaunch ==
    ASSUME IndexIInv, NEW docs \in Partly(Floors, Docs),
           NEW change \in [hole : Partly(HoleIds, States), floor : Partly(Floors, Row)],
           NEW blind \in BOOLEAN,
           LaunchTask(docs, TRUE, TRUE, change, blind),
           SameRows,
           Fits(docs, change, blind)
    PROVE  IndexIInv'
<1>1. IndexTypeOK /\ Sound(tasks, hole, floor, index, history, disturbed)
  BY IndexParts
<1>2. /\ floor' \in [Floors -> Row] /\ hole' \in [HoleIds -> States]
      /\ history' \in [Floors -> SUBSET Version]
  BY <1>1 DEF IndexTypeOK, SameRows
<1>3. IndexTypeOK' /\ replica' = replica /\ \E n \in Task : Starts(n, docs, TRUE, TRUE, change, blind)
  BY <1>1, <1>2, TaskMade, Zenon
<1>4. PICK n \in Task :
            /\ n.docs = docs /\ n.found = TRUE /\ n.waiting = TRUE /\ n.open = TRUE
            /\ n.change = change
            /\ tasks' = tasks \cup {n} /\ index' = index
            /\ disturbed' = (disturbed \/ blind \/ Overlaps(DOMAIN docs))
  BY <1>3 DEF Starts
<1>5. Alone(n) /\ Locks(n, hole', floor', disturbed') /\ Drops(n, floor')
  BY <1>4 DEF Alone, Locks, Drops, SameRows, Fits
<1>6. \A t \in tasks : Unlocked(n, t)
  BY <1>4 DEF Unlocked, HoleFree, FloorFree, Fits
<1>7. ~ blind => Writes(n, hole', floor', index)
  BY <1>4 DEF Writes, FoundThen, HoleThen, RowThen, SameRows, Fits
<1>8. \A g \in Floors :
               /\ floor[g].state # "absent" => floor'[g].state # "absent"
               /\ hole'[HoleOf[g]] = "absent" => floor'[g].state = "absent"
               /\ floor'[g].state = "absent" => history'[g] = history[g]
               /\ g \in DOMAIN n.docs
                    \/ /\ floor'[g] = floor[g]
                       /\ hole'[HoleOf[g]] = hole[HoleOf[g]] \/ floor[g].state = "absent"
  BY <1>1 DEF Sound, RowsAgree, SameRows
<1>9. \A t \in tasks : \A h \in DOMAIN t.change.hole :
               hole'[h] = hole[h] /\ In(h, floor') \subseteq In(h, floor)
  BY DEF SameRows
<1>10. /\ tasks' = tasks \cup {n} /\ index' = index
       /\ disturbed' = (disturbed \/ blind \/ Overlaps(DOMAIN n.docs))
  BY <1>4
<1> QED
  BY <1>3, <1>5, <1>6, <1>7, <1>8, <1>9, <1>10, Launching

-----------------------------------------------------------------------------
(* The index: steps of handlers *)

LEMMA TypesOf ==
    ASSUME IndexTypeOK, NEW f \in Floors
    PROVE  /\ HoleOf[f] \in HoleIds /\ hole[HoleOf[f]] \in States /\ hole \in [HoleIds -> States]
           /\ floor \in [Floors -> Row] /\ floor[f] \in Row /\ Notice \in Texts \cup {Notice}
           /\ floor[f].text \in Docs /\ floor[f].text \in Texts \cup {Notice}
           /\ floor[f].sensitive \in BOOLEAN
           /\ floor[f].state \in {"absent", "live", "deleted"}
           /\ history \in [Floors -> SUBSET Version] /\ VersionOf(f) \in Version
BY FloorsAssumption DEF IndexTypeOK, Row, Docs, Version, VersionOf

\* The document of a new text is what should be found of it.
LEMMA DocOfIs ==
    ASSUME NEW f \in Floors, NEW x \in Texts, NEW row \in Row,
           row.text = x, row.sensitive = (x \in Suspect)
    PROVE  \E d \in Docs :
              /\ DocOf(f, x) = Put(f, d)
              /\ row.state = "live" => d = Findable(hole[HoleOf[f]], row)
              /\ row.state = "deleted" /\ d = NoDoc => d = Findable(hole[HoleOf[f]], row)
<1>1. CASE hole[HoleOf[f]] = "open" /\ x \notin Suspect
  <2>1. DocOf(f, x) = Put(f, x) /\ x \in Docs /\ x # NoDoc
    BY <1>1, TextsAssumption DEF DocOf, Docs
  <2> QED
    BY <1>1, <2>1 DEF Findable
<1>2. CASE ~ (hole[HoleOf[f]] = "open" /\ x \notin Suspect)
  <2>1. DocOf(f, x) = Put(f, NoDoc) /\ NoDoc \in Docs
    BY <1>2 DEF DocOf, Drop, Docs
  <2> QED
    BY <1>2, <2>1 DEF Findable
<1> QED
  BY <1>1, <1>2

LEMMA CreateFloorStep ==
    ASSUME IndexIInv, NEW f \in Floors, NEW x \in Texts, CreateFloor(f, x)
    PROVE  IndexIInv'
<1> DEFINE row == NewRow("live", x, x \in Suspect)
<1>1. IndexTypeOK
  BY DEF IndexIInv
<1>2. /\ row \in Row /\ row.state = "live" /\ row.text = x /\ row.sensitive = (x \in Suspect)
  <2>1. (x \in Suspect) \in BOOLEAN
    OBVIOUS
  <2> QED
    BY <2>1 DEF NewRow, Row
<1>3. OnlyRow(f, row)
  BY DEF CreateFloor, SetFloor, OnlyRow
<1>4. /\ HoleFree(HoleOf[f]) /\ hole[HoleOf[f]] # "absent"
      /\ LaunchTask(DocOf(f, x), TRUE, FALSE, NoChange, FALSE) /\ history' = history
  BY DEF CreateFloor, Launch
<1> HIDE DEF row
<1>5. PICK d \in Docs : DocOf(f, x) = Put(f, d) /\ d = Findable(hole[HoleOf[f]], row)
  BY <1>2, DocOfIs
<1>6. /\ LaunchTask(Put(f, d), TRUE, FALSE, NoChange, FALSE)
      /\ history' \in [Floors -> SUBSET Version] /\ \A g \in Floors : g # f => history'[g] = history[g]
  BY <1>1, <1>4, <1>5 DEF IndexTypeOK
<1>7. row.state # "absent" /\ (floor[f].state = "absent" => HoleFree(HoleOf[f]) /\ hole[HoleOf[f]] # "absent")
  BY <1>2, <1>4
<1>8. FALSE \in BOOLEAN /\ (~ FALSE => d = Findable(hole[HoleOf[f]], row))
  BY <1>5
<1> QED
  BY <1>2, <1>3, <1>6, <1>7, <1>8, FloorLaunch

\* A deletion, a review or a restoration.
LEMMA RowStep ==
    ASSUME IndexIInv, NEW f \in Floors,
           \/ DeleteFloor(f) \/ ApproveFloor(f) \/ RejectFloor(f)
           \/ \E v \in history[f] : RestoreFloor(f, v)
    PROVE  IndexIInv'
<1>1. IndexTypeOK
  BY DEF IndexIInv
<1> USE TypesOf
<1>2. ASSUME NEW row \in Row, NEW d \in Docs, NEW blind \in BOOLEAN,
             OnlyRow(f, row), LaunchTask(Put(f, d), TRUE, FALSE, NoChange, blind),
             history' \in [Floors -> SUBSET Version],
             \A g \in Floors : g # f => history'[g] = history[g],
             floor[f].state # "absent", row.state # "absent",
             ~ blind => d = Findable(hole[HoleOf[f]], row)
      PROVE  IndexIInv'
  BY <1>2, FloorLaunch
<1>3. ASSUME NEW V \in SUBSET Version, history' = [history EXCEPT ![f] = @ \cup V]
      PROVE  /\ history' \in [Floors -> SUBSET Version]
             /\ \A g \in Floors : g # f => history'[g] = history[g]
  BY <1>1, <1>3
<1>4. CASE DeleteFloor(f)
  <2> DEFINE row == NewRow("deleted", Notice, floor[f].sensitive)
  <2>1. row \in Row /\ row.state = "deleted"
    BY <1>1 DEF NewRow, Row
  <2>2. OnlyRow(f, row)
    BY <1>4 DEF DeleteFloor, SetFloor, OnlyRow
  <2> HIDE DEF row
  <2>3. /\ LaunchTask(Put(f, NoDoc), TRUE, FALSE, NoChange, FALSE) /\ floor[f].state # "absent"
        /\ history' = [history EXCEPT ![f] = @ \cup {VersionOf(f)}]
    BY <1>4 DEF DeleteFloor, Launch, Drop, Backup
  <2>4. /\ history' \in [Floors -> SUBSET Version] /\ NoDoc \in Docs
        /\ \A g \in Floors : g # f => history'[g] = history[g]
    BY <1>1, <1>3, <2>3 DEF Docs
  <2>5. NoDoc = Findable(hole[HoleOf[f]], row)
    BY <2>1 DEF Findable
  <2> QED
    BY <1>2, <2>1, <2>2, <2>3, <2>4, <2>5
<1>5. CASE RejectFloor(f)
  <2> DEFINE row == NewRow("deleted", Notice, TRUE)
  <2>1. row \in Row /\ row.state = "deleted"
    BY <1>1 DEF NewRow, Row
  <2>2. OnlyRow(f, row)
    BY <1>5 DEF RejectFloor, SetFloor, OnlyRow
  <2> HIDE DEF row
  <2>3. /\ LaunchTask(Put(f, NoDoc), TRUE, FALSE, NoChange, FALSE) /\ floor[f].state # "absent"
        /\ history' = [history EXCEPT ![f] = @ \cup {[text |-> floor[f].text, sensitive |-> TRUE]}]
    BY <1>5 DEF RejectFloor, Launch, Drop
  <2>4. /\ history' \in [Floors -> SUBSET Version] /\ NoDoc \in Docs
        /\ \A g \in Floors : g # f => history'[g] = history[g]
    <3>1. [text |-> floor[f].text, sensitive |-> TRUE] \in Version
      BY <1>1 DEF Version
    <3> QED
      BY <1>1, <1>3, <2>3, <3>1 DEF Docs
  <2>5. NoDoc = Findable(hole[HoleOf[f]], row)
    BY <2>1 DEF Findable
  <2> QED
    BY <1>2, <2>1, <2>2, <2>3, <2>4, <2>5
<1>6. CASE ApproveFloor(f)
  <2> DEFINE row == NewRow(floor[f].state, floor[f].text, FALSE)
  <2>0. floor[f].state # "absent" /\ floor[f].state \in {"live", "deleted"}
    BY <1>1, <1>6 DEF ApproveFloor
  <2>1. /\ row \in Row /\ row.state = floor[f].state /\ row.text = floor[f].text
        /\ row.sensitive = FALSE
    BY <1>1, <2>0 DEF NewRow, Row
  <2>2. OnlyRow(f, row) /\ history' = history
    BY <1>6 DEF ApproveFloor, SetFloor, OnlyRow
  <2> HIDE DEF row
  <2>3. PICK blind \in BOOLEAN :
          /\ blind = (hole[HoleOf[f]] # "open" \/ floor[f].state = "deleted")
          /\ LaunchTask(Put(f, floor[f].text), TRUE, FALSE, NoChange, blind)
    BY <1>6 DEF ApproveFloor, Launch
  <2>4. ~ blind => floor[f].text = Findable(hole[HoleOf[f]], row)
    BY <2>0, <2>1, <2>3 DEF Findable
  <2> QED
    BY <1>1, <1>2, <2>0, <2>1, <2>2, <2>3, <2>4
<1>7. ASSUME NEW v \in history[f], RestoreFloor(f, v) PROVE IndexIInv'
  <2> DEFINE row == NewRow("live", v.text, v.sensitive)
  <2>0. v.text \in Texts \cup {Notice} /\ v.text \in Docs /\ v.sensitive \in BOOLEAN
    BY <1>1 DEF Version, Docs
  <2>1. /\ row \in Row /\ row.state = "live" /\ row.text = v.text
        /\ row.sensitive = v.sensitive
    BY <2>0 DEF NewRow, Row
  <2>2. OnlyRow(f, row)
    BY <1>7 DEF RestoreFloor, SetFloor, OnlyRow
  <2> HIDE DEF row
  <2>3. PICK blind \in BOOLEAN :
          /\ blind = (hole[HoleOf[f]] # "open" \/ v.sensitive)
          /\ LaunchTask(Put(f, v.text), TRUE, FALSE, NoChange, blind)
    BY <1>7, <2>0 DEF RestoreFloor, Launch
  <2>4. ~ blind => v.text = Findable(hole[HoleOf[f]], row)
    BY <2>1, <2>3 DEF Findable
  <2>5. /\ history' \in [Floors -> SUBSET Version]
        /\ \A g \in Floors : g # f => history'[g] = history[g]
    BY <1>1, <1>3, <1>7 DEF RestoreFloor, Backup
  <2>6. floor[f].state # "absent"
    BY IndexParts DEF Sound, RowsAgree
  <2> QED
    BY <1>2, <2>0, <2>1, <2>2, <2>3, <2>4, <2>5, <2>6
<1> QED
  BY <1>4, <1>5, <1>6, <1>7

\* A hole and its first floor; a suspect text starts no task.
LEMMA CreateHoleStep ==
    ASSUME IndexIInv, NEW f \in Floors, NEW x \in Texts, CreateHole(HoleOf[f], f, x)
    PROVE  IndexIInv'
<1> USE FloorsAssumption
<1> DEFINE row == NewRow("live", x, x \in Suspect)
<1>1. IndexTypeOK /\ Sound(tasks, hole, floor, index, history, disturbed)
  BY IndexParts
<1>2. row \in Row /\ row.state = "live" /\ row.text = x /\ row.sensitive = (x \in Suspect)
  <2>1. (x \in Suspect) \in BOOLEAN
    OBVIOUS
  <2> QED
    BY <2>1 DEF NewRow, Row
<1>3. /\ hole' = [hole EXCEPT ![HoleOf[f]] = "open"] /\ floor' = [floor EXCEPT ![f] = row]
      /\ history' = history /\ hole[HoleOf[f]] = "absent"
  BY DEF CreateHole, SetFloor
<1> HIDE DEF row
<1>4. /\ hole' \in [HoleIds -> States] /\ floor' \in [Floors -> Row]
      /\ history' \in [Floors -> SUBSET Version]
      /\ floor'[f] = row /\ hole'[HoleOf[f]] = "open"
      /\ \A g \in Floors : g # f => floor'[g] = floor[g]
      /\ \A h \in HoleIds : h # HoleOf[f] => hole'[h] = hole[h]
  BY <1>1, <1>2, <1>3 DEF IndexTypeOK, States
<1>5. \A g \in Floors : HoleOf[g] = HoleOf[f] => floor[g].state = "absent"
  BY <1>1, <1>3 DEF Sound, RowsAgree
<1>6. \A t \in tasks : /\ t \in Task /\ DOMAIN t.docs \subseteq Floors
                       /\ DOMAIN t.change.hole \subseteq HoleIds
                       /\ DOMAIN t.change.floor \subseteq Floors
  BY <1>1, TaskIs DEF IndexTypeOK
<1>7. \A t \in tasks : /\ HoleOf[f] \notin DOMAIN t.change.hole
                       /\ f \notin DOMAIN t.change.floor
  BY <1>1, <1>3, <1>5 DEF Sound, Locks
<1>8. \A t \in tasks : \A h \in DOMAIN t.change.hole :
               hole'[h] = hole[h] /\ In(h, floor') \subseteq In(h, floor)
  BY <1>4, <1>6, <1>7 DEF In
<1>9. CASE x \in Suspect
  <2>1. UNCHANGED <<replica, index, tasks, launched, disturbed>>
    BY <1>9 DEF CreateHole
  <2>2. IndexTypeOK'
    BY <1>1, <1>4, <2>1 DEF IndexTypeOK
  <2>3. Findable("open", row) = NoDoc
    BY <1>2, <1>9 DEF Findable
  <2>4. RowsAgree(hole', floor', index, history')
    BY <1>1, <1>2, <1>3, <1>4, <1>5 DEF Sound, RowsAgree
  <2>5. ASSUME NEW t \in tasks
        PROVE  Alone(t) /\ Locks(t, hole', floor', disturbed') /\ Drops(t, floor')
    <3>1. Alone(t) /\ Locks(t, hole, floor, disturbed) /\ Drops(t, floor)
      BY <1>1 DEF Sound
    <3>2. Locks(t, hole', floor', disturbed')
      BY <1>4, <1>6, <1>7, <1>8, <2>1, <3>1 DEF Locks
    <3>3. Drops(t, floor')
      BY <1>2, <1>4, <1>6, <3>1 DEF Drops
    <3> QED
      BY <3>1, <3>2, <3>3
  <2>6. ASSUME ~ disturbed, NEW t \in tasks
        PROVE  Writes(t, hole', floor', index)
    <3>1. Writes(t, hole, floor, index) /\ Drops(t, floor)
      BY <1>1, <2>6 DEF Sound
    <3> SUFFICES ASSUME NEW g \in DOMAIN t.docs
                 PROVE  t.docs[g] = FoundThen(t, g, hole', floor')
      BY <3>1 DEF Writes
    <3>2. g \in Floors
      BY <1>6
    <3>3. CASE g = f
      <4>1. t.docs[g] = NoDoc
        BY <1>5, <3>1, <3>3 DEF Drops
      <4>2. HoleThen(t, HoleOf[g], hole') = "open" /\ RowThen(t, g, floor') = row
        BY <1>4, <1>7, <3>3 DEF HoleThen, RowThen
      <4> QED
        BY <2>3, <4>1, <4>2 DEF FoundThen
    <3>4. CASE g # f /\ HoleOf[g] = HoleOf[f]
      <4>1. t.docs[g] = NoDoc /\ floor[g].state = "absent"
        BY <1>5, <3>1, <3>2, <3>4 DEF Drops
      <4>2. g \notin DOMAIN t.change.floor
        BY <1>1, <4>1 DEF Sound, Locks
      <4>3. RowThen(t, g, floor') = floor[g]
        BY <1>4, <3>2, <3>4, <4>2 DEF RowThen
      <4> QED
        BY <4>1, <4>3 DEF FoundThen, Findable
    <3>5. CASE HoleOf[g] # HoleOf[f]
      <4>1. HoleOf[g] \in HoleIds /\ g # f
        BY <3>2, <3>5
      <4>2. floor'[g] = floor[g] /\ hole'[HoleOf[g]] = hole[HoleOf[g]]
        BY <1>4, <3>2, <3>5, <4>1
      <4> QED
        BY <3>1, <4>2 DEF Writes, FoundThen, HoleThen, RowThen
    <3> QED
      BY <3>3, <3>4, <3>5
  <2>7. ASSUME ~ disturbed
        PROVE  Exact(tasks, hole', floor', index)
    <3>1. Exact(tasks, hole, floor, index) /\ RowsAgree(hole, floor, index, history)
      BY <1>1, <2>7 DEF Sound
    <3> SUFFICES ASSUME NEW g \in Floors, \A t \in tasks : g \notin DOMAIN t.docs
                 PROVE  index[g] = Findable(hole'[HoleOf[g]], floor'[g])
      BY DEF Exact
    <3>2. CASE HoleOf[g] = HoleOf[f]
      <4>1. index[g] = NoDoc
        BY <1>5, <3>1, <3>2 DEF RowsAgree
      <4>2. CASE g = f
        BY <1>4, <2>3, <4>1, <4>2
      <4>3. CASE g # f
        BY <1>4, <1>5, <3>2, <4>1, <4>3 DEF Findable
      <4> QED
        BY <4>2, <4>3
    <3>3. CASE HoleOf[g] # HoleOf[f]
      BY <1>4, <3>1, <3>3 DEF Exact
    <3> QED
      BY <3>2, <3>3
  <2>8. Sound(tasks', hole', floor', index', history', disturbed')
    <3>1. /\ \A s, t \in tasks : s # t => Unlocked(s, t)
          /\ ~ disturbed => \A s, t \in tasks : s # t => Apart(s, t)
      BY <1>1 DEF Sound
    <3>2. Sound(tasks, hole', floor', index, history', disturbed)
      BY <2>1, <2>4, <2>5, <2>6, <2>7, <3>1 DEF Sound
    <3> QED
      BY <2>1, <3>2
  <2>9. (IndexIInv <=> IndexTypeOK /\ ReplicaInv
                         /\ Sound(tasks, hole, floor, index, history, disturbed))'
    BY IndexParts, PTL
  <2>10. ReplicaInv'
    <3>1. ReplicaInv
      BY IndexParts
    <3>2. \A g \in Floors : floor'[g].state = "absent" => floor[g].state = "absent"
      BY <1>2, <1>4
    <3> QED
      BY <2>1, <3>1, <3>2 DEF ReplicaInv
  <2> QED
    BY <2>2, <2>8, <2>9, <2>10
<1>10. CASE x \notin Suspect
  <2>1. LaunchTask(Put(f, x), TRUE, FALSE, NoChange, FALSE)
    BY <1>10 DEF CreateHole, Launch
  <2>2. /\ Put(f, x) \in Partly(Floors, Docs) /\ DOMAIN Put(f, x) = {f} /\ Put(f, x)[f] = x
    <3>1. x \in Docs
      BY DEF Docs
    <3> QED
      BY <3>1, PutIs
  <2>3. /\ NoChange \in [hole : Partly(HoleIds, States), floor : Partly(Floors, Row)]
        /\ DOMAIN NoChange.hole = {} /\ DOMAIN NoChange.floor = {}
    BY NoChangeIs
  <2>4. /\ IndexTypeOK' /\ replica' = replica
        /\ \E n \in Task : Starts(n, Put(f, x), TRUE, FALSE, NoChange, FALSE)
    BY <1>1, <1>4, <2>1, <2>2, <2>3, TaskMade
  <2>5. PICK n \in Task :
            /\ n.docs = Put(f, x) /\ n.found = TRUE /\ n.waiting = TRUE /\ n.open = FALSE
            /\ n.change = NoChange
            /\ tasks' = tasks \cup {n} /\ index' = index
            /\ disturbed' = (disturbed \/ FALSE \/ Overlaps(DOMAIN n.docs))
    BY <2>4 DEF Starts
  <2>6. /\ DOMAIN n.docs = {f} /\ n.docs[f] = x
        /\ DOMAIN n.change.hole = {} /\ DOMAIN n.change.floor = {}
    BY <2>2, <2>3, <2>5
  <2>7. Alone(n) /\ Locks(n, hole', floor', disturbed') /\ Drops(n, floor') /\ \A t \in tasks : Unlocked(n, t)
    BY <1>2, <1>4, <2>5, <2>6 DEF Alone, Locks, Drops, Unlocked
  <2>8. Writes(n, hole', floor', index)
    <3>1. FoundThen(n, f, hole', floor') = Findable(hole'[HoleOf[f]], floor'[f])
      BY <2>6 DEF FoundThen, HoleThen, RowThen
    <3>2. Findable(hole'[HoleOf[f]], floor'[f]) = x
      BY <1>2, <1>4, <1>10 DEF Findable
    <3> QED
      BY <2>5, <2>6, <3>1, <3>2 DEF Writes
  <2>9. \A g \in Floors :
               /\ floor[g].state # "absent" => floor'[g].state # "absent"
               /\ hole'[HoleOf[g]] = "absent" => floor'[g].state = "absent"
               /\ floor'[g].state = "absent" => history'[g] = history[g]
               /\ g \in DOMAIN n.docs
                    \/ /\ floor'[g] = floor[g]
                       /\ hole'[HoleOf[g]] = hole[HoleOf[g]] \/ floor[g].state = "absent"
    BY <1>1, <1>2, <1>3, <1>4, <1>5, <2>6 DEF Sound, RowsAgree
  <2>10. FALSE \in BOOLEAN
    OBVIOUS
  <2> QED
    BY <1>8, <2>4, <2>5, <2>7, <2>8, <2>9, <2>10, Launching
<1> QED
  BY <1>9, <1>10

LEMMA ModifyFloorStep ==
    ASSUME IndexIInv, NEW f \in Floors, NEW x \in Texts, ModifyFloor(f, x)
    PROVE  IndexIInv'
<1> DEFINE row == NewRow(floor[f].state, x, x \in Suspect)
           hs == [h \in {HoleOf[f]} |-> hole[h]]
           fs == [g \in {f} |-> row]
           change == [hole |-> hs, floor |-> fs]
<1>1. IndexTypeOK
  BY DEF IndexIInv
<1>2. /\ HoleOf[f] \in HoleIds /\ hole[HoleOf[f]] \in States
      /\ floor[f].state \in {"absent", "live", "deleted"}
  BY <1>1, TypesOf
<1>3. /\ row \in Row /\ row.state = floor[f].state /\ row.text = x
      /\ row.sensitive = (x \in Suspect)
  <2>1. (x \in Suspect) \in BOOLEAN
    OBVIOUS
  <2> QED
    BY <1>2, <2>1 DEF NewRow, Row
<1>4. /\ floor[f].state # "absent" /\ hole[HoleOf[f]] # "absent"
      /\ FloorFree(f) /\ HoleFree(HoleOf[f]) /\ SameRows
  BY DEF ModifyFloor, SameRows
<1>5. PICK blind \in BOOLEAN :
          /\ blind = (floor[f].state = "deleted" /\ DocOf(f, x) # Drop(f))
          /\ LaunchTask(DocOf(f, x), TRUE, TRUE, change, blind)
  BY DEF ModifyFloor, LaunchFirst
<1> HIDE DEF row
<1>6. PICK d \in Docs :
          /\ DocOf(f, x) = Put(f, d)
          /\ row.state = "live" => d = Findable(hole[HoleOf[f]], row)
          /\ row.state = "deleted" /\ d = NoDoc => d = Findable(hole[HoleOf[f]], row)
  BY <1>3, DocOfIs
<1>7. /\ Put(f, d) \in Partly(Floors, Docs) /\ DOMAIN Put(f, d) = {f} /\ Put(f, d)[f] = d
      /\ Put(f, NoDoc)[f] = NoDoc
  <2>1. NoDoc \in Docs
    BY DEF Docs
  <2> QED
    BY <2>1, PutIs
<1>8. hs \in Partly(HoleIds, States) /\ fs \in Partly(Floors, Row)
  <2>1. {HoleOf[f]} \in SUBSET HoleIds /\ hs \in [{HoleOf[f]} -> States]
    BY <1>2
  <2>2. {f} \in SUBSET Floors /\ fs \in [{f} -> Row]
    BY <1>3
  <2> HIDE DEF hs, fs
  <2> QED
    BY <2>1, <2>2 DEF Partly
<1>9. /\ DOMAIN hs = {HoleOf[f]} /\ hs[HoleOf[f]] = hole[HoleOf[f]]
      /\ DOMAIN fs = {f} /\ fs[f] = row
  OBVIOUS
<1> HIDE DEF hs, fs
<1>10. /\ change \in [hole : Partly(HoleIds, States), floor : Partly(Floors, Row)]
       /\ change.hole = hs /\ change.floor = fs
  BY <1>8
<1> HIDE DEF change
<1>11. \A h \in DOMAIN change.hole :
               /\ HoleFree(h) /\ hole[h] # "absent" /\ change.hole[h] # "absent"
               /\ change.hole[h] = hole[h] \/ In(h, floor) \subseteq DOMAIN Put(f, d) \/ blind
  BY <1>4, <1>9, <1>10
<1>12. \A g \in DOMAIN change.floor :
               /\ FloorFree(g) /\ g \in DOMAIN Put(f, d)
               /\ floor[g].state # "absent" /\ change.floor[g].state # "absent"
  BY <1>3, <1>4, <1>7, <1>9, <1>10
<1>13. blind \/ d = Findable(hole[HoleOf[f]], row)
  BY <1>2, <1>3, <1>4, <1>5, <1>6, <1>7 DEF Drop
<1>14. \A g \in DOMAIN Put(f, d) :
               /\ floor[g].state = "absent" => Put(f, d)[g] = NoDoc
               /\ blind \/ Put(f, d)[g] = Findable(
                    IF HoleOf[g] \in DOMAIN change.hole THEN change.hole[HoleOf[g]]
                                                        ELSE hole[HoleOf[g]],
                    IF g \in DOMAIN change.floor THEN change.floor[g] ELSE floor[g])
  BY <1>4, <1>7, <1>9, <1>10, <1>13
<1>15. LaunchTask(Put(f, d), TRUE, TRUE, change, blind)
  BY <1>5, <1>6
<1>16. Fits(Put(f, d), change, blind)
  BY <1>11, <1>12, <1>14 DEF Fits
<1> QED
  BY <1>4, <1>7, <1>10, <1>15, <1>16, FirstLaunch

\* A transaction that changes a hole, and the rows of the floors in it, or none; F are
\* the floors it has found.
HoleFits(h, F, docs, state, fs, blind) ==
    /\ F \subseteq Existing(h) /\ docs \in [F -> Docs]
    /\ LaunchTask(docs, TRUE, TRUE, [hole |-> [g \in {h} |-> state], floor |-> fs], blind)
    /\ SameRows
    /\ HoleFree(h) /\ hole[h] # "absent" /\ state # "absent"
    /\ blind \/ F = Existing(h)
    /\ \A f \in DOMAIN fs : f \in F /\ FloorFree(f) /\ fs[f].state # "absent"
    /\ \A f \in F :
          blind \/ docs[f] = Findable(state, IF f \in DOMAIN fs THEN fs[f] ELSE floor[f])

LEMMA HoleLaunch ==
    ASSUME IndexIInv, NEW h \in HoleIds, NEW F, NEW docs, NEW state \in States,
           NEW fs \in Partly(Floors, Row), NEW blind \in BOOLEAN,
           HoleFits(h, F, docs, state, fs, blind)
    PROVE  IndexIInv'
<1> USE DEF HoleFits
<1> DEFINE hs == [g \in {h} |-> state]
           change == [hole |-> hs, floor |-> fs]
<1>1. LaunchTask(docs, TRUE, TRUE, change, blind)
  OBVIOUS
<1>2. DOMAIN docs = F /\ docs \in Partly(Floors, Docs)
  <2>1. F \in SUBSET Floors
    BY DEF Existing, In
  <2> QED
    BY <2>1 DEF Partly
<1>3. hs \in Partly(HoleIds, States)
  <2>1. {h} \in SUBSET HoleIds /\ hs \in [{h} -> States]
    OBVIOUS
  <2> HIDE DEF hs
  <2> QED
    BY <2>1 DEF Partly
<1>4. DOMAIN hs = {h} /\ hs[h] = state
  OBVIOUS
<1> HIDE DEF hs
<1>5. /\ change \in [hole : Partly(HoleIds, States), floor : Partly(Floors, Row)]
      /\ change.hole = hs /\ change.floor = fs
  BY <1>3
<1> HIDE DEF change
<1>6. \A g \in DOMAIN change.hole :
               /\ HoleFree(g) /\ hole[g] # "absent" /\ change.hole[g] # "absent"
               /\ change.hole[g] = hole[g] \/ In(g, floor) \subseteq DOMAIN docs \/ blind
  BY <1>2, <1>4, <1>5 DEF Existing
<1>7. \A f \in DOMAIN change.floor :
               /\ FloorFree(f) /\ f \in DOMAIN docs
               /\ floor[f].state # "absent" /\ change.floor[f].state # "absent"
  BY <1>2, <1>5 DEF Existing, In
<1>8. \A f \in DOMAIN docs :
               /\ floor[f].state = "absent" => docs[f] = NoDoc
               /\ blind \/ docs[f] = Findable(
                    IF HoleOf[f] \in DOMAIN change.hole THEN change.hole[HoleOf[f]]
                                                        ELSE hole[HoleOf[f]],
                    IF f \in DOMAIN change.floor THEN change.floor[f] ELSE floor[f])
  BY <1>2, <1>4, <1>5 DEF Existing, In
<1>9. Fits(docs, change, blind)
  BY <1>6, <1>7, <1>8 DEF Fits
<1> QED
  BY <1>1, <1>2, <1>5, <1>9, FirstLaunch

\* What a query for the floors of a hole finds in any copy: floors that exist.
LEMMA FoundIs ==
    ASSUME IndexIInv, NEW rows \in Copies, NEW f \in Floors, rows[f].state # "absent"
    PROVE  floor[f].state # "absent"
BY DEF IndexIInv, ReplicaInv, Copies

LEMMA RowsOfCopies ==
    ASSUME IndexTypeOK, NEW rows \in Copies
    PROVE  rows \in [Floors -> Row]
BY DEF IndexTypeOK, Copies

LEMMA InExisting ==
    ASSUME IndexIInv, NEW rows \in Copies, NEW h
    PROVE  In(h, rows) \subseteq Existing(h)
BY FoundIs DEF In, Existing

\* The documents of all floors of a hole are dropped.
LEMMA DropAllIs ==
    ASSUME NEW F
    PROVE  /\ DropAll(F) \in [F -> Docs] /\ \A f \in F : DropAll(F)[f] = NoDoc
           /\ DOMAIN DropAll(F) = F
BY DEF DropAll, Docs

LEMMA EmptyRows == NoChange.floor \in Partly(Floors, Row) /\ DOMAIN NoChange.floor = {}
BY NoChangeIs

LEMMA ModifyHoleHideStep ==
    ASSUME IndexIInv, NEW h \in HoleIds, ModifyHoleHide(h)
    PROVE  IndexIInv'
<1>0. [NoChange EXCEPT !.hole = [g \in {h} |-> "hidden"]]
         = [hole |-> [g \in {h} |-> "hidden"], floor |-> NoChange.floor]
  BY DEF NoChange
<1>1. PICK rows \in Copies : \E F \in SUBSET In(h, rows) :
        LaunchTask(DropAll(F), TRUE, TRUE,
                   [hole |-> [g \in {h} |-> "hidden"], floor |-> NoChange.floor],
                   F # Existing(h))
  BY <1>0 DEF ModifyHoleHide, LaunchFirst
<1>2. hole[h] = "open" /\ HoleFree(h) /\ SameRows
  BY DEF ModifyHoleHide, SameRows
<1>3. In(h, rows) \in SUBSET Existing(h)
  BY InExisting
<1>4. PICK F \in SUBSET Existing(h) :
        LaunchTask(DropAll(F), TRUE, TRUE,
                   [hole |-> [g \in {h} |-> "hidden"], floor |-> NoChange.floor],
                   F # Existing(h))
  BY <1>1, <1>3
<1>5. PICK blind \in BOOLEAN :
        /\ blind = (F # Existing(h))
        /\ LaunchTask(DropAll(F), TRUE, TRUE,
                      [hole |-> [g \in {h} |-> "hidden"], floor |-> NoChange.floor], blind)
  BY <1>4
<1>6. DropAll(F) \in [F -> Docs] /\ \A f \in F : DropAll(F)[f] = NoDoc
  BY DropAllIs
<1>7. "hidden" \in States
  BY DEF States
<1>8. \A f \in F :
        blind \/ DropAll(F)[f] = Findable("hidden", IF f \in DOMAIN NoChange.floor
                                                    THEN NoChange.floor[f] ELSE floor[f])
  BY <1>6 DEF Findable
<1>9. \A f \in DOMAIN NoChange.floor :
               /\ f \in F /\ FloorFree(f) /\ NoChange.floor[f].state # "absent"
  BY EmptyRows
<1>10. /\ blind \/ F = Existing(h)
       /\ hole[h] # "absent" /\ "hidden" # "absent"
  BY <1>2, <1>5
<1>11. HoleFits(h, F, DropAll(F), "hidden", NoChange.floor, blind)
  BY <1>2, <1>5, <1>6, <1>8, <1>9, <1>10 DEF HoleFits
<1> QED
  BY <1>7, <1>11, EmptyRows, HoleLaunch

LEMMA ModifyHoleUnhideStep ==
    ASSUME IndexIInv, NEW h \in HoleIds, ModifyHoleUnhide(h)
    PROVE  IndexIInv'
<1> DEFINE Blind(rows, F) ==
             \E f \in Existing(h) :
                \/ f \notin F \/ rows[f].text # floor[f].text
                \/ floor[f].state = "deleted" \/ floor[f].sensitive
           Change == [hole |-> [g \in {h} |-> "open"], floor |-> NoChange.floor]
<1>0. [NoChange EXCEPT !.hole = [g \in {h} |-> "open"]]
         = [hole |-> [g \in {h} |-> "open"], floor |-> NoChange.floor]
  BY DEF NoChange
<1>1. IndexTypeOK /\ hole[h] = "hidden" /\ HoleFree(h) /\ SameRows
  BY DEF ModifyHoleUnhide, SameRows, IndexIInv
<1>2. PICK rows \in Copies : \E F \in SUBSET In(h, rows) :
        LaunchTask([f \in F |-> rows[f].text], TRUE, TRUE, Change, Blind(rows, F))
  <2>1. PICK rows \in Copies : \E F \in SUBSET In(h, rows) :
          LaunchFirst([f \in F |-> rows[f].text],
                      [NoChange EXCEPT !.hole = [g \in {h} |-> "open"]], Blind(rows, F))
    BY DEF ModifyHoleUnhide
  <2>2. PICK F \in SUBSET In(h, rows) :
          LaunchTask([f \in F |-> rows[f].text], TRUE, TRUE,
                     [NoChange EXCEPT !.hole = [g \in {h} |-> "open"]], Blind(rows, F))
    BY <2>1 DEF LaunchFirst
  <2>3. LaunchTask([f \in F |-> rows[f].text], TRUE, TRUE, Change, Blind(rows, F))
    BY <1>0, <2>2
  <2> HIDE DEF Change, Blind
  <2> QED
    BY <2>1, <2>2, <2>3
<1>3. In(h, rows) \in SUBSET Existing(h) /\ rows \in [Floors -> Row]
  BY <1>1, InExisting, RowsOfCopies
<1>4. PICK F \in SUBSET Existing(h) :
        LaunchTask([f \in F |-> rows[f].text], TRUE, TRUE, Change, Blind(rows, F))
  BY <1>2, <1>3
<1>5. PICK blind \in BOOLEAN :
        /\ blind = Blind(rows, F)
        /\ LaunchTask([f \in F |-> rows[f].text], TRUE, TRUE, Change, blind)
  BY <1>4
<1> DEFINE docs == [f \in F |-> rows[f].text]
<1>6. \A f \in Existing(h) : /\ f \in Floors /\ rows[f].text \in Docs
                             /\ floor[f].state \in {"live", "deleted"}
                             /\ floor[f].sensitive \in BOOLEAN
  BY <1>1, <1>3, TypesOf DEF Existing, In, Row, Docs
<1>7. docs \in [F -> Docs] /\ \A f \in F : docs[f] = rows[f].text
  BY <1>6
<1>8. LaunchTask(docs, TRUE, TRUE,
                 [hole |-> [g \in {h} |-> "open"], floor |-> NoChange.floor], blind)
  BY <1>5
<1> HIDE DEF docs
<1>9. "open" \in States
  BY DEF States
<1>10. /\ blind \/ F = Existing(h)
       /\ hole[h] # "absent" /\ "open" # "absent"
  BY <1>1, <1>4, <1>5
<1>11. \A f \in F :
        blind \/ docs[f] = Findable("open", IF f \in DOMAIN NoChange.floor
                                            THEN NoChange.floor[f] ELSE floor[f])
  BY <1>5, <1>6, <1>7, EmptyRows DEF Findable
<1>12. \A f \in DOMAIN NoChange.floor :
               /\ f \in F /\ FloorFree(f) /\ NoChange.floor[f].state # "absent"
  BY EmptyRows
<1> HIDE DEF Blind
<1>13. HoleFits(h, F, docs, "open", NoChange.floor, blind)
  BY <1>1, <1>7, <1>8, <1>10, <1>11, <1>12 DEF HoleFits
<1> QED
  BY <1>9, <1>13, EmptyRows, HoleLaunch

LEMMA PurgeHoleStep ==
    ASSUME IndexIInv, NEW h \in HoleIds, PurgeHole(h)
    PROVE  IndexIInv'
<1> DEFINE fs == [f \in Existing(h) |-> NewRow("deleted", Notice, floor[f].sensitive)]
<1>1. IndexTypeOK
  BY DEF IndexIInv
<1>2. /\ hole[h] # "absent" /\ HoleFree(h) /\ SameRows
      /\ \A f \in Existing(h) : FloorFree(f)
      /\ LaunchTask(DropAll(Existing(h)), TRUE, TRUE,
                    [hole |-> [g \in {h} |-> "deleted"], floor |-> fs], FALSE)
  BY DEF PurgeHole, LaunchFirst, SameRows
<1>3. /\ DropAll(Existing(h)) \in [Existing(h) -> Docs]
      /\ \A f \in Existing(h) : DropAll(Existing(h))[f] = NoDoc
  BY DropAllIs
<1>4. "deleted" \in States /\ FALSE \in BOOLEAN
  BY DEF States
<1>5. /\ fs \in Partly(Floors, Row) /\ DOMAIN fs = Existing(h)
      /\ \A f \in Existing(h) : fs[f].state = "deleted"
  <2>1. \A f \in Existing(h) : f \in Floors /\ NewRow("deleted", Notice, floor[f].sensitive) \in Row
    BY <1>1, TypesOf DEF Existing, In, NewRow, Row
  <2>2. fs \in [Existing(h) -> Row] /\ Existing(h) \in SUBSET Floors
    BY <2>1
  <2>3. DOMAIN fs = Existing(h) /\ \A f \in Existing(h) : fs[f].state = "deleted"
    BY DEF NewRow
  <2> HIDE DEF fs
  <2> QED
    BY <2>2, <2>3 DEF Partly
<1> HIDE DEF fs
<1>6. \A f \in Existing(h) :
        FALSE \/ DropAll(Existing(h))[f]
                   = Findable("deleted", IF f \in DOMAIN fs THEN fs[f] ELSE floor[f])
  BY <1>3 DEF Findable
<1>7. \A f \in DOMAIN fs : /\ f \in Existing(h) /\ FloorFree(f) /\ fs[f].state # "absent"
  BY <1>2, <1>5
<1>8. /\ Existing(h) \in SUBSET Existing(h) /\ "deleted" # "absent"
      /\ FALSE \/ Existing(h) = Existing(h)
  OBVIOUS
<1>9. HoleFits(h, Existing(h), DropAll(Existing(h)), "deleted", fs, FALSE)
  BY <1>2, <1>3, <1>6, <1>7, <1>8 DEF HoleFits
<1> QED
  BY <1>4, <1>5, <1>9, HoleLaunch

\* The row of the hole changes at once; the floors are still to be looked up.
LEMMA CloseHoleStep ==
    ASSUME IndexIInv, NEW h \in HoleIds, NEW state \in {"hidden", "deleted"},
           CloseHole(h, state)
    PROVE  IndexIInv'
<1> USE FloorsAssumption
<1> DEFINE F == {f \in Floors : HoleOf[f] = h}
<1>1. IndexTypeOK /\ Sound(tasks, hole, floor, index, history, disturbed)
  BY IndexParts
<1>2. /\ hole[h] \in {"open", "hidden"} /\ HoleFree(h)
      /\ hole' = [hole EXCEPT ![h] = state] /\ floor' = floor /\ history' = history
      /\ LaunchTask(DropAll(F), FALSE, FALSE, NoChange, FALSE)
  BY DEF CloseHole
<1>3. /\ hole' \in [HoleIds -> States] /\ floor' \in [Floors -> Row]
      /\ history' \in [Floors -> SUBSET Version]
      /\ hole'[h] = state /\ \A g \in HoleIds : g # h => hole'[g] = hole[g]
  BY <1>1, <1>2 DEF IndexTypeOK, States
<1>4. /\ DropAll(F) \in Partly(Floors, Docs)
      /\ DOMAIN DropAll(F) = F /\ \A f \in F : DropAll(F)[f] = NoDoc
  <2>1. /\ DropAll(F) \in [F -> Docs] /\ \A f \in F : DropAll(F)[f] = NoDoc
        /\ DOMAIN DropAll(F) = F
    BY DropAllIs
  <2>2. F \in SUBSET Floors
    OBVIOUS
  <2> HIDE DEF F
  <2> QED
    BY <2>1, <2>2 DEF Partly
<1>5. /\ NoChange \in [hole : Partly(HoleIds, States), floor : Partly(Floors, Row)]
      /\ DOMAIN NoChange.hole = {} /\ DOMAIN NoChange.floor = {}
  BY NoChangeIs
<1>6. /\ IndexTypeOK' /\ replica' = replica
      /\ \E n \in Task : Starts(n, DropAll(F), FALSE, FALSE, NoChange, FALSE)
  <2> HIDE DEF F
  <2> QED
    BY <1>1, <1>2, <1>3, <1>4, <1>5, TaskMade
<1>7. PICK n \in Task :
          /\ n.docs = DropAll(F) /\ n.found = FALSE /\ n.waiting = TRUE /\ n.open = FALSE
          /\ n.change = NoChange
          /\ tasks' = tasks \cup {n} /\ index' = index
          /\ disturbed' = (disturbed \/ FALSE \/ Overlaps(DOMAIN n.docs))
  BY <1>6 DEF Starts
<1>8. /\ DOMAIN n.docs = F /\ \A f \in F : n.docs[f] = NoDoc
      /\ DOMAIN n.change.hole = {} /\ DOMAIN n.change.floor = {}
  BY <1>4, <1>5, <1>7
<1>9. Alone(n) /\ Locks(n, hole', floor', disturbed') /\ Drops(n, floor') /\ \A t \in tasks : Unlocked(n, t)
  BY <1>7, <1>8 DEF Alone, Locks, Drops, Unlocked
<1>10. Writes(n, hole', floor', index)
  <2>1. \A f \in F : hole'[HoleOf[f]] # "open"
    BY <1>3
  <2> QED
    BY <1>7, <1>8, <2>1 DEF Writes, FoundThen, HoleThen, Findable
<1>11. \A g \in Floors :
               /\ floor[g].state # "absent" => floor'[g].state # "absent"
               /\ hole'[HoleOf[g]] = "absent" => floor'[g].state = "absent"
               /\ floor'[g].state = "absent" => history'[g] = history[g]
               /\ g \in DOMAIN n.docs
                    \/ /\ floor'[g] = floor[g]
                       /\ hole'[HoleOf[g]] = hole[HoleOf[g]] \/ floor[g].state = "absent"
  <2> SUFFICES ASSUME NEW g \in Floors
               PROVE  /\ hole'[HoleOf[g]] = "absent" => floor[g].state = "absent"
                      /\ g \in DOMAIN n.docs \/ hole'[HoleOf[g]] = hole[HoleOf[g]]
    BY <1>2
  <2>1. CASE HoleOf[g] = h
    BY <1>3, <1>8, <2>1
  <2>2. CASE HoleOf[g] # h
    BY <1>1, <1>3, <2>2 DEF Sound, RowsAgree
  <2> QED
    BY <2>1, <2>2
<1>12. \A t \in tasks : DOMAIN t.change.hole \subseteq HoleIds
  BY <1>1, TaskIs DEF IndexTypeOK
<1>13. \A t \in tasks : \A g \in DOMAIN t.change.hole :
               hole'[g] = hole[g] /\ In(g, floor') \subseteq In(g, floor)
  BY <1>2, <1>3, <1>12 DEF HoleFree
<1>14. FALSE \in BOOLEAN
  OBVIOUS
<1> HIDE DEF F
<1> QED
  BY <1>6, <1>7, <1>9, <1>10, <1>11, <1>13, <1>14, Launching

-----------------------------------------------------------------------------
(* The index: steps of tasks *)

\* The task u takes the place of t, or t is over.
Replaces(u, t) ==
    /\ u.id = t.id /\ DOMAIN u.docs \subseteq DOMAIN t.docs
    /\ DOMAIN u.change.hole \subseteq DOMAIN t.change.hole
    /\ DOMAIN u.change.floor \subseteq DOMAIN t.change.floor
    /\ tasks' \subseteq (tasks \ {t}) \cup {u}

Typed ==
    /\ hole' \in [HoleIds -> States] /\ floor' \in [Floors -> Row]
    /\ history' \in [Floors -> SUBSET Version] /\ index' \in [Floors -> Docs]
    /\ launched' = launched /\ disturbed' \in BOOLEAN /\ (disturbed => disturbed')
    /\ replica' = replica
    /\ \A f \in Floors : floor'[f].state = "absent" => floor[f].state = "absent"

LEMMA Replacing ==
    ASSUME IndexIInv, NEW t \in tasks, NEW u \in Task, Replaces(u, t), Typed,
           RowsAgree(hole', floor', index', history'),
           \A s \in tasks \ {t} : Locks(s, hole', floor', disturbed') /\ Drops(s, floor'),
           u \in tasks' => Alone(u) /\ Locks(u, hole', floor', disturbed') /\ Drops(u, floor'),
           ~ disturbed' => /\ \A s \in tasks \ {t} : Writes(s, hole', floor', index')
                           /\ u \in tasks' => Writes(u, hole', floor', index')
                           /\ Exact(tasks', hole', floor', index')
    PROVE  IndexIInv'
<1>1. IndexTypeOK /\ ReplicaInv /\ Sound(tasks, hole, floor, index, history, disturbed)
  BY IndexParts
<1>2. \A s \in tasks' : s \in tasks \ {t} \/ s = u
  BY DEF Replaces
<1>3. IndexTypeOK'
  <2>1. \A s \in tasks' : s \in Task /\ s.id < launched'
    BY <1>1, <1>2 DEF IndexTypeOK, Replaces, Typed
  <2> QED
    BY <1>1, <2>1 DEF IndexTypeOK, Typed
<1>4. \A s \in tasks' : Alone(s) /\ Locks(s, hole', floor', disturbed') /\ Drops(s, floor')
  BY <1>1, <1>2 DEF Sound
<1>5. \A a, b \in tasks' : a # b => Unlocked(a, b)
  <2>1. \A s \in tasks \ {t} : Unlocked(s, u) /\ Unlocked(u, s)
    <3>1. \A s \in tasks \ {t} : Unlocked(s, t)
      BY <1>1 DEF Sound
    <3> QED
      BY <3>1 DEF Unlocked, Replaces
  <2>2. \A a, b \in tasks : a # b => Unlocked(a, b)
    BY <1>1 DEF Sound
  <2> QED
    BY <1>2, <2>1, <2>2
<1>6. ASSUME ~ disturbed'
      PROVE  /\ \A a, b \in tasks' : a # b => Apart(a, b)
             /\ \A s \in tasks' : Writes(s, hole', floor', index')
             /\ Exact(tasks', hole', floor', index')
  <2>1. \A a, b \in tasks : a # b => Apart(a, b)
    BY <1>1, <1>6 DEF Sound, Typed
  <2>2. \A s \in tasks \ {t} : Apart(s, u) /\ Apart(u, s)
    BY <2>1 DEF Apart, Replaces
  <2>3. \A a, b \in tasks' : a # b => Apart(a, b)
    BY <1>2, <2>1, <2>2
  <2>4. \A s \in tasks' : Writes(s, hole', floor', index')
    BY <1>2, <1>6
  <2> QED
    BY <1>6, <2>3, <2>4
<1>7. Sound(tasks', hole', floor', index', history', disturbed')
  BY <1>4, <1>5, <1>6 DEF Sound
<1>8. (IndexIInv <=> IndexTypeOK /\ ReplicaInv
                         /\ Sound(tasks, hole, floor, index, history, disturbed))'
  BY IndexParts, PTL
<1>9. ReplicaInv'
  BY <1>1 DEF ReplicaInv, Typed
<1> QED
  BY <1>3, <1>7, <1>8, <1>9

\* What the invariant says of a task when it takes its step.
LEMMA TaskFacts ==
    ASSUME IndexIInv, NEW t \in tasks
    PROVE  /\ IndexTypeOK /\ t \in Task /\ DOMAIN t.docs \subseteq Floors
           /\ RowsAgree(hole, floor, index, history)
           /\ Alone(t) /\ Locks(t, hole, floor, disturbed) /\ Drops(t, floor)
           /\ \A s \in tasks \ {t} : /\ Locks(s, hole, floor, disturbed) /\ Drops(s, floor)
                                     /\ Unlocked(s, t) /\ s \in Task
           /\ ~ disturbed => /\ Writes(t, hole, floor, index)
                             /\ Exact(tasks, hole, floor, index)
                             /\ \A s \in tasks \ {t} : /\ Writes(s, hole, floor, index)
                                                       /\ Apart(s, t)
<1>1. IndexTypeOK /\ Sound(tasks, hole, floor, index, history, disturbed)
  BY IndexParts
<1>2. \A s \in tasks : s \in Task /\ DOMAIN s.docs \subseteq Floors
  BY <1>1, TaskIs DEF IndexTypeOK
<1> QED
  BY <1>1, <1>2 DEF Sound

LEMMA FindFloorsStep ==
    ASSUME IndexIInv, NEW t \in tasks, FindFloors(t)
    PROVE  IndexIInv'
<1>0. PICK F \in SUBSET DOMAIN t.docs :
        /\ tasks' = (tasks \ {t}) \cup {[t EXCEPT !.docs = DropAll(F), !.found = TRUE]}
        /\ disturbed' = (disturbed \/ \E f \in DOMAIN t.docs \ F :
                                         floor[f].state # "absent")
  BY DEF FindFloors
<1> DEFINE u == [t EXCEPT !.docs = DropAll(F), !.found = TRUE]
<1>1. /\ IndexTypeOK /\ t \in Task /\ DOMAIN t.docs \subseteq Floors
      /\ RowsAgree(hole, floor, index, history) /\ Alone(t)
      /\ \A s \in tasks \ {t} : Locks(s, hole, floor, disturbed) /\ Drops(s, floor)
      /\ ~ disturbed => /\ Writes(t, hole, floor, index)
                        /\ Exact(tasks, hole, floor, index)
                        /\ \A s \in tasks \ {t} : Writes(s, hole, floor, index)
  BY TaskFacts
<1>2. /\ ~ t.found /\ tasks' = (tasks \ {t}) \cup {u}
      /\ disturbed' = (disturbed \/ \E f \in DOMAIN t.docs \ F : floor[f].state # "absent")
      /\ UNCHANGED <<hole, floor, replica, history, index, launched>>
  BY <1>0 DEF FindFloors
<1>a. disturbed' \in BOOLEAN /\ (disturbed => disturbed')
  BY <1>1, <1>2 DEF IndexTypeOK
<1>3. /\ DropAll(F) \in [F -> Docs] /\ DOMAIN DropAll(F) = F
      /\ \A f \in F : DropAll(F)[f] = NoDoc
  BY DropAllIs
<1>4. DropAll(F) \in Partly(Floors, Docs) /\ F \subseteq DOMAIN t.docs
  <2>1. F \in SUBSET Floors /\ F \subseteq DOMAIN t.docs
    BY <1>0, <1>1
  <2> QED
    BY <1>3, <2>1 DEF Partly
<1>5. /\ u \in Task /\ u.docs = DropAll(F) /\ u.found = TRUE /\ u.waiting = t.waiting
      /\ u.open = t.open /\ u.change = t.change /\ u.id = t.id
  <2> QED
    BY <1>1, <1>4 DEF Task
<1>6. /\ t.waiting /\ ~ t.open /\ \A f \in DOMAIN t.docs : t.docs[f] = NoDoc
      /\ DOMAIN t.change.hole = {} /\ DOMAIN t.change.floor = {}
  BY <1>1, <1>2 DEF Alone
<1> HIDE DEF u
<1>7. Replaces(u, t)
  BY <1>2, <1>3, <1>4, <1>5, <1>6 DEF Replaces
<1>8. Typed
  BY <1>1, <1>2, <1>a DEF IndexTypeOK, Typed
<1>9. Alone(u) /\ Locks(u, hole, floor, disturbed') /\ Drops(u, floor)
  <2> QED
    BY <1>3, <1>5, <1>6 DEF Alone, Locks, Drops
<1>10. ASSUME ~ disturbed'
       PROVE  Writes(u, hole, floor, index) /\ Exact(tasks', hole, floor, index)
  <2>0. ~ disturbed /\ \A f \in DOMAIN t.docs \ F : floor[f].state = "absent"
    BY <1>2, <1>10
  <2>1. Writes(u, hole, floor, index)
    <3> SUFFICES ASSUME NEW f \in DOMAIN u.docs
                 PROVE  u.docs[f] = FoundThen(u, f, hole, floor)
      BY <1>5, <1>6 DEF Writes
    <3>1. f \in F /\ f \in DOMAIN t.docs /\ u.docs[f] = NoDoc
      BY <1>3, <1>4, <1>5
    <3>2. FoundThen(t, f, hole, floor) = NoDoc
      BY <1>1, <1>6, <2>0, <3>1 DEF Writes
    <3> QED
      BY <1>5, <3>1, <3>2 DEF FoundThen, HoleThen, RowThen
  <2>2. Exact(tasks', hole, floor, index)
    <3> SUFFICES ASSUME NEW f \in Floors, \A s \in tasks' : f \notin DOMAIN s.docs
                 PROVE  index[f] = Findable(hole[HoleOf[f]], floor[f])
      BY DEF Exact
    <3>1. f \notin F /\ \A s \in tasks \ {t} : f \notin DOMAIN s.docs
      BY <1>2, <1>3, <1>5
    <3>2. CASE f \in DOMAIN t.docs
      <4>1. floor[f].state = "absent" /\ index[f] = NoDoc
        BY <1>1, <2>0, <3>1, <3>2 DEF RowsAgree
      <4> QED
        BY <4>1 DEF Findable
    <3>3. CASE f \notin DOMAIN t.docs
      BY <1>1, <2>0, <3>1, <3>3 DEF Exact
    <3> QED
      BY <3>2, <3>3
  <2> QED
    BY <2>1, <2>2
<1>11. /\ hole' = hole /\ floor' = floor /\ history' = history /\ index' = index
  BY <1>2
<1>12. RowsAgree(hole', floor', index', history')
  BY <1>1, <1>11
<1>13. \A s \in tasks \ {t} : Locks(s, hole', floor', disturbed') /\ Drops(s, floor')
  BY <1>1, <1>11, <1>a DEF Locks
<1>14. u \in tasks' => Alone(u) /\ Locks(u, hole', floor', disturbed') /\ Drops(u, floor')
  BY <1>9, <1>11
<1>15. ~ disturbed' => /\ \A s \in tasks \ {t} : Writes(s, hole', floor', index')
                       /\ u \in tasks' => Writes(u, hole', floor', index')
                       /\ Exact(tasks', hole', floor', index')
  BY <1>1, <1>a, <1>10, <1>11
<1> QED
  BY <1>5, <1>7, <1>8, <1>12, <1>13, <1>14, <1>15, Replacing

\* The transaction of a task has ended.
LEMMA EndedIs ==
    ASSUME NEW t \in Task
    PROVE  LET u == [t EXCEPT !.open = FALSE, !.change = NoChange]
           IN  /\ u \in Task /\ u.docs = t.docs /\ u.found = t.found
               /\ u.waiting = t.waiting /\ u.open = FALSE /\ u.id = t.id
               /\ DOMAIN u.change.hole = {} /\ DOMAIN u.change.floor = {}
BY NoChangeIs DEF Task

LEMMA WrittenIs ==
    ASSUME NEW t \in Task
    PROVE  LET u == [t EXCEPT !.waiting = FALSE]
           IN  /\ u \in Task /\ u.docs = t.docs /\ u.found = t.found
               /\ u.waiting = FALSE /\ u.open = t.open /\ u.id = t.id
               /\ u.change = t.change
BY DEF Task

LEMMA RollbackStep ==
    ASSUME IndexIInv, NEW t \in tasks, Rollback(t)
    PROVE  IndexIInv'
<1> DEFINE u == [t EXCEPT !.open = FALSE, !.change = NoChange]
<1>1. /\ IndexTypeOK /\ t \in Task
      /\ RowsAgree(hole, floor, index, history) /\ Alone(t) /\ Drops(t, floor)
      /\ \A s \in tasks \ {t} : Locks(s, hole, floor, disturbed) /\ Drops(s, floor)
  BY TaskFacts
<1>2. /\ t.open /\ tasks' \subseteq (tasks \ {t}) \cup {u}
      /\ disturbed' = TRUE /\ launched' = launched
      /\ hole' = hole /\ floor' = floor /\ history' = history /\ index' = index
      /\ replica' = replica
  BY DEF Rollback, Becomes
<1>3. /\ u \in Task /\ u.docs = t.docs /\ u.found = t.found
      /\ u.waiting = t.waiting /\ u.open = FALSE /\ u.id = t.id
      /\ DOMAIN u.change.hole = {} /\ DOMAIN u.change.floor = {}
  BY <1>1, EndedIs
<1>4. u \in tasks' => u \in tasks \ {t} \/ u.waiting
  BY <1>3 DEF Rollback, Becomes
<1> HIDE DEF u
<1>5. Replaces(u, t) /\ Typed
  BY <1>1, <1>2, <1>3 DEF Replaces, Typed, IndexTypeOK
<1>6. Locks(u, hole', floor', disturbed') /\ Drops(u, floor')
  BY <1>1, <1>2, <1>3 DEF Locks, Drops
<1>7. u \in tasks' => Alone(u)
  <2>1. ASSUME u.waiting PROVE Alone(u)
    BY <1>1, <1>2, <1>3, <2>1 DEF Alone
  <2>2. ASSUME u \in tasks PROVE Alone(u)
    BY <2>2, TaskFacts
  <2> QED
    BY <1>4, <2>1, <2>2
<1>8. /\ RowsAgree(hole', floor', index', history')
      /\ \A s \in tasks \ {t} : Locks(s, hole', floor', disturbed') /\ Drops(s, floor')
  BY <1>1, <1>2 DEF Locks
<1> QED
  BY <1>2, <1>3, <1>5, <1>6, <1>7, <1>8, Replacing

LEMMA LoseStep ==
    ASSUME IndexIInv, NEW t \in tasks, Lose(t)
    PROVE  IndexIInv'
<1> DEFINE u == [t EXCEPT !.waiting = FALSE]
<1>1. /\ IndexTypeOK /\ t \in Task /\ Locks(t, hole, floor, disturbed)
      /\ RowsAgree(hole, floor, index, history) /\ Alone(t) /\ Drops(t, floor)
      /\ \A s \in tasks \ {t} : Locks(s, hole, floor, disturbed) /\ Drops(s, floor)
  BY TaskFacts
<1>2. /\ t.waiting /\ tasks' \subseteq (tasks \ {t}) \cup {u}
      /\ disturbed' = TRUE /\ launched' = launched
      /\ hole' = hole /\ floor' = floor /\ history' = history /\ index' = index
      /\ replica' = replica
  BY DEF Lose, Becomes
<1>3. /\ u \in Task /\ u.docs = t.docs /\ u.found = t.found
      /\ u.waiting = FALSE /\ u.open = t.open /\ u.id = t.id /\ u.change = t.change
  BY <1>1, WrittenIs
<1>4. u \in tasks' => u \in tasks \ {t} \/ u.open
  BY <1>3 DEF Lose, Becomes
<1> HIDE DEF u
<1>5. Replaces(u, t) /\ Typed
  BY <1>1, <1>2, <1>3 DEF Replaces, Typed, IndexTypeOK
<1>6. Locks(u, hole', floor', disturbed') /\ Drops(u, floor')
  BY <1>1, <1>2, <1>3 DEF Locks, Drops
<1>7. u \in tasks' => Alone(u)
  <2>1. ASSUME u.open PROVE Alone(u)
    BY <1>1, <1>2, <1>3, <2>1 DEF Alone
  <2>2. ASSUME u \in tasks PROVE Alone(u)
    BY <2>2, TaskFacts
  <2> QED
    BY <1>4, <2>1, <2>2
<1>8. /\ RowsAgree(hole', floor', index', history')
      /\ \A s \in tasks \ {t} : Locks(s, hole', floor', disturbed') /\ Drops(s, floor')
  BY <1>1, <1>2 DEF Locks
<1> QED
  BY <1>2, <1>3, <1>5, <1>6, <1>7, <1>8, Replacing

LEMMA ApplyStep ==
    ASSUME IndexIInv, NEW t \in tasks, Apply(t)
    PROVE  IndexIInv'
<1> DEFINE u == [t EXCEPT !.waiting = FALSE]
<1>1. /\ IndexTypeOK /\ t \in Task /\ Locks(t, hole, floor, disturbed)
      /\ RowsAgree(hole, floor, index, history) /\ Alone(t) /\ Drops(t, floor)
      /\ \A s \in tasks \ {t} : Locks(s, hole, floor, disturbed) /\ Drops(s, floor) /\ s \in Task
      /\ ~ disturbed => /\ Writes(t, hole, floor, index)
                        /\ Exact(tasks, hole, floor, index)
                        /\ \A s \in tasks \ {t} : /\ Writes(s, hole, floor, index)
                                                  /\ Apart(s, t)
  BY TaskFacts
<1>2. /\ t.waiting /\ t.found /\ tasks' \subseteq (tasks \ {t}) \cup {u}
      /\ tasks \ {t} \subseteq tasks'
      /\ disturbed' = disturbed /\ launched' = launched
      /\ hole' = hole /\ floor' = floor /\ history' = history /\ replica' = replica
      /\ index' = After(index, t.docs)
  BY DEF Apply, Becomes
<1>3. /\ u \in Task /\ u.docs = t.docs /\ u.found = t.found
      /\ u.waiting = FALSE /\ u.open = t.open /\ u.id = t.id /\ u.change = t.change
  BY <1>1, WrittenIs
<1>4. u \in tasks' => u \in tasks \ {t} \/ u.open
  BY <1>3 DEF Apply, Becomes
<1>5. t.open => u \in tasks'
  BY <1>3 DEF Apply, Becomes
<1> HIDE DEF u
<1>6. \A s \in tasks : DOMAIN s.docs \subseteq Floors
  BY <1>1, TaskIs DEF IndexTypeOK
<1>7. \A f \in Floors : index'[f] = IF f \in DOMAIN t.docs THEN t.docs[f] ELSE index[f]
  BY <1>1, <1>2 DEF After, IndexTypeOK
<1>8. index' \in [Floors -> Docs]
  <2>1. t.docs \in [DOMAIN t.docs -> Docs]
    BY <1>1, TaskIs
  <2> QED
    BY <1>1, <1>2, <2>1 DEF After, IndexTypeOK
<1>9. Replaces(u, t)
  BY <1>2, <1>3 DEF Replaces
<1>10. Typed
  BY <1>1, <1>2, <1>8 DEF Typed, IndexTypeOK
<1>11. u \in tasks' => Alone(u) /\ Locks(u, hole', floor', disturbed') /\ Drops(u, floor')
  <2>1. Locks(u, hole', floor', disturbed') /\ Drops(u, floor')
    BY <1>1, <1>2, <1>3 DEF Locks, Drops
  <2>2. ASSUME u.open PROVE Alone(u)
    BY <1>1, <1>2, <1>3, <2>2 DEF Alone
  <2>3. ASSUME u \in tasks PROVE Alone(u)
    BY <2>3, TaskFacts
  <2> QED
    BY <1>4, <2>1, <2>2, <2>3
<1>12. RowsAgree(hole', floor', index', history')
  BY <1>1, <1>2, <1>7 DEF RowsAgree, Drops
<1>13. \A s \in tasks \ {t} : Locks(s, hole', floor', disturbed') /\ Drops(s, floor')
  BY <1>1, <1>2
<1>14. ASSUME ~ disturbed'
       PROVE  /\ \A s \in tasks \ {t} : Writes(s, hole', floor', index')
              /\ Writes(u, hole', floor', index')
              /\ Exact(tasks', hole', floor', index')
  <2>1. ~ disturbed
    BY <1>2, <1>14
  <2>2. ASSUME NEW s \in tasks \ {t}
        PROVE  Writes(s, hole', floor', index')
    <3>1. Writes(s, hole, floor, index) /\ Apart(s, t) /\ DOMAIN s.docs \subseteq Floors
      BY <1>1, <1>6, <2>1
    <3>2. \A f \in DOMAIN s.docs : index'[f] = index[f]
      BY <1>7, <3>1 DEF Apart
    <3> QED
      BY <1>2, <3>1, <3>2 DEF Writes
  <2>3. Writes(u, hole', floor', index')
    <3>1. \A f \in DOMAIN t.docs : f \in Floors /\ index'[f] = t.docs[f]
      BY <1>6, <1>7
    <3>2. \A f : FoundThen(u, f, hole', floor') = FoundThen(t, f, hole, floor)
      BY <1>2, <1>3 DEF FoundThen, HoleThen, RowThen
    <3> QED
      BY <1>1, <1>3, <2>1, <3>1, <3>2 DEF Writes
  <2>4. Exact(tasks', hole', floor', index')
    <3> SUFFICES ASSUME NEW f \in Floors, \A s \in tasks' : f \notin DOMAIN s.docs
                 PROVE  index'[f] = Findable(hole[HoleOf[f]], floor[f])
      BY <1>2 DEF Exact
    <3>1. \A s \in tasks \ {t} : f \notin DOMAIN s.docs
      BY <1>2
    <3>2. CASE f \in DOMAIN t.docs
      <4>1. ~ t.open
        BY <1>3, <1>5, <3>2
      <4>2. FoundThen(t, f, hole, floor) = Findable(hole[HoleOf[f]], floor[f])
        BY <1>1, <4>1 DEF Alone, FoundThen, HoleThen, RowThen
      <4>3. index'[f] = t.docs[f] /\ t.docs[f] = FoundThen(t, f, hole, floor)
        BY <1>1, <1>7, <2>1, <3>2 DEF Writes
      <4> QED
        BY <4>2, <4>3
    <3>3. CASE f \notin DOMAIN t.docs
      BY <1>1, <1>7, <2>1, <3>1, <3>3 DEF Exact
    <3> QED
      BY <3>2, <3>3
  <2> QED
    BY <2>2, <2>3, <2>4
<1> QED
  BY <1>3, <1>9, <1>10, <1>11, <1>12, <1>13, <1>14, Replacing

\* The rows change: what the other tasks are about stays.
LEMMA CommitStep ==
    ASSUME IndexIInv, NEW t \in tasks, Commit(t)
    PROVE  IndexIInv'
<1> USE FloorsAssumption
<1> DEFINE u == [t EXCEPT !.open = FALSE, !.change = NoChange]
<1>1. /\ IndexTypeOK /\ t \in Task /\ DOMAIN t.docs \subseteq Floors
      /\ Locks(t, hole, floor, disturbed) /\ RowsAgree(hole, floor, index, history)
      /\ Alone(t) /\ Drops(t, floor)
      /\ \A s \in tasks \ {t} : /\ Locks(s, hole, floor, disturbed) /\ Drops(s, floor)
                                /\ Unlocked(s, t) /\ s \in Task
      /\ ~ disturbed => /\ Writes(t, hole, floor, index)
                        /\ Exact(tasks, hole, floor, index)
                        /\ \A s \in tasks \ {t} : /\ Writes(s, hole, floor, index)
                                                  /\ Apart(s, t)
  BY TaskFacts
<1>2. /\ t.open /\ tasks' \subseteq (tasks \ {t}) \cup {u}
      /\ tasks \ {t} \subseteq tasks'
      /\ disturbed' = disturbed /\ launched' = launched /\ index' = index
      /\ replica' = replica
      /\ hole' = After(hole, t.change.hole) /\ floor' = After(floor, t.change.floor)
      /\ history' = [f \in Floors |-> IF f \in DOMAIN t.change.floor
                                      THEN history[f] \cup {VersionOf(f)}
                                      ELSE history[f]]
  BY DEF Commit, Becomes
<1>3. /\ u \in Task /\ u.docs = t.docs /\ u.found = t.found
      /\ u.waiting = t.waiting /\ u.open = FALSE /\ u.id = t.id
      /\ DOMAIN u.change.hole = {} /\ DOMAIN u.change.floor = {}
  BY <1>1, EndedIs
<1>4. (u \in tasks' => u \in tasks \ {t} \/ u.waiting) /\ (t.waiting => u \in tasks')
  BY <1>3 DEF Commit, Becomes
<1> HIDE DEF u
<1>5. /\ DOMAIN t.change.hole \subseteq HoleIds /\ DOMAIN t.change.floor \subseteq Floors
      /\ t.change.hole \in [DOMAIN t.change.hole -> States]
      /\ t.change.floor \in [DOMAIN t.change.floor -> Row]
      /\ \A s \in tasks : /\ DOMAIN s.docs \subseteq Floors
                          /\ DOMAIN s.change.hole \subseteq HoleIds
                          /\ DOMAIN s.change.floor \subseteq Floors
  BY <1>1, TaskIs DEF IndexTypeOK
<1>6. /\ \A h \in HoleIds : hole'[h] = HoleThen(t, h, hole)
      /\ \A f \in Floors : floor'[f] = RowThen(t, f, floor)
  BY <1>1, <1>2 DEF After, HoleThen, RowThen, IndexTypeOK
<1>7. /\ hole' \in [HoleIds -> States] /\ floor' \in [Floors -> Row]
      /\ history' \in [Floors -> SUBSET Version]
  <2>1. hole' \in [HoleIds -> States]
    BY <1>1, <1>2, <1>5 DEF After, IndexTypeOK
  <2>2. floor' \in [Floors -> Row]
    BY <1>1, <1>2, <1>5 DEF After, IndexTypeOK
  <2>3. history' \in [Floors -> SUBSET Version]
    <3>1. \A f \in Floors : VersionOf(f) \in Version /\ history[f] \in SUBSET Version
      BY <1>1, TypesOf
    <3> QED
      BY <1>2, <3>1
  <2> QED
    BY <2>1, <2>2, <2>3
<1>8. Replaces(u, t)
  BY <1>2, <1>3 DEF Replaces
<1>10. \A f \in Floors : floor'[f].state = "absent" <=> floor[f].state = "absent"
  BY <1>1, <1>6 DEF Locks, RowThen
<1>9. Typed
  BY <1>1, <1>2, <1>7, <1>10 DEF Typed, IndexTypeOK
<1>11. \A f \in Floors : floor[f].state = "absent" =>
                           f \notin DOMAIN t.change.floor /\ floor'[f] = floor[f]
  BY <1>1, <1>6 DEF Locks, RowThen
<1>12. \A h \in HoleIds : hole'[h] = "absent" => hole[h] = "absent"
  BY <1>1, <1>6 DEF Locks, HoleThen
<1>13. \A h : In(h, floor') = In(h, floor)
  BY <1>10 DEF In
<1>14. RowsAgree(hole', floor', index', history')
  <2> SUFFICES ASSUME NEW f \in Floors
               PROVE  /\ hole'[HoleOf[f]] = "absent" => floor'[f].state = "absent"
                      /\ floor'[f].state = "absent" => index[f] = NoDoc /\ history'[f] = {}
    BY <1>2 DEF RowsAgree
  <2>1. HoleOf[f] \in HoleIds
    OBVIOUS
  <2>2. hole'[HoleOf[f]] = "absent" => floor'[f].state = "absent"
    BY <1>1, <1>10, <1>12, <2>1 DEF RowsAgree
  <2>3. floor'[f].state = "absent" => index[f] = NoDoc /\ history'[f] = {}
    BY <1>1, <1>2, <1>10, <1>11 DEF RowsAgree
  <2> QED
    BY <2>2, <2>3
<1>15. ASSUME NEW s \in tasks \ {t}
       PROVE  Locks(s, hole', floor', disturbed') /\ Drops(s, floor')
  <2>1. Locks(s, hole, floor, disturbed) /\ Drops(s, floor) /\ Unlocked(s, t)
    BY <1>1
  <2>2. \A h \in DOMAIN s.change.hole : hole'[h] = hole[h]
    BY <1>5, <1>6, <2>1 DEF Unlocked, HoleThen
  <2>3. Locks(s, hole', floor', disturbed')
    BY <1>2, <1>5, <1>10, <1>13, <2>1, <2>2 DEF Locks
  <2>4. Drops(s, floor')
    BY <1>5, <1>10, <2>1 DEF Drops
  <2> QED
    BY <2>3, <2>4
<1>16. u \in tasks' => Alone(u) /\ Locks(u, hole', floor', disturbed') /\ Drops(u, floor')
  <2>1. Locks(u, hole', floor', disturbed')
    BY <1>3 DEF Locks
  <2>2. Drops(u, floor')
    BY <1>1, <1>3, <1>10 DEF Drops
  <2>3. ASSUME u.waiting PROVE Alone(u)
    BY <1>1, <1>2, <1>3, <2>3 DEF Alone
  <2>4. ASSUME u \in tasks PROVE Alone(u)
    BY <2>4, TaskFacts
  <2> QED
    BY <1>4, <2>1, <2>2, <2>3, <2>4
<1>17. ASSUME ~ disturbed, NEW f \in Floors, f \notin DOMAIN t.docs
       PROVE  /\ floor'[f] = floor[f]
              /\ hole'[HoleOf[f]] = hole[HoleOf[f]] \/ floor[f].state = "absent"
  <2>1. HoleOf[f] \in HoleIds
    OBVIOUS
  <2>2. f \notin DOMAIN t.change.floor
    BY <1>1, <1>17 DEF Locks
  <2>3. ASSUME HoleOf[f] \in DOMAIN t.change.hole, t.change.hole[HoleOf[f]] # hole[HoleOf[f]]
        PROVE  floor[f].state = "absent"
    BY <1>1, <1>17, <2>3 DEF Locks, In
  <2> QED
    BY <1>6, <2>1, <2>2, <2>3 DEF HoleThen, RowThen
<1>18. ASSUME ~ disturbed'
       PROVE  /\ \A s \in tasks \ {t} : Writes(s, hole', floor', index')
              /\ Writes(u, hole', floor', index')
              /\ Exact(tasks', hole', floor', index')
  <2>1. ~ disturbed
    BY <1>2, <1>18
  <2>2. ASSUME NEW s \in tasks \ {t}
        PROVE  Writes(s, hole', floor', index')
    <3>1. /\ Writes(s, hole, floor, index) /\ Apart(s, t) /\ DOMAIN s.docs \subseteq Floors
          /\ Locks(s, hole, floor, disturbed)
      BY <1>1, <1>5, <2>1
    <3>2. ASSUME NEW f \in DOMAIN s.docs
          PROVE  FoundThen(s, f, hole', floor') = FoundThen(s, f, hole, floor)
      <4>1. f \in Floors /\ f \notin DOMAIN t.docs
        BY <3>1 DEF Apart
      <4>2. RowThen(s, f, floor') = RowThen(s, f, floor)
        BY <1>17, <2>1, <4>1 DEF RowThen
      <4>3. CASE hole'[HoleOf[f]] = hole[HoleOf[f]]
        BY <4>2, <4>3 DEF FoundThen, HoleThen
      <4>4. CASE floor[f].state = "absent"
        <5>1. f \notin DOMAIN s.change.floor
          BY <3>1, <4>4 DEF Locks
        <5> QED
          BY <4>2, <4>4, <5>1 DEF FoundThen, RowThen, Findable
      <4> QED
        BY <1>17, <2>1, <4>1, <4>3, <4>4
    <3> QED
      BY <1>2, <3>1, <3>2 DEF Writes
  <2>3. \A f \in Floors : FoundThen(t, f, hole, floor) = Findable(hole'[HoleOf[f]], floor'[f])
    BY <1>6 DEF FoundThen
  <2>4. Writes(u, hole', floor', index')
    <3>1. \A f \in DOMAIN u.docs : FoundThen(u, f, hole', floor') = FoundThen(t, f, hole, floor)
      BY <1>1, <1>3, <2>3 DEF FoundThen, HoleThen, RowThen
    <3> QED
      BY <1>1, <1>2, <1>3, <2>1, <3>1 DEF Writes
  <2>5. Exact(tasks', hole', floor', index')
    <3> SUFFICES ASSUME NEW f \in Floors, \A s \in tasks' : f \notin DOMAIN s.docs
                 PROVE  index[f] = Findable(hole'[HoleOf[f]], floor'[f])
      BY <1>2 DEF Exact
    <3>1. \A s \in tasks \ {t} : f \notin DOMAIN s.docs
      BY <1>2
    <3>2. CASE f \in DOMAIN t.docs
      <4>1. ~ t.waiting
        BY <1>3, <1>4, <3>2
      <4> QED
        BY <1>1, <2>1, <2>3, <3>2, <4>1 DEF Writes
    <3>3. CASE f \notin DOMAIN t.docs
      <4>1. index[f] = Findable(hole[HoleOf[f]], floor[f])
        BY <1>1, <2>1, <3>1, <3>3 DEF Exact
      <4> QED
        BY <1>17, <2>1, <3>3, <4>1 DEF Findable
    <3> QED
      BY <3>2, <3>3
  <2> QED
    BY <2>2, <2>4, <2>5
<1> QED
  BY <1>3, <1>8, <1>9, <1>14, <1>15, <1>16, <1>18, Replacing

-----------------------------------------------------------------------------
(* The index: theorems *)

LEMMA IndexInitIInv == IndexInit => IndexIInv
<1> SUFFICES ASSUME IndexInit PROVE IndexIInv
  OBVIOUS
<1> USE FloorsAssumption DEF IndexInit
<1>1. [state |-> "absent", text |-> Notice, sensitive |-> FALSE] \in Row
  BY DEF Row
<1>2. IndexTypeOK
  BY <1>1 DEF IndexTypeOK, States, Docs
<1>3. Sound(tasks, hole, floor, index, history, disturbed)
  BY DEF Sound, RowsAgree, Exact, Findable
<1>4. ReplicaInv
  BY DEF ReplicaInv
<1> QED
  BY <1>2, <1>3, <1>4, IndexParts

LEMMA CatchUpStep ==
    ASSUME IndexIInv, NEW s \in Replicas, CatchUp(s)
    PROVE  IndexIInv'
<1>1. /\ replica' = [replica EXCEPT ![s] = floor]
      /\ UNCHANGED <<hole, floor, history, index, tasks, launched, disturbed>>
  BY DEF CatchUp
<1>2. IndexTypeOK' /\ ReplicaInv'
  BY <1>1 DEF IndexIInv, IndexTypeOK, ReplicaInv
<1>3. AbsentInv' /\ OpenInv' /\ LockInv' /\ DocInv'
  BY <1>1 DEF IndexIInv, AbsentInv, OpenInv, LockInv, DocInv, Existing, WantedAfter, Wanted
<1> QED
  BY <1>2, <1>3 DEF IndexIInv

LEMMA IndexStepIInv == IndexIInv /\ [IndexNext]_indexVars => IndexIInv'
<1> SUFFICES ASSUME IndexIInv, [IndexNext]_indexVars PROVE IndexIInv'
  OBVIOUS
<1>1. ASSUME NEW f \in Floors, FloorStep(f) PROVE IndexIInv'
  <2>1. ASSUME NEW x \in Texts,
               CreateHole(HoleOf[f], f, x) \/ CreateFloor(f, x) \/ ModifyFloor(f, x)
        PROVE  IndexIInv'
    BY <2>1, CreateHoleStep, CreateFloorStep, ModifyFloorStep
  <2>2. CASE \/ DeleteFloor(f) \/ ApproveFloor(f) \/ RejectFloor(f)
             \/ \E v \in history[f] : RestoreFloor(f, v)
    BY <2>2, RowStep
  <2> QED
    BY <1>1, <2>1, <2>2 DEF FloorStep
<1>2. ASSUME NEW h \in HoleIds, HoleStep(h) PROVE IndexIInv'
  BY <1>2, CloseHoleStep, ModifyHoleHideStep, ModifyHoleUnhideStep, PurgeHoleStep DEF HoleStep
<1>3. ASSUME NEW t \in tasks, TaskStep(t) PROVE IndexIInv'
  BY <1>3, FindFloorsStep, ApplyStep, LoseStep, CommitStep, RollbackStep DEF TaskStep
<1>4. CASE UNCHANGED indexVars
  BY <1>4 DEF indexVars, IndexIInv, IndexTypeOK, AbsentInv, OpenInv, LockInv, DocInv,
     ReplicaInv, Existing, WantedAfter, Wanted
<1>5. ASSUME NEW s \in Replicas, CatchUp(s) PROVE IndexIInv'
  BY <1>5, CatchUpStep
<1> QED
  BY <1>1, <1>2, <1>3, <1>4, <1>5 DEF IndexNext

\* The inductive invariant of the index: rows, locks, tasks and documents fit together.
THEOREM IndexInvariance == IndexSpec => []IndexIInv
<1>1. IndexInit => IndexIInv
  BY IndexInitIInv
<1>2. IndexIInv /\ [IndexNext]_indexVars => IndexIInv'
  BY IndexStepIInv
<1> QED
  BY <1>1, <1>2, PTL DEF IndexSpec

\* RowsAgree, versions, documents and tasks have the types models.Floor,
\* models.FloorHistory and models.FloorModel give them.
THEOREM IndexTypes == IndexSpec => []IndexTypeOK
<1>1. IndexIInv => IndexTypeOK
  BY DEF IndexIInv
<1> QED
  BY <1>1, IndexInvariance, PTL

\* Whenever the goroutines have run and nothing let the index drift, it holds exactly
\* the floors a user may find, with their current texts, in whatever order the
\* handlers, their transactions and their goroutines ran.
THEOREM IndexIsExact == IndexSpec => []IndexExact
<1>1. IndexIInv => IndexExact
  BY DEF IndexIInv, DocInv, IndexExact
<1> QED
  BY <1>1, IndexInvariance, PTL
=============================================================================
