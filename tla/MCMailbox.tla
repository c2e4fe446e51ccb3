----------------------------- MODULE MCMailbox -----------------------------
(* Small instances of Mailbox for TLC. *)
EXTENDS Mailbox, TLC

CONSTANTS u1, u2, u3, f1, f2, f3

\* u1, the author of the hole, wrote two of the floors.
Authors == [f \in OldFloors |-> IF f = f3 THEN u2 ELSE u1]

\* u3 has switched off mentions.
U3NoMentions == [u \in Users |->
    [notify |-> IF u = u3 THEN Switchable \ {"mention"} ELSE Switchable,
     folded |-> "hide"]]

\* Bound: either subscriptions or settings change, for they do not meet, and beside
\* a removal, an edit or a mail there is one such request.
OneKind ==
    LET follows == {s \in Follows : follow[s] # New}
        settings == {c \in Settings : setting[c] # New}
    IN /\ follows = {} \/ settings = {}
       /\ \/ \A x \in Tasks : sender[x] = New
          \/ Cardinality(follows \cup settings) <= 1

SomeChanges == {[notify |-> {"favorite"}, folded |-> Keep],
                [notify |-> Keep, folded |-> "show"]}

Handlers ==
    Permutations(Follows) \cup Permutations(Settings) \cup Permutations({f1, f2})
=============================================================================
