--------------------------- MODULE MCContentCheck ---------------------------
(* Two checks beside each other and the task that replaces the labels.     *)
EXTENDS ContentCheck, TLC

CONSTANTS c1, c2, t1, t2, t3

MCTables == {t1, t2, t3}

\* One label more, another label, and one of the same length as the first.
MCLabels == {1, 2}
MCKnows == t1 :> {1} @@ t2 :> {1, 2} @@ t3 :> {2}
MCLength == t1 :> 10 @@ t2 :> 20 @@ t3 :> 10

Text(pictures, foreign, listed, words) ==
  [pictures |-> pictures, foreign |-> foreign, listed |-> listed, words |-> words]

\* Two pictures; a picture and words; a link of the blacklist; a foreign
\* picture after one of an allowed host.
MCTexts == {Text(2, FALSE, FALSE, FALSE), Text(1, FALSE, FALSE, TRUE),
            Text(0, FALSE, TRUE, TRUE), Text(1, TRUE, FALSE, TRUE)}

Hit(l, code, quoted) == [label |-> l, code |-> code, quoted |-> quoted]

\* Two labels, one without a code; a code of the third level with quoted words.
MCFindings == {<<Hit(1, "none", FALSE), Hit(2, "second", FALSE)>>,
               <<Hit(2, "third", TRUE)>>}
=============================================================================
