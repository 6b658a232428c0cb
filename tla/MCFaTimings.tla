---------------------------- MODULE MCFaTimings ----------------------------
(***************************************************************************)
(* Small files and answers for FaTimings, and what a comment says of the   *)
(* split of compound fillers.  Times are in units of 20 ms.                *)
(***************************************************************************)
EXTENDS FaTimings, TLC

CONSTANTS w, um, youKnow

PartsOf == (w :> 1) @@ (um :> 1) @@ (youKnow :> 2)
Fillers == {um, youKnow}

S(s, e) == [start |-> s, end |-> e]
B(s, e) == [start |-> s, end |-> e, source |-> "Authoritative"]
Hint(s, e) == [start |-> s, end |-> e, source |-> "Utr"]
U(ws, bullet, spans) ==
  [words |-> ws, bullet |-> bullet, review |-> FALSE,
   wor |-> IF spans = None THEN None
           ELSE [i \in DOMAIN spans |-> [word |-> ws[i], span |-> spans[i]]]]

Fresh == U(<<w>>, None, None)
FirstOnes == {
  U(<<w, w>>, None, None),
  U(<<w, w>>, Hint(1, 5), None),
  U(<<um, w>>, B(0, 6), <<None, S(1, 4)>>),
  U(<<w, w>>, B(0, 6), <<S(4, 4), S(5, 8)>>),
  U(<<w, w>>, B(1, 6), <<S(1, 4), S(4, 6)>>),
  U(<<w, w>>, B(2, 5), <<S(1, 3), S(3, 7)>>),
  U(<<w, w, w>>, B(0, 6), <<S(0, 2), S(2, 4), S(4, 6)>>),
  [U(<<youKnow>>, B(1, 5), <<S(1, 5)>>) EXCEPT !.review = TRUE],
  U(<<youKnow>>, None, None)}
SecondOnes == {
  Fresh,
  U(<<w>>, B(4, 4), None),
  U(<<w>>, B(3, 7), <<S(3, 7)>>),
  U(<<w>>, None, <<S(2, 4)>>),
  U(<<>>, B(4, 6), None)}
Files ==
  {<<a, b>> : a \in FirstOnes, b \in SecondOnes}
  \cup {<<Fresh, Fresh, Fresh>>, <<Fresh, U(<<>>, B(2, 5), None), Fresh>>,
        <<U(<<w, w, w>>, B(0, 7), <<S(0, 3), S(3, 5), S(5, 7)>>)>>,
        <<U(<<w>>, B(2, 4), <<S(1, 3)>>), U(<<w>>, B(3, 5), <<S(4, 6)>>), Fresh>>}

Times == {S(0, 0), S(0, 1), S(1, 4), S(3, 4), S(4, 8)}
Some(n) == [1..n -> Times]
Given ==
  {<<>>, <<<<>>>>}
  \cup {<<a>> : a \in Some(1) \cup Some(2)}
  \cup {<<a, b>> : a \in Some(2), b \in Some(1) \cup {<<>>}}
  \cup {<<a, <<>>, b>> : a \in Some(1), b \in Some(1)}
  \cup {<<a, b, c>> : a \in Some(1), b \in Some(1), c \in Some(1)}
  \cup {<<<<S(0, 2), S(2, 4), S(4, 6)>>>>, <<<<S(0, 1), S(1, 3), S(0, 4)>>>>}

\* extraction.rs:37 says that extraction and injection agree on the split of a
\* compound filler: a stage never fails on the token count of an utterance
\* whose tokens it took from its own %wor tier.
SplitAgreed == phase = "failed" /\ route = "tokens" => kept[at] = None
===============================================================================
