---------------------------- MODULE MCTaskRunners ----------------------------
(***************************************************************************)
(* Small transcripts and answers for TaskRunners.  Times are in units of   *)
(* 100 ms; the words are a, b and c, um a filler, and x the word that CHAT *)
(* cannot hold.                                                            *)
(***************************************************************************)
EXTENDS TaskRunners, TLC

T(s, e) == [start |-> s, end |-> e]
W(text) == [text |-> text, time |-> None]
At(text, s, e) == [text |-> text, time |-> T(s, e)]
Word(text) == [kind |-> "word", words |-> <<W(text)>>]
Filler == [kind |-> "filler", words |-> <<W("um")>>]
Retrace(text) == [kind |-> "retrace", words |-> <<W(text)>>]
Mark(kind) == [kind |-> kind, words |-> <<>>]

Line(speaker, items) ==
  [speaker |-> speaker, lang |-> None, items |-> items, linkers |-> <<>>, postcodes |-> <<>>,
   term |-> ".", bullet |-> None, tiers |-> <<>>]
Timed(utt, wor) ==
  [utt EXCEPT !.bullet = T(0, 9), !.tiers = Append(@, Tier("wor", wor))]

\* A retrace before its correction, and a separator between.
Corrected ==
  [Timed(Line("CHI", <<Word("a"), Retrace("b"), Mark("separator"), Word("c")>>),
         <<At("a", 0, 2), W("b"), W(None), At("c", 6, 8)>>)
     EXCEPT !.linkers = <<"++">>, !.postcodes = <<"+bch">>,
            !.tiers = Append(@, Tier("com", "laughs"))]
Hesitant == Timed(Line("CHI", <<Filler, Word("a"), Mark("pause"), Word("b")>>),
                  <<At("um", 0, 1), At("a", 2, 4), At("b", 5, 9)>>)
Plain == [Line("MOT", <<Word("b")>>) EXCEPT !.bullet = T(4, 5), !.term = None]
Tagged == With(Line("MOT", <<Word("a")>>),
               <<Tier("mor", <<[text |-> "a", units |-> <<1>>]>>), Tier("gra", <<1, 2>>)>>)
Group == [Line("MOT", <<[kind |-> "word", words |-> <<W("a"), W("b")>>], Word("c")>>)
            EXCEPT !.lang = "fra", !.bullet = T(2, 2)]
Empty == Line("CHI", <<Mark("pause")>>)

F(utts) == [langs |-> <<"eng">>, participants |-> <<"CHI", "MOT">>, ca |-> FALSE,
            media |-> TRUE, stamps |-> <<>>, utts |-> utts]
SmallFiles ==
  {F(<<Corrected>>), F(<<Tagged, Hesitant>>), F(<<Group>>),
   [F(<<[Corrected EXCEPT !.speaker = "PAR0"]>>) EXCEPT !.participants = <<"PAR0">>],
   [F(<<[Plain EXCEPT !.speaker = "PAR1", !.bullet = T(1, 2)], [Plain EXCEPT !.speaker = "PAR1"]>>)
      EXCEPT !.participants = <<"PAR1">>],
   [F(<<Empty>>) EXCEPT !.langs = <<>>, !.participants = <<>>, !.media = FALSE],
   [F(<<Plain>>) EXCEPT !.langs = <<"xxx">>], [F(<<Group>>) EXCEPT !.ca = TRUE],
   F(<<>>)}

\* What a back end answers well, and some of what it may answer badly: spans of
\* the words asked for, of one word for two, with a text that corrects itself or
\* one that is empty, with a text that is not that of its words, and with a text
\* that does not read.
Span(items, words, term, window) == [items |-> items, words |-> words, term |-> term, window |-> window]
Plainly(words, term, window) == Span(ReadAgain(words), words, term, window)
UtsegReplies(row) ==
  {<<>>}
  \cup (IF Len(row) < 2 THEN {<<Plainly(row, None, Untimed)>>}
        ELSE {<<Plainly(SubSeq(row, 1, 1), "?", Untimed), Plainly(SubSeq(row, 2, Len(row)), None, T(1, 3))>>,
              <<Span(<<Retrace("a"), Word("ab")>>, <<At("a", 0, 1), At("ab", 1, 2)>>, None, T(1, 2)),
                Span(<<>>, <<At("b", 2, 3)>>, None, Untimed)>>,
              <<Span(<<Word("a"), Word("b")>>, <<At("ab", 1, 2)>>, None, Untimed)>>})
  \cup (IF row = <<>> THEN {} ELSE {<<Plainly(<<At("x", 0, 0)>>, None, Untimed)>>})

MorReplies(request) ==
  LET n == Len(request.tokens)
      tag(k, units) == [text |-> request.tokens[k], units |-> units]
  IN {[words |-> [k \in 1..n |-> tag(k, <<k>>)], term |-> n + 1],
      [words |-> <<>>, term |-> 1]}
     \cup (IF n = 0 THEN {}
           ELSE {[words |-> [k \in 1..n |-> tag(k, IF k = 1 THEN <<1, 2>> ELSE <<k + 1>>)], term |-> n + 2],
                 [words |-> [k \in 1..(n - 1) |-> tag(k, <<k>>)], term |-> n],
                 [words |-> <<tag(1, <<2>>)>>, term |-> 1]})

PhoReplies(request) ==
  LET good == [i \in DOMAIN request |->
                 [utt |-> request[i].utt,
                  ipa |-> [k \in DOMAIN request[i].units |->
                             IF request[i].units[k].pause THEN "pause" ELSE "ph"]]]
  IN {good, Tail(good), [good EXCEPT ![1].ipa = Append(@, "t")], [good EXCEPT ![1].utt = 0],
      [good EXCEPT ![1].ipa[1] = "blank"]}

TextReplies(request) ==
  {[texts |-> [u \in DOMAIN request |-> IF u = 1 THEN "text" ELSE ""], provider |-> "p"],
   [texts |-> [u \in DOMAIN request |-> "text"], provider |-> None],
   [texts |-> [u \in 1..(Len(request) + 1) |-> "text"], provider |-> None]}

Seg(s, e, l) == [start |-> s, end |-> e, speaker |-> l]
SpeakerReplies ==
  {<<>>, <<Seg(0, 9, "A")>>, <<Seg(5, 9, "B"), Seg(0, 3, "A")>>,
   <<Seg(0, 1, "A"), Seg(2, 4, "B"), Seg(5, 8, "C")>>, <<Seg(0, 3, "C"), Seg(7, 8, "B"), Seg(20, 30, "A")>>}

AiReplies(request) ==
  IF request = <<>> THEN {<<>>}
  ELSE {<<[utt |-> 1, block |-> <<Plain, Group>>]>>,
        <<[utt |-> 1, block |-> <<>>], [utt |-> Len(request), block |-> <<Tagged>>]>>,
        <<[utt |-> 1, block |-> <<Plain, Tagged>>], [utt |-> Len(request), block |-> None]>>,
        <<[utt |-> Len(request) + 1, block |-> <<>>]>>}

SmallReplies(t, request) ==
  CASE t = "utseg" -> UtsegReplies(request)
    [] t = "morphosyntax" -> MorReplies(request)
    [] t = "phonetic" -> PhoReplies(request)
    [] t \in {"translate", "coref"} -> TextReplies(request)
    [] t = "speaker" -> SpeakerReplies
    [] t = "ai" -> AiReplies(request)

Pars == [i \in 0..2 |-> <<"PAR0", "PAR1", "PAR2">>[i + 1]]
LabelOrder == <<"A", "B", "C">>
===============================================================================
