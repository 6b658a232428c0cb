----------------------------- MODULE MCAlgorithms -----------------------------
(***************************************************************************)
(* The algorithms on transcripts, each given every input of a small set.   *)
(* A behaviour picks a task and its input and takes one step to the        *)
(* output; the properties compare the output with a reference definition.  *)
(***************************************************************************)
EXTENDS Integers, SequencesExt, FiniteSetsExt

CONSTANTS None, Failed,   \* model values
          MaxEdits        \* of a transcript object

VARIABLES task, given, got
vars == <<task, given, got>>

UpTo(S, n) == UNION {[1..k -> S] : k \in 0..n}
Subsequence(s, t) ==
  \E f \in [DOMAIN s -> DOMAIN t] :
    /\ \A i, j \in DOMAIN s : i < j => f[i] < f[j]
    /\ \A i \in DOMAIN s : s[i] = t[f[i]]

\* The most positions of s and t that can be paired in order, pairs of P only.
LongestMatching(s, t, P) ==
  LET pairs(I, J) == LET a == SetToSortSeq(I, <)
                         b == SetToSortSeq(J, <)
                     IN \A k \in DOMAIN a : <<s[a[k]], t[b[k]]>> \in P
  IN Max({Cardinality(I) : I \in {K \in SUBSET DOMAIN s :
       \E J \in SUBSET DOMAIN t : Cardinality(J) = Cardinality(K) /\ pairs(K, J)}})
-------------------------------------------------------------------------------
(***************************************************************************)
(* The shared aligner: b and B differ in their case only.                  *)
(***************************************************************************)

AlikeWords == {<<"a", "a">>, <<"b", "b">>, <<"B", "B">>, <<"b", "B">>, <<"B", "b">>}

W == INSTANCE Alignment WITH Alike <- AlikeWords, SmallCutoff <- 2

AlignWords(payload, reference) ==
  /\ task' = "align"
  /\ given' = [payload |-> payload, reference |-> reference]
  /\ got' = W!Align(payload, reference)

\* Both sides come out whole and in order, only like words are paired, and no
\* alignment pairs more of them (Hirschberg, alignment/mod.rs:230).
Whole(items, side(_), n) ==
  SelectSeq([k \in DOMAIN items |-> side(items[k])], LAMBDA x : x > 0) = [i \in 1..n |-> i]

AlignerOptimal ==
  task = "align" =>
    LET pairs == SelectSeq(got, LAMBDA it : it.p * it.r > 0)
    IN /\ Whole(got, LAMBDA it : it.p, Len(given.payload))
       /\ Whole(got, LAMBDA it : it.r, Len(given.reference))
       /\ \A k \in DOMAIN pairs : W!Matches(given.payload[pairs[k].p], given.reference[pairs[k].r])
       /\ Len(pairs) = LongestMatching(given.payload, given.reference, AlikeWords)
-------------------------------------------------------------------------------
(***************************************************************************)
(* Comparison: ab is a contraction of a and b, um a filler, and n a name   *)
(* that counts as equal to a.                                              *)
(***************************************************************************)

Forms == [w \in {"a", "b", "ab", "n", "um"} |->
            CASE w = "ab" -> <<"a", "b">> [] w = "um" -> <<>> [] OTHER -> <<w>>]
TokenPairs == {<<w, w>> : w \in {"a", "b", "n"}} \cup {<<"a", "n">>, <<"n", "a">>}

C == INSTANCE Compare WITH Conform <- Forms, SameToken <- TokenPairs

PosOf(w) == CASE w = "a" -> "noun" [] w = "b" -> "verb" [] OTHER -> "?"
CompareUtt(texts, term) ==
  [words |-> [k \in DOMAIN texts |-> [text |-> texts[k], pos |-> PosOf(texts[k])]],
   term |-> term, tiers |-> <<[label |-> "gra", content |-> <<>>]>>]
CompareFile(utts) == [utts |-> utts, summaries |-> <<>>]

MainUtts == {CompareUtt(t, ".") : t \in {<<"a">>, <<"b">>, <<"a", "b">>, <<"b", "a">>,
                                         <<"a", "um">>, <<"a", "a", "b">>}}
GoldUtts == {CompareUtt(<<"a">>, "."), CompareUtt(<<"b", "a">>, "!"), CompareUtt(<<"ab">>, "none"),
             CompareUtt(<<"n", "b">>, "?"), CompareUtt(<<"um">>, "."), CompareUtt(<<"b">>, ".")}

CompareFiles(main, gold) ==
  /\ task' = "compare"
  /\ given' = [main |-> CompareFile(main), gold |-> CompareFile(gold)]
  /\ got' = C!Compared(given'.main, given'.gold)

TierContent(utt, label) ==
  LET ts == SelectSeq(utt.tiers, LAMBDA t : t.label = label) IN ts[1].content
Spoken(rep, sides) ==
  LET kept == SelectSeq(rep, LAMBDA t : t[1] \in sides \cup {"match"})
  IN [k \in DOMAIN kept |-> kept[k][2]]
AlikeSeqs(s, t) == Len(s) = Len(t) /\ \A k \in DOMAIN s : C!Same(s[k], t[k])

\* What a comparison writes beside an utterance m, whose gold utterances are gs.
UttFaithful(m, gs) ==
  LET rep == Front(TierContent(got.utts[m], "xsrep"))
      full == TierContent(got.utts[m], "xsrep")
      termed == given.gold.utts[Last(gs)].term # "none"
      said == IF termed THEN rep ELSE full
      main == C!Texts(C!InUtt(C!Tokens(given.main.utts), m))
      gold == C!Texts(FlattenSeq([k \in DOMAIN gs |-> C!InUtt(C!Tokens(given.gold.utts), gs[k])]))
  IN /\ termed => Last(full) = <<"match", given.gold.utts[Last(gs)].term>>
     /\ AlikeSeqs(Spoken(said, {"extra_main"}), main)
     /\ Spoken(said, {"extra_gold"}) = gold
     /\ Len(SelectSeq(said, LAMBDA t : t[1] = "match")) = LongestMatching(main, gold, TokenPairs)

\* A file that was compared still parses, and comparing it again changes
\* nothing: what an earlier comparison wrote is not taken for speech
\* (strip_compare_tiers, strip_gra_tiers).
Settled == C!Parses(got) /\ C!Compared(got, given.gold) = got

\* Every token counts once in the summary, and once for its part of speech.
CountsAddUp(sum, per, perPos) ==
  LET ofPos(st) == FoldSet(LAMBDA p, n : n + perPos[p][st], 0, DOMAIN perPos)
      ofNone(st) == FoldSet(LAMBDA m, n : n + Len(SelectSeq(C!WithStatus(per[m], st),
                              LAMBDA t : t.pos \in {"?", "PUNCT"})), 0, DOMAIN per)
  IN /\ sum.matches = ofPos("match") + ofNone("match")
     /\ sum.insertions = ofPos("extra_main") + ofNone("extra_main")
     /\ sum.deletions = ofPos("extra_gold") + ofNone("extra_gold")
Summed(sum, per) == CountsAddUp(sum, per, C!PerPos(per))

\* The golds go in order, and each to an utterance it shares a token with.
MappedInOrder(to) ==
  LET mapped == SelectSeq(to, LAMBDA m : m > 0)
  IN /\ \A g \in 1..(Len(mapped) - 1) : mapped[g] <= mapped[g + 1]
     /\ \A m \in Range(mapped) : UttFaithful(m, C!GoldsOf(to, m))
     /\ \A g \in DOMAIN to : to[g] > 0 =>
          \E s \in Range(C!InUtt(C!Tokens(given.main.utts), to[g])),
             t \in Range(C!InUtt(C!Tokens(given.gold.utts), g)) : s.text = t.text

\* Each gold utterance goes to a main utterance it shares a token with, in the
\* order of the file, and what is written beside that utterance reads as its
\* own tokens and as those of its gold utterances, with as many matches as any
\* alignment has; comparing again changes nothing (compare_one,
\* levenshtein_align, build_utt_cmp, CompareTaskRunner::apply).
ComparisonFaithful ==
  task = "compare" =>
    /\ MappedInOrder(C!GoldToMain(given.main.utts, given.gold.utts))
    /\ Settled
    /\ Summed(got.summaries[1], C!PerUtt(given.main.utts, given.gold.utts))
-------------------------------------------------------------------------------
(***************************************************************************)
(* Timing recovery: files of three utterances, the second one perhaps said *)
(* over the first, and what a recogniser heard, once out of order.         *)
(***************************************************************************)

R == INSTANCE Utr WITH Alike <- AlikeWords, SmallCutoff <- 2, Fractions <- 2, Tolerance <- 1,
                       Buffers <- <<2, 3, 6>>, Density <- <<1, 2>>, CaMarkers <- TRUE

Utt(words, bullet) == [words |-> words, bullet |-> bullet, lazy |-> FALSE, bottoms |-> {},
                       tops |-> <<>>, speaker |-> "A"]
FirstUtts == {Utt(<<"a", "b">>, {}), Utt(<<"a">>, {<<5, 5>>}), Utt(<<"a">>, {<<2, 8>>}),
              [Utt(<<"b", "a">>, {}) EXCEPT !.tops = <<<<1, 1>>>>]}
SecondUtts == {Utt(<<"b">>, {}), Utt(<<>>, {}), Utt(<<"a">>, {<<3, 4>>}),
               [Utt(<<"b">>, {}) EXCEPT !.lazy = TRUE, !.speaker = "B"],
               [Utt(<<"b">>, {<<4, 6>>}) EXCEPT !.lazy = TRUE, !.speaker = "B"],
               [Utt(<<"a">>, {}) EXCEPT !.bottoms = {1}, !.speaker = "B"]}
ThirdUtts == {Utt(<<"a">>, {}), Utt(<<"B">>, {}), Utt(<<"a", "a">>, {})}
UtrFiles == {<<u, v, w>> : u \in FirstUtts, v \in SecondUtts, w \in ThirdUtts}

\* Token k begins at HeardAt[k] and lasts for two units, or for none.
HeardTimes == {<<0, 3, 6, 9>>, <<0, 1, 9, 3>>}
Heard(texts, at, len) ==
  [k \in DOMAIN texts |-> [text |-> texts[k], start |-> at[k], end |-> at[k] + len]]
HeardWords == {Heard(t, at, 2) : t \in UpTo({"a", "b"}, 4), at \in HeardTimes}
                \cup {Heard(<<"a", "b">>, <<0, 3>>, 0)}

RecoverTimes(utts, words) ==
  /\ task' = "recover"
  /\ given' = [utts |-> utts, words |-> words]
  /\ got' = [file |-> R!UtrApplied([utts |-> utts, unlinked |-> TRUE], words),
             one |-> R!RunGlobal(utts, R!UtrTokens(words), FALSE),
             two |-> R!TwoPass(utts, R!UtrTokens(words))]

HadBullet(u) == given.utts[u].bullet # {}

\* Bullets the transcript had stay, new ones last, and each utterance is counted.
RecoveryKeeps(result) ==
  /\ \A u \in DOMAIN given.utts : LET b == result.utts[u].bullet IN
       IF HadBullet(u) THEN b = given.utts[u].bullet ELSE b = {} \/ R!Starts(b) < R!Ends(b)
  /\ result.injected + result.skipped + result.unmatched = Len(given.utts)
  /\ result.injected = Cardinality({u \in DOMAIN given.utts :
                                      ~HadBullet(u) /\ result.utts[u].bullet # {}})

\* An utterance timed anew begins when those before it have ended, unless one
\* of the two overlaps on purpose.
RecoveredInOrder(result) ==
  \A u, v \in DOMAIN given.utts :
    LET b == result.utts[u].bullet
        c == result.utts[v].bullet
    IN (u < v /\ ~HadBullet(v) /\ b # {} /\ c # {}
         /\ ~R!Overlaps(given.utts[u]) /\ ~R!Overlaps(given.utts[v]))
       => R!Ends(b) <= R!Starts(c)

\* Timing recovery never moves a bullet it did not write, writes bullets that
\* last and, but for marked overlaps, follow each other in time, even when the
\* recogniser's words do not; the second pass times no fewer utterances; and a
\* file with a bullet that lasts is left alone (run_global_utr,
\* TwoPassOverlapUtr::inject, UtrTaskRunner::apply).
RecoveredTimesSound ==
  task = "recover" =>
    /\ RecoveryKeeps(got.one) /\ RecoveredInOrder(got.one)
    /\ RecoveryKeeps(got.two)
    /\ got.two.injected >= got.one.injected
    /\ IF R!AlreadyTimed(given.utts) THEN got.file = [utts |-> given.utts, unlinked |-> TRUE]
       ELSE got.file = [utts |-> got.one.utts, unlinked |-> FALSE]

\* The fast path for words that embed in one way only gives the ranges the
\* whole alignment gives (try_unique_exact_subsequence_ranges).
FastPathAgrees ==
  task = "recover" =>
    LET flat == R!Flat(given.utts, FALSE)
        words == [i \in DOMAIN flat |-> flat[i][1]]
        texts == R!TextsOf(R!UtrTokens(given.words))
        utt == [i \in DOMAIN flat |-> flat[i][2]]
    IN R!PlanRanges(words, texts, utt, Len(given.utts))
         = R!DpRanges(words, texts, utt, Len(given.utts))
-------------------------------------------------------------------------------
(***************************************************************************)
(* Transcription.                                                          *)
(***************************************************************************)

ClassOf(a) ==
  CASE a \in {"1", "2"} -> "digit"
    [] a \in {".", "?", "wide."} -> "end"
    [] a = "," -> "comma"
    [] a = "quote" -> "quote"
    [] a = "-" -> "hyphen"
    [] a = "%" -> "percent"
    [] a = "&-" -> "filler"
    [] a = "*" -> "illegal"
    [] a = "<" -> "open"
    [] a = ">" -> "close"
    [] a = "space" -> "space"
    [] a \in {"zi", "hou"} -> "cjk"
    [] OTHER -> "letter"
Atoms == {"1", "2", ".", "?", "wide.", ",", "quote", "-", "%", "&-", "*", "<", ">", "space", "zi", "hou",
          "hi", "Hi", "i", "I", "dr", "um", "well", "one", "two", "twenty", "percent"}
WordOf(lang) == CASE lang = "eng" -> <<"percent">> [] OTHER -> <<>>

T == INSTANCE Transcribe WITH
  Class <- [a \in Atoms |-> ClassOf(a)], Lower <- [a \in {"Hi", "I"} |-> IF a = "I" THEN "i" ELSE "hi"],
  Upper <- [a \in {"hi", "i"} |-> IF a = "i" THEN "I" ELSE "Hi"], Ascii <- [a \in {"wide."} |-> "."],
  Protected <- {<<"1", ".", "2">>},
  Number <- [t \in {<<"2">>, <<"2", "1">>} |->
               IF t = <<"2">> THEN <<"two">> ELSE <<"twenty", "space", "one">>],
  PercentWord <- [l \in {"eng", "yue", "zho"} |-> WordOf(l)], Compounds <- {<<<<"hi">>, <<"i">>>>},
  Titles <- {<<"dr", ".">>}, Respelled <- [t \in {<<"um">>} |-> <<"&-", "um">>],
  Capitals <- {<<"i">>}, Starters <- {<<"well">>}, MaxTurnLen <- 3, LongPause <- 50,
  NoSpeaker <- "nobody", Unlabelled <- "b"

EnglishTexts == {<<"hi">>, <<"i">>, <<"hi", ".">>, <<"um">>, <<",">>, <<"hi", "space", "i", "?">>,
                 <<"2", "1">>, <<"2", "%">>, <<"-", "hi">>, <<"dr", ".">>, <<"*">>, <<"well">>,
                 <<"quote", "I", "quote">>, <<"<", "hi", ">">>, <<"<", "hi">>}
CantoneseTexts == {<<"zi", "hou">>, <<"zi", "wide.">>, <<"zi">>, <<",">>, <<"2", "%">>}

\* Words that follow each other, and words with a long pause and one untimed.
WordTimes == {<<<<0, 7>>, <<10, 18>>, <<20, 28>>, <<30, 37>>>>,
              <<<<0, 9>>, <<T!NoTime, T!NoTime>>, <<100, 105>>, <<105, 120>>>>}
Elements(texts, times) ==
  [k \in DOMAIN texts |-> [text |-> texts[k], start |-> times[k][1], end |-> times[k][2]]]
Segment(speaker, elements) ==
  [speaker |-> speaker, text |-> <<>>, start |-> T!NoTime, end |-> T!NoTime, words |-> elements]
Whole2 == {<<>>,
           <<Segment("a", Elements(<<<<"hi">>>>, <<<<200, 210>>>>))>>,
           <<Segment("nobody", <<>>),
             [Segment("c", <<>>) EXCEPT !.text = <<"well", "space", "i", ".">>, !.start = 200, !.end = 230]>>,
           <<[Segment("c", <<>>) EXCEPT !.text = <<"<", "i", "space", "hi", ">", ".">>, !.start = 200, !.end = 230]>>}

Heards(lang) ==
  {<<Segment("a", Elements(t, at))>> \o rest :
     t \in UpTo(IF lang = "eng" THEN EnglishTexts ELSE CantoneseTexts, 3),
     at \in WordTimes, rest \in Whole2}

TranscribeAudio(segs, lang) ==
  /\ task' = "transcribe"
  /\ given' = [segs |-> segs, lang |-> lang]
  /\ got' = T!Transcript(segs, lang)

\* What is said, letter by letter: numbers count as #, marks not at all.
Said(text) ==
  LET kept == SelectSeq(T!LowerText(text), LAMBDA a : ClassOf(a) \in {"letter", "cjk", "digit"}
                                                      /\ a # "percent")
  IN [i \in DOMAIN kept |-> IF kept[i] \in {"1", "2", "one", "two", "twenty"} THEN "#" ELSE kept[i]]
SaidAll(texts) == FlattenSeq([i \in DOMAIN texts |-> Said(texts[i])])

SegmentTexts(seg) ==
  IF seg.words = <<>> THEN <<T!SegmentText(seg.text)>> ELSE [k \in DOMAIN seg.words |-> seg.words[k].text]
\* Texts that count as said: not those between < and >, were they words or not.
Uttered(texts) == SelectSeq(texts, LAMBDA t : ~(t # <<>> /\ t[1] = "<" /\ t[Len(t)] = ">"))
LineWords(line) == FlattenSeq([k \in DOMAIN line.items |-> line.items[k].words])
WordTexts(line) == [k \in DOMAIN LineWords(line) |-> LineWords(line)[k].text]
LinesOf(n) == SelectSeq(got.lines, LAMBDA l : l.speaker = n)
SegmentsOf(label) == SelectSeq(given.segs, LAMBDA s : T!LabelOf(s) = label)
Labels == {T!LabelOf(given.segs[k]) : k \in DOMAIN given.segs}

\* What is marked as a retrace is said again later in its line, unmarked.
RetracesCorrected(words) ==
  \A i \in DOMAIN words : words[i].kind = "retrace" =>
    \E j \in DOMAIN words : j > i /\ words[j].kind # "retrace"
                            /\ Said(words[j].text) = Said(words[i].text)

\* Everything the recogniser heard is in the lines of its speaker once and in
\* order, whatever is split, joined, respelt, cut at pauses or marked as a
\* retrace of what is said again, and no line has a speaker nobody was heard as
\* (process_raw_asr, apply_retrace_detection, build_chat_from_asr).  A word or
\* segment that is a marker as a whole, such as <pause>, is all that is left out,
\* and it takes none of its neighbours along (extract_timed_words).
HeardOnce ==
  task = "transcribe" =>
    /\ \A k \in DOMAIN got.lines :
         /\ got.lines[k].speaker \in 0..(Cardinality(Labels) - 1) \cap got.participants
         /\ RetracesCorrected(LineWords(got.lines[k]))
    /\ \A label \in Labels :
         LET segs == SegmentsOf(label)
             lines == LinesOf(T!SpeakerNumber(given.segs, label))
         IN FlattenSeq([k \in DOMAIN segs |-> SaidAll(Uttered(SegmentTexts(segs[k])))])
              = FlattenSeq([k \in DOMAIN lines |-> SaidAll(WordTexts(lines[k]))])

\* Words carry times in the order they were said, and the bullet of a line
\* spans them (Share, parse_and_time_word).
HeardInTime ==
  task = "transcribe" =>
    \A k \in DOMAIN got.lines :
      LET timed == T!TimedWords(got.lines[k].items)
      IN /\ \A i \in DOMAIN timed : timed[i].start <= timed[i].end
         /\ \A i \in 1..(Len(timed) - 1) : timed[i].end <= timed[i + 1].start
         /\ timed # <<>> => /\ got.lines[k].bullet[1] = Min({timed[i].start : i \in DOMAIN timed})
                            /\ got.lines[k].bullet[2] = Max({timed[i].end : i \in DOMAIN timed})

CutChunk(chunk, groups) ==
  /\ task' = "cut" /\ given' = [chunk |-> chunk, groups |-> groups]
  /\ got' = T!ByAssignment(chunk, groups)

\* A chunk is cut exactly between words of different groups.
CutAtGroups ==
  task = "cut" =>
    /\ FlattenSeq(got) = given.chunk
    /\ Len(given.groups) = Len(given.chunk) =>
         Len(got) = 1 + Cardinality({i \in 2..Len(given.chunk) : given.groups[i] # given.groups[i - 1]})

RankLanguages(langs, primary) ==
  /\ task' = "languages" /\ given' = [langs |-> langs, primary |-> primary]
  /\ got' = [first |-> T!PrimaryLanguage(langs), all |-> T!DetectedLanguages(langs, primary, 2)]

Times(l) == Cardinality({i \in DOMAIN given.langs : given.langs[i] = l})

\* The primary language is said most often; the declared ones follow it by
\* frequency, each once, and none that is rare is among them.
LanguagesRanked ==
  task = "languages" =>
    LET rest == Tail(got.all)
        found == Range(given.langs) \ {"none"}
    IN /\ got.first # "none" <=> found # {}
       /\ \A l \in found : Times(l) <= Times(got.first)
       /\ Head(got.all) = given.primary
       /\ Range(rest) = {l \in found \ {given.primary} : Times(l) >= 2} /\ IsInjective(rest)
       /\ \A i, j \in DOMAIN rest : i < j => Times(rest[i]) >= Times(rest[j])
-------------------------------------------------------------------------------
(***************************************************************************)
(* Numbers.                                                                *)
(***************************************************************************)

N == INSTANCE Numbers

EnglishTable == (0..20) \cup {30, 40, 50, 60, 70, 80, 90, 100, 1000}
SmallNumbers == (0..130) \cup {199, 200, 999, 1000, 1001, 1110, 1984, 1999, 2000, 2005, 2014, 3000, 9999}
DigitSeqs ==
  {d \in UNION {[1..k -> {0, 1}] : k \in 1..9} \cup UNION {[1..k -> {0, 1, 2}] : k \in 1..5} :
     Len(d) > 1 => d[1] # 0}

WriteChinese(digits) ==
  /\ task' = "chinese" /\ given' = digits
  /\ got' = N!Num2Chinese(digits)

WriteCardinal(n) ==
  /\ task' = "cardinal" /\ given' = n
  /\ got' = N!Decomposed(n, EnglishTable)

WriteOrdinals(n) ==
  /\ task' = "ordinals" /\ given' = n
  /\ got' = {N!OrdinalEng(n), N!YearEng(n)} \cup (IF n \in 1..1000 THEN {N!OrdinalNld(n), N!OrdinalPor(n)} ELSE {})

NumberOf(digits) == FoldLeft(LAMBDA n, d : 10 * n + d, 0, digits)

\* A reader of Chinese numerals: a digit waits for its unit, a group for its own;
\* a ten that opens a numeral has no digit.
ReadChinese(signs) ==
  LET read(acc, s) ==
        CASE s.sign = "digit" -> [acc EXCEPT !.digit = s.of]
          [] s.sign = "unit"  -> [acc EXCEPT !.part = @ + Max({acc.digit, 1}) * 10^s.of, !.digit = 0]
          [] s.sign = "group" -> [total |-> acc.total + (acc.part + acc.digit) * 10^(4 * s.of),
                                  part |-> 0, digit |-> 0]
      end == FoldLeft(read, [total |-> 0, part |-> 0, digit |-> 0], signs)
  IN end.total + end.part + end.digit

SumOf(s) == FoldLeft(LAMBDA x, y : x + y, 0, s)
Plain(parts) == SumOf([k \in DOMAIN parts |-> parts[k].key])
ReadParts(parts) ==
  SumOf([k \in DOMAIN parts |->
    parts[k].key * (IF parts[k].times = <<>> THEN 1 ELSE Plain(parts[k].times))])

\* A number written out reads as the same number: groups of four digits with
\* inner zeros in Chinese, greedy table entries with multipliers elsewhere, and
\* the split of ordinals and years (num2chinese, decompose_with_table,
\* expand_ordinal_eng, expand_year_eng).
NumeralsReadBack ==
  CASE task = "chinese"  -> ReadChinese(got) = NumberOf(given)
    [] task = "cardinal" -> ReadParts(got) = given
    [] task = "ordinals" -> \A parts \in got : SumOf(parts) = given
    [] OTHER -> TRUE
-------------------------------------------------------------------------------
(***************************************************************************)
(* The transcript object: two utterances of a parsed file and a new one,   *)
(* edited a few times.  AFra has the code of A and another language.       *)
(***************************************************************************)

D == INSTANCE Document

Speaker(code, lang) == [code |-> code, langs |-> <<lang>>]
A == Speaker("A", "eng")
AFra == Speaker("A", "fra")
B == Speaker("B", "fra")

UttLine(code, pre, tiers) ==
  [kind |-> "utterance", code |-> code, pre |-> pre, words |-> 2, timing |-> None, tiers |-> tiers]
MorGra == <<[label |-> "mor", count |-> 2], [label |-> "gra", count |-> 2]>>
Texts == {[languages |-> langs, participants |-> <<A, B>>,
           lines |-> <<UttLine("A", None, tiers), D!Header("comment"), UttLine("B", pre, <<>>)>>] :
            langs \in {<<"eng", "fra">>, <<"fra", "eng">>}, pre \in {None, "eng"}, tiers \in {<<>>, MorGra}}

OpenDocument(text, speaker) ==
  LET parsed == D!Parse(text)
      heap == Append(parsed.heap, D!NewUtterance(speaker, None, 1, <<1, 2>>))
  IN /\ task' = "document"
     /\ given' = [heap |-> heap, edits |-> {}, left |-> MaxEdits]
     /\ got' = [parsed EXCEPT !.heap = heap]

\* The document after an edit that is called name and is about object u.
Edit(name, u, doc) ==
  /\ given.left > 0 /\ doc # got
  /\ got' = doc
  /\ given' = [given EXCEPT !.edits = @ \cup {<<name, u>>}, !.left = @ - 1]
  /\ task' = task

EditUtterance(u) ==
  \/ \E p \in {A, AFra, B} : Edit("speaker", u, D!SetSpeaker(got, u, p))
  \/ \E t \in {None, <<1, 3>>, <<3, 3>>} : Edit("timing", u, D!SetTiming(got, u, t))
  \/ \E pre \in {None, "eng"}, n \in 1..2 : Edit("text", u, D!SetText(got, u, pre, n))
  \/ \E tier \in {<<"com", 0>>, <<"mor", 1>>, <<"mor", 2>>} :
       Edit("tier", u, D!SetTier(got, u, tier[1], tier[2]))
  \/ \E label \in {"mor", "gra"} : Edit("tier", u, D!DeleteTier(got, u, label))

EditList(u) ==
  \/ Edit("list", u, D!AppendUtterance(got, u))
  \/ \E i \in {-1, 1} : Edit("list", u, D!InsertUtterance(got, i, u))
  \/ \E i \in {0, -1} : Edit("list", u, D!ReplaceUtterance(got, i, u))

EditDocument ==
  \/ \E i \in {0, -1} : Edit("list", 0, D!DeleteUtterance(got, i))
  \/ Edit("list", 0, D!ClearUtterances(got))
  \/ \E media \in {{}, {"linked"}, {"unlinked"}} : Edit("media", 0, D!SetMedia(got, media))

\* What a reader of a document sees of it.
Shown(doc) ==
  [k \in DOMAIN doc.entries |->
     IF D!IsUtterance(doc.entries[k]) THEN [doc.heap[doc.entries[k].of] EXCEPT !.pre = None]
     ELSE doc.entries[k]]

\* After any edits, a document that can be written reads back as the same
\* headers and utterances, with the speaker, language, text, time and tiers each
\* had, and is written the same again; and two speakers of one code meet only
\* in a document a member of which was given another speaker (CHATFile::stringify,
\* UtteranceCollection::append).
DocumentRoundTrips ==
  task = "document" =>
    LET text == D!Stringify(got)
    IN /\ D!Conflicting(got) => \E u \in DOMAIN got.heap : <<"speaker", u>> \in given.edits
       /\ text # Failed => /\ Shown(D!Parse(text)) = Shown(got)
                             /\ D!Stringify(D!Parse(text)) = text

\* "If regenerating the language order changes the file default, serialization
\* adds an explicit language precode where needed to preserve an utterance's
\* meaning": an edit of its time or its tiers does not change the language of an
\* utterance (Utterance::from_ast).
LanguageKept ==
  task = "document" =>
    \A u \in DOMAIN got.heap :
      {<<"speaker", u>>, <<"text", u>>} \cap given.edits = {} => got.heap[u].lang = given.heap[u].lang
-------------------------------------------------------------------------------
(***************************************************************************)
(* What stages share.                                                      *)
(***************************************************************************)

S == INSTANCE Stages

OrderedTasks == {"asr", "utseg", "utr", "fa", "phonetic", "coref"}
Declared == UpTo(OrderedTasks, 3) \cup {d \in [1..4 -> OrderedTasks] : IsInjective(d)}

OrderTasks(declared) ==
  /\ task' = "order" /\ given' = declared
  /\ got' = S!TaskOrder(declared)

Respects(order) ==
  \A i, j \in DOMAIN order : i < j => order[j] \notin S!Requires(order[i])
Ranks(order) == [i \in DOMAIN order |-> S!Rank(given, order[i])]
LexLess(s, t) == \E i \in DOMAIN s : s[i] < t[i] /\ \A j \in 1..(i - 1) : s[j] = t[j]

\* Each task once, after the tasks of the pipeline it requires, and of all such
\* orders the one nearest to the declared one.
OrderIsLeast ==
  task = "order" =>
    LET orders == {o \in SetToSeqs(Range(given)) : Respects(o)}
    IN got \in orders /\ \A o \in orders : ~LexLess(Ranks(o), Ranks(got))

Bare(kinds) == [i \in DOMAIN kinds |-> [kind |-> kinds[i], stage |-> "none"]]
LineLists == {Bare(k) : k \in {<<>>, <<"begin", "end">>, <<"begin", "id", "birth", "media", "utterance", "end">>,
                                <<"begin", "comment", "utterance", "comment", "utterance", "end">>}}

StampStages(lines, stages) ==
  /\ task' = "stamp" /\ given' = [lines |-> lines, stages |-> stages]
  /\ got' = FoldLeft(S!Stamped, lines, stages)

\* Each stage leaves one stamp, however often it ran, before the first utterance
\* and the end, and nothing else of the file moves.
StampsSettle ==
  task = "stamp" =>
    /\ SelectSeq(got, LAMBDA l : l.kind # "stamp") = given.lines
    /\ \A st \in {"fa", "asr"} :
         Cardinality({i \in DOMAIN got : got[i] = S!Stamp(st)}) = Cardinality({st} \cap Range(given.stages))
    /\ \A i, j \in DOMAIN got : i < j => ~(got[i].kind \in {"utterance", "end"} /\ got[j].kind = "stamp")

DecidedTiers == {<<>>, <<S!Tier("mor", <<>>), S!Tier("xalign", <<>>), S!Tier("xrev", <<>>), S!Tier("com", <<>>)>>}
DecidedUtts == [timed : BOOLEAN, tiers : DecidedTiers]

TellDecisions(utts, decisions, level) ==
  /\ task' = "decide" /\ given' = [utts |-> utts, decisions |-> decisions, level |-> level]
  /\ got' = S!Decided(utts, decisions, level)

\* The tiers tell this run's decisions and no others, once each, and a run with
\* none of them leaves the file as it was.
DecisionsTold ==
  task = "decide" =>
    \A u \in DOMAIN given.utts :
      LET mine == {k \in DOMAIN given.decisions : given.decisions[k].utt = u}
          told(label) == Cardinality({i \in DOMAIN got[u].tiers : got[u].tiers[i].label = label})
      IN IF given.level = "none" \/ given.decisions = <<>> THEN got[u] = given.utts[u]
         ELSE /\ S!Undecided(got[u]) = S!Undecided(given.utts[u])
              /\ told("xalign") = IF mine # {} \/ (given.level = "all" /\ given.utts[u].timed) THEN 1 ELSE 0
              /\ told("xrev") = IF \E k \in mine : given.decisions[k].review THEN 1 ELSE 0

\* The days of a date counted from the first of January of the year 1.
Leap(y) == y % 4 = 0 /\ (y % 100 # 0 \/ y % 400 = 0)
MonthLengths(y) == <<31, IF Leap(y) THEN 29 ELSE 28, 31, 30, 31, 30, 31, 31, 30, 31, 30, 31>>
DayNumber(date) ==
  LET y == date[1] - 1
  IN 365 * y + y \div 4 - y \div 100 + y \div 400
       + SumOf(SubSeq(MonthLengths(date[1]), 1, date[2] - 1)) + date[3]
Days == -800..1500 \cup 10900..11020 \cup 47400..47560

StampDate(days) == task' = "date" /\ given' = days /\ got' = N!CivilFromUnixDays(days)

CalendarAgrees ==
  task = "date" => /\ got[2] \in 1..12 /\ got[3] \in 1..MonthLengths(got[1])[got[2]]
                   /\ DayNumber(got) - DayNumber(<<1970, 1, 1>>) = given
-------------------------------------------------------------------------------
(***************************************************************************)
(* What leaves the program: converted audio, tables and files.             *)
(***************************************************************************)

V == INSTANCE Audio WITH Mp3Rates <- <<4, 6, 8>>, FullScale <- 8, MaxLength <- 100

Recordings ==
  {[channels |-> c, rate |-> r, samples |-> s, unit |-> 2] :
     c \in 0..3, r \in {3, 5, 6, 7, 16}, s \in UpTo({-3, -1, 0, 2}, 4)}

ConvertAudio(audio) ==
  /\ task' = "convert" /\ given' = audio
  /\ got' = [wav |-> V!Wav(audio), mp3 |-> V!Mp3Input(audio)]

Channel(pcm, channels, c) == [f \in 1..(Len(pcm) \div channels) |-> pcm[(f - 1) * channels + c]]
Rising(s) == \A i \in 1..(Len(s) - 1) : s[i] <= s[i + 1]

\* Converted audio is as long as its source to half a frame, each channel keeps
\* within the values of its source and rises where that rises, and samples stay
\* in sixteen bits at any volume.
AudioKept ==
  (task = "convert" /\ V!PcmFits(given)) =>
    LET mixed == V!Downmixed(given)
        frames == Len(mixed.samples) \div mixed.channels
    IN /\ got.mp3.channels \in 1..2 /\ got.mp3.rate \in {4, 6, 8}
       /\ 2 * V!Distance((Len(got.mp3.pcm) \div mixed.channels) * given.rate, frames * got.mp3.rate) <= given.rate
       /\ \A c \in 1..mixed.channels :
            LET out == Channel(got.mp3.pcm, mixed.channels, c)
                source == Channel(V!Pcm16(mixed), mixed.channels, c)
            IN /\ \A f \in DOMAIN out : out[f] \in Min(Range(source))..Max(Range(source))
               /\ Rising(source) => Rising(out)
               /\ Range(out) \subseteq -8..7
       /\ got.wav # Failed => got.wav.pcm = V!Pcm16(given) /\ got.wav.data = 2 * Len(given.samples)

O == INSTANCE Outputs WITH Null <- None

Cells == UpTo({"x", "comma", "quote", "newline"}, 2)
Table(c, d) ==
  [schema |-> <<<<"c">>, <<"d", "comma">>>>,
   rows |-> <<[k \in {<<"c">>, <<"d", "comma">>} |-> IF k = <<"c">> THEN c ELSE d],
              [k \in {<<"d", "comma">>, <<"e">>} |-> IF k = <<"e">> THEN c ELSE None]>>]

WriteTable(c, d) == task' = "csv" /\ given' = <<c, d>> /\ got' = O!Csv(Table(c, d))

\* A reader of CSV: what is between quotes is literal, a quote there is doubled.
ReadCsv(text) ==
  LET read(acc, x) ==
        LET more == [acc EXCEPT !.cell = Append(@, x), !.closed = FALSE]
        IN CASE acc.quoted /\ x = "quote" -> [acc EXCEPT !.quoted = FALSE, !.closed = TRUE]
             [] acc.quoted -> more
             [] x = "quote" -> [acc EXCEPT !.quoted = TRUE, !.closed = FALSE,
                                           !.cell = IF acc.closed THEN Append(@, x) ELSE @]
             [] x = "comma" -> [acc EXCEPT !.row = Append(@, acc.cell), !.cell = <<>>, !.closed = FALSE]
             [] x = "newline" -> [rows |-> Append(acc.rows, Append(acc.row, acc.cell)), row |-> <<>>,
                                  cell |-> <<>>, quoted |-> FALSE, closed |-> FALSE]
             [] OTHER -> more
  IN FoldLeft(read, [rows |-> <<>>, row |-> <<>>, cell |-> <<>>, quoted |-> FALSE, closed |-> FALSE], text)

TablesReadBack ==
  task = "csv" =>
    ReadCsv(got).rows = <<<<<<"c">>, <<"d", "comma">>>>, given, <<<<>>, <<>>>>>>

Lines == <<[bullet |-> <<1, 2>>, wor |-> TRUE, times |-> TRUE], [bullet |-> <<>>, wor |-> FALSE, times |-> FALSE]>>
Chat(valid) == [kind |-> "chat", source |-> "s", valid |-> valid, text |-> IF valid THEN Lines ELSE <<>>]
FailedWith(partial) == [kind |-> "failed", source |-> "s", partial |-> partial]
Items == {Chat(TRUE), Chat(FALSE), [kind |-> "metrics", source |-> "s", table |-> Table(<<>>, <<>>)],
          [kind |-> "media", source |-> "s"], FailedWith(O!Nil), FailedWith(Chat(TRUE))}

\* A program that writes an outcome, and tries once more.
WriteOutputs(items, strip) ==
  LET outcome == O!Outcome(O!List(items))
      first == O!Write(outcome, [n \in {} |-> <<>>], strip)
  IN /\ task' = "write" /\ given' = [outcome |-> outcome, strip |-> strip]
     /\ got' = [first |-> first, again |-> O!Write(first.outcome, first.files, strip)]

\* A value that was written whole left an error log iff it is a failure; no
\* transcript that does not parse is ever written, one without word timing, also
\* one inside a failure, has the bullets it had; and an outcome is written once.
FailuresLeaveLogs ==
  task = "write" =>
    LET files == got.first.files IN
    /\ got.first.ok => (given.outcome.failed <=> "error.log" \in DOMAIN files)
    /\ "path" \in DOMAIN files =>
         /\ [u \in DOMAIN files["path"] |-> files["path"][u].bullet] = [u \in DOMAIN Lines |-> Lines[u].bullet]
         /\ given.strip <=> \A u \in DOMAIN Lines : ~files["path"][u].wor /\ ~files["path"][u].times
    /\ ~got.again.ok /\ got.again.files = files

\* The output of a task is what a definition of another kind says of its input:
\* the most like pairs of an alignment, the ranges of the full alignment, the
\* number a numeral reads as, the least of the orders, the calendar, the cells a
\* reader finds (alignment/mod.rs, utr/strategy.rs:409, asr/num2chinese.rs,
\* asr/num2text, pipeline.rs:965, utils.rs:557, decisions.rs:380, convert.rs,
\* base.rs:617).
MatchesReference ==
  /\ AlignerOptimal /\ FastPathAgrees /\ NumeralsReadBack /\ CutAtGroups /\ LanguagesRanked
  /\ OrderIsLeast /\ StampsSettle /\ DecisionsTold /\ CalendarAgrees
  /\ AudioKept /\ TablesReadBack /\ FailuresLeaveLogs
-------------------------------------------------------------------------------
Init == task = "none" /\ given = <<>> /\ got = <<>>

Given ==
  \/ \E p \in UpTo({"a", "b"}, 4), r \in UpTo({"a", "b", "B"}, 4) : AlignWords(p, r)
  \/ \E main \in [1..2 -> MainUtts], gold \in [1..3 -> GoldUtts] : CompareFiles(main, gold)
  \/ \E utts \in UtrFiles, words \in HeardWords : RecoverTimes(utts, words)
  \/ \E lang \in {"eng", "yue", "zho"} : \E segs \in Heards(lang) : TranscribeAudio(segs, lang)
  \/ \E digits \in DigitSeqs : WriteChinese(digits)
  \/ \E n \in SmallNumbers : WriteCardinal(n) \/ WriteOrdinals(n)
  \/ \E chunk \in UpTo({"a", "b"}, 3), groups \in UpTo({0, 1}, 3) : CutChunk(chunk, groups)
  \/ \E langs \in UpTo({"eng", "fra", "spa", "none"}, 5), p \in {"eng", "yue"} : RankLanguages(langs, p)
  \/ \E declared \in Declared : OrderTasks(declared)
  \/ \E lines \in LineLists, stages \in UpTo({"fa", "asr"}, 3) : StampStages(lines, stages)
  \/ \E utts \in [1..2 -> DecidedUtts], decisions \in UpTo([utt : 1..2, review : BOOLEAN], 2),
        level \in {"none", "low", "all"} : TellDecisions(utts, decisions, level)
  \/ \E days \in Days : StampDate(days)
  \/ \E audio \in Recordings : ConvertAudio(audio)
  \/ \E c, d \in Cells : WriteTable(c, d)
  \/ \E items \in UpTo(Items, 3), strip \in BOOLEAN : WriteOutputs(items, strip)
  \/ \E text \in Texts, p \in {AFra, B} : OpenDocument(text, p)

Next ==
  \/ task = "none" /\ Given
  \/ /\ task = "document"
     /\ (\E u \in 1..3 : EditUtterance(u) \/ EditList(u)) \/ EditDocument

Spec == Init /\ [][Next]_vars
===============================================================================
