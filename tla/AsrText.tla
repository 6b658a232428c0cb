-------------------------------- MODULE AsrText --------------------------------
(***************************************************************************)
(* From what a recogniser heard to utterances                              *)
(* (src/crates/batchalign/batchalign-core/src/asr/: compounds, prepare,    *)
(* expand, chunking, utterance, cleanup).                                  *)
(*                                                                         *)
(* A text is a sequence of atoms: a run of letters that nothing splits, a  *)
(* digit, a space or a mark, told apart by Class.  An element or a word is *)
(* [text, start, end, kind] with times in milliseconds, NoTime if unknown.    *)
(* Languages are "eng", "yue", "zho" and "other".                          *)
(***************************************************************************)
EXTENDS Integers, SequencesExt, FiniteSetsExt

CONSTANTS
  Class,        \* atom -> letter cjk digit space end comma quote inverted hyphen percent filler
                \*         open close (of a marker, < and >) illegal
  Lower, Upper, \* atom -> atom
  Ascii,        \* atom -> atom: the plain form of a mark
  Protected,    \* texts a number rule keeps whole, as 3 . 5
  Number,       \* text -> text: the numbers expand_number spells out
  PercentWord,  \* language -> text, <<>> for none
  Compounds,    \* the pairs of texts written as one
  Titles,       \* texts as dr . whose full stops go
  Respelled,    \* text -> text: filled pauses and the words spelt out
  Capitals,     \* the texts apply_i_capitalization_to_words rewrites
  Starters,     \* LONG_PAUSE_SENTENCE_STARTERS
  MaxTurnLen,   \* MAX_TURN_LEN
  LongPause     \* LONG_PAUSE_SPLIT_MS

NoTime == -1
Mapped(f, x) == IF x \in DOMAIN f THEN f[x] ELSE x
LowerText(t) == [i \in DOMAIN t |-> Mapped(Lower, t[i])]
Alike(s, t) == LowerText(s) = LowerText(t)

Is(a, classes) == Class[a] \in classes
Word(t, s, e) == [text |-> t, start |-> s, end |-> e, kind |-> "regular"]
FlatMap(s, f(_)) == FlattenSeq([i \in DOMAIN s |-> f(s[i])])
IsEnd(t) == Len(t) = 1 /\ Is(t[1], {"end"})
IsComma(t) == Len(t) = 1 /\ Is(t[1], {"comma"})
IsPunct(t) == IsEnd(t) \/ IsComma(t)
IsFiller(t) == t # <<>> /\ Is(t[1], {"filler"})
-------------------------------------------------------------------------------
(***************************************************************************)
(* prepare_words_pre_expansion.                                            *)
(***************************************************************************)

\* merge_compounds: two elements become one, with the times of the first.
MergeCompounds(elems) ==
  LET M[i \in 1..(Len(elems) + 2)] ==
        IF i > Len(elems) THEN <<>>
        ELSE IF i < Len(elems) /\ <<elems[i].text, elems[i + 1].text>> \in Compounds
        THEN <<[elems[i] EXCEPT !.text = @ \o elems[i + 1].text]>> \o M[i + 2]
        ELSE <<elems[i]>> \o M[i + 1]
  IN M[1]

\* strip_english_title_periods_on_elements, and the same on words.
StripTitles(words, lang) ==
  [i \in DOMAIN words |->
     IF lang = "eng" /\ LowerText(words[i].text) \in Titles
     THEN [words[i] EXCEPT !.text = SelectSeq(@, LAMBDA a : ~Is(a, {"end"}))]
     ELSE words[i]]

\* <pause>, and whatever else begins and ends as a marker does.
IsMarker(t) == t # <<>> /\ Is(t[1], {"open"}) /\ Is(Last(t), {"close"})

\* A mutant of ExtractTimed: a text that begins as a marker does is one.
ExtractTimedByStart(elems) ==
  FlatMap(elems, LAMBDA e :
    IF e.text = <<>> \/ Is(Head(e.text), {"open"}) THEN <<>>
    ELSE IF e.end <= e.start THEN <<Word(e.text, NoTime, NoTime)>>
    ELSE <<Word(e.text, e.start, e.end)>>)

\* extract_timed_words: a marker is no word, and a time that does not last no time.
ExtractTimed(elems) ==
  FlatMap(elems, LAMBDA e :
    IF e.text = <<>> \/ IsMarker(e.text) THEN <<>>
    ELSE IF e.end <= e.start THEN <<Word(e.text, NoTime, NoTime)>>
    ELSE <<Word(e.text, e.start, e.end)>>)

\* trim_word_boundaries: marks at the two ends go, and a word of nothing else.
TrimBoundaries(words, classes) ==
  FlatMap(words, LAMBDA w :
    LET kept == {i \in DOMAIN w.text : ~Is(w.text[i], classes)}
    IN IF kept = {} THEN <<>>
       ELSE <<[w EXCEPT !.text = SubSeq(@, Min(kept), Max(kept))]>>)

Breaks(a) == Is(a, {"space", "end", "comma", "inverted"})

\* protected_prefix_len: the number a text begins with, up to a break.
ProtectedPrefix(t) ==
  LET fits == {n \in 1..Len(t) : SubSeq(t, 1, n) \in Protected /\ (n = Len(t) \/ Breaks(t[n + 1]))}
  IN IF fits = {} THEN 0 ELSE Max(fits)

Piece(t, sep) == [text |-> t, sep |-> sep]

\* The pieces of a text: spaces cut and go, marks cut and stay.
Pieces(t) ==
  LET P[i \in 1..(Len(t) + 1)] ==
        LET rest == SubSeq(t, i, Len(t))
            p == ProtectedPrefix(rest)
            run == Min({j \in i..(Len(t) + 1) : j = Len(t) + 1 \/ Breaks(t[j])})
        IN IF i > Len(t) THEN <<>>
           ELSE IF p > 0 THEN <<Piece(SubSeq(rest, 1, p), FALSE)>> \o P[i + p]
           ELSE IF run > i THEN <<Piece(SubSeq(t, i, run - 1), FALSE)>> \o P[run]
           ELSE IF Is(t[i], {"space", "inverted"}) THEN P[i + 1]
           ELSE <<Piece(<<Mapped(Ascii, t[i])>>, TRUE)>> \o P[i + 1]
  IN P[1]

\* normalize_cantonese, and cantonese_char_tokens of a text of characters only.
Cantonese(t, lang) == IF lang = "yue" THEN [i \in DOMAIN t |-> Mapped(Ascii, t[i])] ELSE t

ByCharacter(piece, lang) ==
  LET t == piece.text IN
  IF /\ lang = "yue" /\ ~piece.sep /\ Len(t) > 1
     /\ \E i \in DOMAIN t : Is(t[i], {"cjk"})
     /\ \A i \in DOMAIN t : ~Is(t[i], {"letter", "digit"})
  THEN [i \in DOMAIN t |-> Piece(<<Cantonese(t, lang)[i]>>, FALSE)]
  ELSE <<piece>>

\* A mutant of Share: the end of one piece taken a piece too far.
ShareOverrun(start, span, consumed, total) == start + (span * (consumed + 1)) \div total

\* Where in the span of a word its first consumed characters end.
Share(start, span, consumed, total) == start + (span * consumed) \div total

\* The time of a word goes to its pieces by their length; a mark gets none.
Spread(word, pieces) ==
  LET size(k) == IF pieces[k].sep THEN 0 ELSE Len(pieces[k].text)
      before(k) == MapThenSumSet(size, 1..(k - 1))
      total == before(Len(pieces) + 1)
      timed == word.start # NoTime /\ word.end > word.start /\ total > 0
      at(k) == Share(word.start, word.end - word.start, before(k), total)
  IN [k \in DOMAIN pieces |->
        IF pieces[k].sep \/ ~timed THEN [Word(pieces[k].text, NoTime, NoTime) EXCEPT !.kind = word.kind]
        ELSE [Word(pieces[k].text, at(k), at(k + 1)) EXCEPT !.kind = word.kind]]

\* split_chunk_word.
SplitChunkWord(word, lang) ==
  LET pieces == FlatMap(Pieces(word.text), LAMBDA p : ByCharacter(p, lang))
  IN IF pieces = <<Piece(word.text, FALSE)>> THEN <<word>> ELSE Spread(word, pieces)

\* split_multiword_tokens: a word that begins with a hyphen joins the one before.
SplitMultiword(words, lang) ==
  LET step(acc, w) ==
        IF Is(w.text[1], {"hyphen"}) /\ acc # <<>>
        THEN Front(acc) \o <<[Last(acc) EXCEPT !.text = @ \o w.text, !.end = w.end]>>
        ELSE acc \o SplitChunkWord(w, lang)
  IN FoldLeft(step, <<>>, words)

\* split_percent_suffix_words: the digits and the language's word for the sign.
SplitPercent(words, lang) ==
  FlatMap(words, LAMBDA w :
    LET digits == Front(w.text)
        cut == Share(w.start, w.end - w.start, Len(digits), Len(w.text))
        timed == w.start # NoTime /\ w.end > w.start
        percent == Word(PercentWord[lang], IF timed THEN cut ELSE NoTime, IF timed THEN w.end ELSE NoTime)
    IN IF \/ ~Is(Last(w.text), {"percent"}) \/ digits = <<>>
          \/ \E i \in DOMAIN digits : ~Is(digits[i], {"digit"})
       THEN <<w>>
       ELSE <<Word(digits, w.start, IF timed THEN cut ELSE w.end)>>
              \o (IF PercentWord[lang] = <<>> THEN <<>> ELSE <<percent>>))

Prepared(elems, lang) ==
  LET timed == ExtractTimed(StripTitles(MergeCompounds(elems), lang))
      bare == TrimBoundaries(TrimBoundaries(timed, {"comma"}), {"quote"})
  IN SplitPercent(TrimBoundaries(SplitMultiword(bare, lang), {"quote"}), lang)

\* The runs of a text between its spaces.
BySpace(t) ==
  LET space(i) == i \notin DOMAIN t \/ Is(t[i], {"space"})
      from == SetToSortSeq({i \in DOMAIN t : ~space(i) /\ space(i - 1)}, <)
      upto(i) == Min({j \in i..Len(t) : space(j + 1)})
  IN [k \in DOMAIN from |-> Piece(SubSeq(t, from[k], upto(from[k])), FALSE)]

\* expand_numbers_in_words: the time of a number goes to the words it becomes.
ExpandNumbers(words) ==
  FlatMap(words, LAMBDA w :
    LET t == Mapped(Number, w.text)
    IN IF \A i \in DOMAIN t : ~Is(t[i], {"space"}) THEN <<[w EXCEPT !.text = t]>>
       ELSE Spread(w, BySpace(t)))
-------------------------------------------------------------------------------
(***************************************************************************)
(* finalize_words_to_chunks.                                               *)
(***************************************************************************)

\* apply_english_transcribe_rules_pre_retokenize.
EnglishWords(words, lang) ==
  StripTitles([i \in DOMAIN words |->
    IF lang = "eng" /\ LowerText(words[i].text) \in Capitals
    THEN [words[i] EXCEPT !.text = [LowerText(@) EXCEPT ![1] = Upper[@]]] ELSE words[i]], lang)

\* split_long_turns.
LongTurns(words) ==
  [k \in 1..Max({1, (Len(words) + MaxTurnLen - 1) \div MaxTurnLen}) |->
     SubSeq(words, (k - 1) * MaxTurnLen + 1, Min({k * MaxTurnLen, Len(words)}))]

\* long_pause_starts_new_utterance.
PauseStarts(prev, next, len) ==
  /\ len >= 2
  /\ next.start # NoTime
  /\ next.start - prev.end >= LongPause
  /\ LowerText(SelectSeq(next.text, LAMBDA a : Is(a, {"letter", "cjk", "digit"}))) \in Starters

\* split_on_long_pauses.
PauseSplit(chunk) ==
  LET step(acc, w) ==
        LET cut == acc.prev # <<>> /\ PauseStarts(acc.prev[1], w, Len(acc.cur))
        IN [done |-> IF cut THEN Append(acc.done, acc.cur) ELSE acc.done,
            cur |-> IF cut THEN <<w>> ELSE Append(acc.cur, w),
            prev |-> IF w.start # NoTime /\ w.end # NoTime THEN <<w>> ELSE acc.prev]
      end == FoldLeft(step, [done |-> <<>>, cur |-> <<>>, prev |-> <<>>], chunk)
  IN IF chunk = <<>> THEN <<>> ELSE Append(end.done, end.cur)

Chunks(words, lang) ==
  LET plain == [i \in DOMAIN words |-> [words[i] EXCEPT !.text = Cantonese(@, lang)]]
  IN FlatMap(LongTurns(EnglishWords(plain, lang)), PauseSplit)

\* split_prepared_chunk_by_assignments: cut where the group changes.
ByAssignment(chunk, groups) ==
  LET cuts == {i \in 2..Len(chunk) : groups[i] # groups[i - 1]}
      from == SetToSortSeq({1} \cup cuts, <)
      upto(k) == IF k = Len(from) THEN Len(chunk) ELSE from[k + 1] - 1
  IN IF Len(chunk) <= 1 \/ Len(groups) # Len(chunk) THEN <<chunk>>
     ELSE [k \in DOMAIN from |-> SubSeq(chunk, from[k], upto(k))]
-------------------------------------------------------------------------------
(***************************************************************************)
(* retokenize: utterances end at a mark, and one that has none gets a stop.*)
(***************************************************************************)

Stop == <<".">>

\* A word that ends in a mark leaves the mark as a word of its own, untimed.
EndCut(w) ==
  IF IsEnd(w.text) THEN <<[w EXCEPT !.text = <<Mapped(Ascii, @[1])>>]>>
  ELSE IF w.text # <<>> /\ Is(Last(w.text), {"end"})
  THEN <<Word(Front(w.text), w.start, w.end), Word(<<Mapped(Ascii, Last(w.text))>>, NoTime, NoTime)>>
  ELSE <<w>>

WithoutCommas(words) ==
  LET kept == {i \in DOMAIN words : ~IsComma(words[i].text)}
  IN IF kept = {} THEN <<>> ELSE SubSeq(words, 1, Max(kept))

\* A mutant of Closed: what follows the last mark is left out.
ClosedAtMark(done, rest) == done

Closed(done, rest) ==
  IF WithoutCommas(rest) = <<>> THEN done
  ELSE Append(done, Append(WithoutCommas(rest), Word(Stop, NoTime, NoTime)))

Retokenize(words) ==
  LET step(acc, w) ==
        LET cur == acc.cur \o EndCut(w)
        IN IF IsEnd(Last(cur).text) THEN [done |-> Append(acc.done, cur), cur |-> <<>>]
           ELSE [acc EXCEPT !.cur = cur]
      end == FoldLeft(step, [done |-> <<>>, cur |-> <<>>], words)
  IN Closed(end.done, end.cur)
-------------------------------------------------------------------------------
(***************************************************************************)
(* finalize_utterances, on the words of one utterance.                     *)
(***************************************************************************)

\* apply_disfluency_replacements.
Respell(words, lang) ==
  [i \in DOMAIN words |->
     IF lang = "eng" THEN [words[i] EXCEPT !.text = IF LowerText(@) \in DOMAIN Respelled
                                                    THEN Respelled[LowerText(@)] ELSE @]
     ELSE words[i]]

MinGram(lang) == IF lang \in {"yue", "zho"} THEN 2 ELSE 1

\* A mutant of Repeated: the second of two equal runs is marked.
RepeatedLast(texts, n, k) ==
  \E b \in 1..k : k < b + 2 * n /\ k >= b + n /\ b + 2 * n - 1 <= Len(texts)
                  /\ \A i \in 0..(n - 1) : Alike(texts[b + i], texts[b + n + i])

\* Word k is in a run of n words that the n words after it repeat.
Repeated(texts, n, k) ==
  \E b \in 1..k : k < b + n /\ b + 2 * n - 1 <= Len(texts)
                  /\ \A i \in 0..(n - 1) : Alike(texts[b + i], texts[b + n + i])

\* apply_retrace_detection: what is said again at once is a retrace, fillers not.
Retraced(words, lang) ==
  LET content == SelectSeq([i \in DOMAIN words |-> i], LAMBDA i : ~IsPunct(words[i].text))
      texts == [k \in DOMAIN content |-> words[content[k]].text]
      marked == {content[k] : k \in {l \in DOMAIN content : /\ ~IsFiller(texts[l])
                  /\ \E n \in MinGram(lang)..(Len(texts) - 1) : Repeated(texts, n, l)}}
  IN [i \in DOMAIN words |->
        IF i \notin marked THEN words[i]
        ELSE [words[i] EXCEPT !.kind = "retrace",
                !.text = SelectSeq(@, LAMBDA a : ~Is(a, {"end", "comma"}))]]

\* apply_utterance_initial_capitalization: the first word that is not a retrace,
\* a filler or a mark.
Capitalised(words, lang) ==
  LET able == {i \in DOMAIN words : /\ words[i].kind # "retrace" /\ words[i].text # <<>>
                                    /\ ~IsFiller(words[i].text) /\ ~IsPunct(words[i].text)}
  IN IF lang # "eng" \/ able = {} THEN words
     ELSE [words EXCEPT ![Min(able)].text[1] = Mapped(Upper, @)]

\* sanitize_chat_illegal_word.
Sanitized(words) ==
  FlatMap(words, LAMBDA w :
    LET t == SelectSeq(w.text, LAMBDA a : ~Is(a, {"illegal", "percent", "open", "close"}))
    IN IF t = <<>> THEN <<>> ELSE <<[w EXCEPT !.text = t]>>)

Finalized(words, lang) ==
  Sanitized(Capitalised(Retraced(Respell(words, lang), lang), lang))

\* process_raw_asr, on monologues [speaker, elements].
ProcessRawAsr(monologues, lang) ==
  FlatMap(monologues, LAMBDA m :
    LET utts == FlatMap(Chunks(ExpandNumbers(Prepared(m.elements, lang)), lang), Retokenize)
        done == [u \in DOMAIN utts |-> [speaker |-> m.speaker, words |-> Finalized(utts[u], lang)]]
    IN SelectSeq(done, LAMBDA u : u.words # <<>>))
===============================================================================
