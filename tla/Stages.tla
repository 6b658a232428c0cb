-------------------------------- MODULE Stages --------------------------------
(***************************************************************************)
(* What stages share: the order a pipeline runs them in (Task::requires,   *)
(* pipeline.rs), the comment each leaves in the file it processed          *)
(* (utils.rs), and the tiers that tell a reviewer what it decided          *)
(* (decisions.rs).                                                         *)
(***************************************************************************)
EXTENDS Integers, SequencesExt, FiniteSetsExt

\* What a task comes after, when both are in the pipeline.
Requires(t) ==
  CASE t = "utseg" -> {"asr"}
    [] t = "fa" -> {"utseg", "utr"}
    [] t = "morphosyntax" -> {"utseg"}
    [] t = "phonetic" -> {"utseg", "utr", "fa"}
    [] t \in {"coref", "translate"} -> {"morphosyntax"}
    [] OTHER -> {}

\* expand_with_requires: what a task requires is not added to the pipeline.
TaskSet(declared) == Range(declared)

Rank(declared, t) == SelectInSeq(declared, LAMBDA u : u = t)
Earliest(declared, ready) == CHOOSE t \in ready : \A u \in ready : Rank(declared, t) <= Rank(declared, u)

\* A mutant of Freed: a task is ready once one task it requires has run.
FreedByAny(tasks, picked, done) == {t \in tasks \ done : picked \in Requires(t)}

\* What becomes ready when picked is the last of done.
Freed(tasks, picked, done) ==
  {t \in tasks : picked \in Requires(t) /\ Requires(t) \cap tasks \subseteq done}

\* topo_sort_stable: of the ready tasks the one declared first is next.
TaskOrder(declared) ==
  LET tasks == TaskSet(declared)
      step(acc, n) ==
        LET picked == Earliest(declared, acc.ready)
            out == Append(acc.out, picked)
        IN IF acc.ready = {} THEN acc
           ELSE [out |-> out,
                 ready |-> (acc.ready \ {picked}) \cup Freed(tasks, picked, Range(out))]
      start == [out |-> <<>>, ready |-> {t \in tasks : Requires(t) \cap tasks = {}}]
  IN FoldLeft(step, start, [n \in 1..Cardinality(tasks) |-> n]).out
-------------------------------------------------------------------------------
\* A line is [kind, stage], with a stage where it is a stamp.

Stamp(stage) == [kind |-> "stamp", stage |-> stage]
Lines(lines, kinds) == {i \in DOMAIN lines : lines[i].kind \in kinds}
AboutParticipants == {"id", "birth"}     \* and birthplaces and first languages

StampPosition(lines) ==
  IF Lines(lines, AboutParticipants) # {} THEN Max(Lines(lines, AboutParticipants)) + 1
  ELSE IF Lines(lines, {"utterance"}) # {} THEN Min(Lines(lines, {"utterance"}))
  ELSE IF Lines(lines, {"end"}) # {} THEN Max(Lines(lines, {"end"}))
  ELSE Len(lines) + 1

\* stamp_provenance: a stage run again rewrites the first stamp it left.
Stamped(lines, stage) ==
  LET old == SelectInSeq(lines, LAMBDA l : l = Stamp(stage))
  IN IF old > 0 THEN ReplaceAt(lines, old, Stamp(stage))
     ELSE InsertAt(lines, StampPosition(lines), Stamp(stage))
-------------------------------------------------------------------------------
\* An utterance here is [timed, tiers]; a decision is [utt, review].

Undecided(utt) ==
  [utt EXCEPT !.tiers = SelectSeq(@, LAMBDA t : t.label \notin {"xalign", "xrev"})]
Tier(label, content) == [label |-> label, content |-> content]

\* inject_decision_tiers.
DecisionTiers(timed, mine, level) ==
  IF mine # <<>>
  THEN <<Tier("xalign", mine)>>
         \o (IF \E k \in DOMAIN mine : mine[k].review THEN <<Tier("xrev", <<>>)>> ELSE <<>>)
  ELSE IF level = "all" /\ timed THEN <<Tier("xalign", <<>>)>> ELSE <<>>
Decided(utts, decisions, level) ==
  IF level = "none" \/ decisions = <<>> THEN utts
  ELSE [u \in DOMAIN utts |->
         LET mine == SelectSeq(decisions, LAMBDA d : d.utt = u)
         IN [Undecided(utts[u]) EXCEPT !.tiers = @ \o DecisionTiers(utts[u].timed, mine, level)]]
===============================================================================
