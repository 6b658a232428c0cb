SPECIFICATION Spec
CONSTANTS
  None = None
  Supported = {"eng", "fra"}
  Labels <- LabelOrder
  Par <- Pars
  Tasks = {"utseg", "morphosyntax", "phonetic", "translate", "coref", "speaker", "ai"}
  Files <- SmallFiles
  Replies <- SmallReplies
  Unwritable = {"x"}
  Window = 2
  Scale = 4
  MaxStages = 3
INVARIANTS StagesAgree BarWithinTotal
PROPERTIES SoundStaysSound SubstanceKept VoicesToldApart
CHECK_DEADLOCK FALSE
