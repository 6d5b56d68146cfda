SPECIFICATION NodeSpec
CONSTANTS
  Grain = 2
  Interval = 3
  Guard = 2
  Frames = 4
  Wrap = 16
  MaxLag = 2
INVARIANTS
  SpacingKept
  ReplyPace
  EachPollAnswered
