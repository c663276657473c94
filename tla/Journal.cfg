\* Four events, two kills: a repair appends behind a line an earlier kill tore.
SPECIFICATION JournalSpec
CONSTANTS
  MaxEvents = 4
  MaxKills = 2
INVARIANT OnlyLastTorn
CHECK_DEADLOCK FALSE
