\* 32 IDs (2 bits, 1 bit, 2 bits) in words of 6 bits, written in base 5: the
\* largest ID has three digits, and three digits can overflow a word.  Numbers
\* are ternary.  A second has 2 ms, a minute 2 s, an hour 2 min and a day 2 h;
\* the last day is after the first century without a leap day, and the word for
\* milliseconds ends with it.  Commands end.
SPECIFICATION CliSpec
CONSTANTS
  TS_MASK = 3
  MID_MASK = 1
  SEQ_MASK = 3
  BASE = 5
  MAX_LEN = 3
  WORD = 64
  MaxText = 4
  RADIX = 3
  WINDOW_MS = 2
  SECOND_MS = 2
  MINUTE_S = 2
  HOUR_S = 4
  DAY_S = 8
  MS_WORD = 768016
  DefaultEpoch = 1
  MaxClock = 40
  MaxArguments = 4
  LastDay = 48000
  CommandLines <- MCCommandLines
INVARIANTS RoundTrip OneFormPerId RefusalsAreTrue EarlierIsNoLonger ExitCodeTells DatesAreRight
PROPERTIES GenerateEnds
CHECK_DEADLOCK FALSE
