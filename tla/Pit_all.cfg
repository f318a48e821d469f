SPECIFICATION FairSpec
CONSTANTS
  Counters = {"tick", "refresh", "speaker", "watchdog"}
  Base = 2
  Modulus = 18
  Late = 1
  Words <- AllWords
  Bytes = {1}
INVARIANTS TimerFollows ReadsAgree
PROPERTIES StopKeepsCount TicksGoOn
