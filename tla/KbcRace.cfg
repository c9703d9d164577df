SPECIFICATION KbcFairSpec
CONSTANTS
  Keys = {"right", "fn", "a"}
  Cmds = {"dis_kb", "ena_kb", "code_set", "read_id", "default_dis", "resend", "reset"}
  KbLen = 3
  FromLen = 2
  Retries = 1
  MaxSlow = 3
  MaxWork = 4
INVARIANTS NoStuckKey RepeatsHeldKey DisabledIsQuiet AnswersMatch
PROPERTIES CommandsAnswered KeyWakesHost
CHECK_DEADLOCK FALSE
