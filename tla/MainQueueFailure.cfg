SPECIFICATION Spec
CONSTANTS
  task1 = task1
  timer1 = timer1
  Tasks = {task1}
  Main = Main
  Daemon = Daemon
  Isr = Isr
  Timers = {timer1}
  NoArg = NoArg
  Length = 2
  CmdLength = 1
  MaxPosts <- MCTaskOnly
INVARIANT FailureMeansNotSent
CHECK_DEADLOCK FALSE
