SPECIFICATION FairSpec
CONSTANTS
  task1 = task1
  timer1 = timer1
  Tasks = {task1}
  Main = Main
  Daemon = Daemon
  Isr = Isr
  Timers = {timer1}
  NoArg = NoArg
  Length = 2
  CmdLength = 1
  MaxPosts <- MCMaxPosts
INVARIANTS TypeOK InOrder NoCommandAfterDelete StopIsFinal NoLostWakeup
PROPERTIES AcceptedIsCalled CallsReturn
CHECK_DEADLOCK FALSE
