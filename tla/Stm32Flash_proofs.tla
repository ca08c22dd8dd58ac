--------------------------- MODULE Stm32Flash_proofs ---------------------------
(***************************************************************************)
(* Proofs about Stm32Flash: the mutexes keep a session with the boot       *)
(* loader apart from everything else, what comes from the boot loader is   *)
(* read by nobody else, and what has been acknowledged has been written,   *)
(* for any number of tasks, images of any size and a chip of any size.     *)
(***************************************************************************)
EXTENDS Stm32Flash, TLAPS

SessionSteps == {"configBootLoader", "send", "await", "open", "readFile", "leave"}
BothSteps    == SessionSteps \cup {"locked", "config", "leaveConfig"}
ReadSteps    == BothSteps \cup {"lockWrite", "read", "receive"}
WriteSteps   == BothSteps \cup {"writeCheck", "writeSend"}

\* A mutex belongs to exactly the task that is at a step under it.
Owners ==
  \A t \in Tasks : /\ (stm32_read_mutex = t) <=> (pc[t] \in ReadSteps)
                   /\ (stm32_write_mutex = t) <=> (pc[t] \in WriteSteps)

\* In a session the chip runs its boot loader, and no text has reached it.
SessionOK ==
  /\ chip = [mode |-> chip.mode, stage |-> chip.stage, in |-> chip.in, at |-> chip.at,
             intruded |-> chip.intruded]
  /\ \A t \in Tasks : pc[t] \in SessionSteps =>
        chip.mode = "bootloader" /\ chip.intruded = FALSE

\* The queue exists when the line is configured for the firmware.
LineOK ==
  /\ uart0_queue # NULL => uart0_queue \in Seq(Events) /\ Len(uart0_queue) <= QueueLen
  /\ (uart0_queue # NULL) <=> (stm32_mode = "FIRMWARE")

\* Outside of sessions the boot pin is low and the line not that of the boot loader.
PinOK ==
  /\ up => boot_pin = 0 \/ \E t \in Tasks : pc[t] \in SessionSteps
  /\ stm32_mode = "BOOTLOADER" => \E t \in Tasks : pc[t] \in SessionSteps \cup {"leaveConfig"}
  /\ ~up => stm32_mode = "NONE" /\ \A t \in Tasks : pc[t] = "idle"

IInv == /\ pc \in [Tasks -> Steps] /\ Owners /\ SessionOK /\ LineOK /\ PinOK

\* What is posted to a queue leaves it a queue, within its length.
LEMMA PostedIsQueue ==
  ASSUME NEW event \in Events, NEW n \in Nat, LineOK
  PROVE  /\ (Posted(event, n) # NULL) <=> (uart0_queue # NULL)
         /\ Posted(event, n) # NULL => /\ Posted(event, n) \in Seq(Events)
                                      /\ Len(Posted(event, n)) <= QueueLen
<1>1. CASE uart0_queue = NULL
  BY <1>1 DEF Posted
<1>2. CASE uart0_queue # NULL
  <2> DEFINE room == QueueLen - Len(uart0_queue)
             k    == IF n < room THEN n ELSE room
             more == [i \in 1 .. k |-> event]
  <2>1. uart0_queue \in Seq(Events) /\ Len(uart0_queue) \in Nat /\ QueueLen \in Nat
    BY <1>2, UartConstantsOK DEF LineOK
  <2>2. k \in Nat /\ k <= QueueLen - Len(uart0_queue)
    BY <1>2, <2>1 DEF LineOK
  <2>3. more \in Seq(Events) /\ Len(more) = k
    <3>1. more \in [1 .. k -> Events]
      OBVIOUS
    <3>2. QED
      BY <2>2, <3>1
  <2>4. Posted(event, n) = uart0_queue \o more
    BY <1>2 DEF Posted
  <2>5. /\ uart0_queue \o more \in Seq(Events)
        /\ Len(uart0_queue \o more) = Len(uart0_queue) + Len(more)
    <3> HIDE DEF more
    <3>1. QED
      BY <2>1, <2>3
  <2>6. Len(Posted(event, n)) <= QueueLen
    <3> HIDE DEF more, k
    <3>1. QED
      BY <2>1, <2>2, <2>3, <2>4, <2>5
  <2>7. QED
    BY <1>2, <2>4, <2>5, <2>6, UartConstantsOK
<1>3. QED
  BY <1>1, <1>2

\* The configuration of the line leaves a queue for the firmware, and no other.
LEMMA ConfigKeepsLine ==
  ASSUME NEW mode \in {"FIRMWARE", "BOOTLOADER"}, LineOK, stm32_configSerial(mode)
  PROVE  LineOK'
<1>1. <<>> \in Seq(Events) /\ Len(<<>>) = 0 /\ QueueLen \in Nat
  BY UartConstantsOK
<1>2. CASE UNCHANGED driver
  BY <1>2 DEF LineOK, driver
<1>3. CASE Installed("FIRMWARE")
  <2>1. uart0_queue' = <<>> /\ stm32_mode' = "FIRMWARE"
    BY <1>3 DEF Installed
  <2>2. 0 <= QueueLen
    BY <1>1, UartConstantsOK
  <2>3. <<>> # NULL
    <3>1. NULL \notin Seq(Events)
      BY UartConstantsOK
    <3>2. QED
      BY <1>1, <3>1, Zenon
  <2>4. QED
    BY <1>1, <2>1, <2>2, <2>3 DEF LineOK
<1>4. CASE Installed("BOOTLOADER") \/ Installed("NONE")
  BY <1>4 DEF LineOK, Installed
<1>5. QED
  BY <1>2, <1>3, <1>4 DEF stm32_configSerial

LEMMA InitOK == Init => IInv
BY UartConstantsOK DEF Init, UartInit, IInv, Owners, SessionOK, LineOK, PinOK, Steps,
   ReadSteps, WriteSteps, BothSteps, SessionSteps

\* Every step keeps the invariant.
LEMMA StepKeepsIInv == IInv /\ [Next]_vars => IInv'
<1> SUFFICES ASSUME IInv, [Next]_vars PROVE IInv'
  OBVIOUS
<1> USE UartConstantsOK DEF GoTo, driver, mutexes, SessionSteps, BothSteps, ReadSteps, WriteSteps
<1>1. CASE ChipSendsLine
  <2> USE <1>1 DEF ChipSendsLine
  <2>1. pc' \in [Tasks -> Steps]
    BY DEF IInv, Steps
  <2>2. Owners'
    BY DEF IInv, Owners
  <2>3. SessionOK'
    BY DEF IInv, SessionOK, Owners
  <2>4. LineOK'
    <3>1. /\ (Posted("line", 1) # NULL) <=> (uart0_queue # NULL)
          /\ Posted("line", 1) # NULL => /\ Posted("line", 1) \in Seq(Events)
                                     /\ Len(Posted("line", 1)) <= QueueLen
      BY PostedIsQueue DEF IInv, Events
    <3>2. /\ (Posted("overflow", 1) # NULL) <=> (uart0_queue # NULL)
          /\ Posted("overflow", 1) # NULL => /\ Posted("overflow", 1) \in Seq(Events)
                                     /\ Len(Posted("overflow", 1)) <= QueueLen
      BY PostedIsQueue DEF IInv, Events
    <3>3. /\ (Posted("full", 1) # NULL) <=> (uart0_queue # NULL)
          /\ Posted("full", 1) # NULL => /\ Posted("full", 1) \in Seq(Events)
                                     /\ Len(Posted("full", 1)) <= QueueLen
      BY PostedIsQueue DEF IInv, Events
    <3>4. QED
      BY <3>1, <3>2, <3>3 DEF IInv, LineOK
  <2>5. PinOK'
    BY DEF IInv, PinOK, LineOK, Owners
  <2>6. QED
    BY <2>1, <2>2, <2>3, <2>4, <2>5 DEF IInv
<1>2. CASE ChipSendsOther
  <2> USE <1>2 DEF ChipSendsOther
  <2>1. pc' \in [Tasks -> Steps]
    BY DEF IInv, Steps
  <2>2. Owners'
    BY DEF IInv, Owners
  <2>3. SessionOK'
    BY DEF IInv, SessionOK, Owners
  <2>4. LineOK'
    <3>1. /\ (Posted("other", 1) # NULL) <=> (uart0_queue # NULL)
          /\ Posted("other", 1) # NULL => /\ Posted("other", 1) \in Seq(Events)
                                     /\ Len(Posted("other", 1)) <= QueueLen
      BY PostedIsQueue DEF IInv, Events
    <3>2. QED
      BY <3>1 DEF IInv, LineOK
  <2>5. PinOK'
    BY DEF IInv, PinOK, LineOK, Owners
  <2>6. QED
    BY <2>1, <2>2, <2>3, <2>4, <2>5 DEF IInv
<1>3. CASE stm32_setup
  <2> USE <1>3 DEF stm32_setup
  <2>1. pc' \in [Tasks -> Steps]
    BY DEF stm32_configSerial, Installed, IInv, Steps
  <2>2. Owners'
    BY DEF stm32_configSerial, Installed, IInv, Owners
  <2>3. SessionOK'
    BY DEF stm32_configSerial, Installed, IInv, SessionOK, Owners
  <2>4. LineOK'
    BY ConfigKeepsLine DEF IInv
  <2>5. PinOK'
    BY DEF stm32_configSerial, Installed, IInv, PinOK, LineOK, Owners
  <2>6. QED
    BY <2>1, <2>2, <2>3, <2>4, <2>5 DEF IInv
<1>4. ASSUME NEW t \in Tasks, LookAtQueue(t) PROVE IInv'
  BY <1>4 DEF IInv, Owners, SessionOK, LineOK, PinOK, Steps, LookAtQueue
<1>5. ASSUME NEW t \in Tasks, WakeUpQueue(t) PROVE IInv'
  <2> USE <1>5 DEF WakeUpQueue
  <2>1. pc' \in [Tasks -> Steps]
    BY DEF IInv, Steps
  <2>2. Owners'
    BY DEF IInv, Owners
  <2>3. SessionOK'
    BY DEF IInv, SessionOK, Owners
  <2>4. LineOK'
    <3>1. /\ (Posted("wake", 1) # NULL) <=> (uart0_queue # NULL)
          /\ Posted("wake", 1) # NULL => /\ Posted("wake", 1) \in Seq(Events)
                                     /\ Len(Posted("wake", 1)) <= QueueLen
      BY PostedIsQueue DEF IInv, Events
    <3>2. QED
      BY <3>1 DEF IInv, LineOK
  <2>5. PinOK'
    BY DEF IInv, PinOK, LineOK, Owners
  <2>6. QED
    BY <2>1, <2>2, <2>3, <2>4, <2>5 DEF IInv
<1>6. ASSUME NEW t \in Tasks, LockRead(t) PROVE IInv'
  <2> USE <1>6 DEF LockRead
  <2>1. pc' \in [Tasks -> Steps]
    BY DEF IInv, Steps
  <2>2. Owners'
    BY DEF IInv, Owners
  <2>3. SessionOK'
    BY DEF IInv, SessionOK, Owners
  <2>4. LineOK'
    <3>1. /\ (Posted("wake", 1) # NULL) <=> (uart0_queue # NULL)
          /\ Posted("wake", 1) # NULL => /\ Posted("wake", 1) \in Seq(Events)
                                     /\ Len(Posted("wake", 1)) <= QueueLen
      BY PostedIsQueue DEF IInv, Events
    <3>2. QED
      BY <3>1 DEF IInv, LineOK
  <2>5. PinOK'
    BY DEF IInv, PinOK, LineOK, Owners
  <2>6. QED
    BY <2>1, <2>2, <2>3, <2>4, <2>5 DEF IInv
<1>7. ASSUME NEW t \in Tasks, LockWrite(t) PROVE IInv'
  BY <1>7 DEF IInv, Owners, SessionOK, LineOK, PinOK, Steps, LockWrite
<1>8. ASSUME NEW t \in Tasks, stm32_reset(t) PROVE IInv'
  <2> USE <1>8 DEF stm32_reset, RestartChip, UnlockBoth, Return, ChipAfterReset
  <2>1. pc' \in [Tasks -> Steps]
    BY DEF IInv, Steps
  <2>2. Owners'
    BY DEF IInv, Owners
  <2>3. SessionOK'
    BY DEF IInv, SessionOK, Owners
  <2>4. LineOK'
    <3>1. /\ (Posted("wake", 0) # NULL) <=> (uart0_queue # NULL)
          /\ Posted("wake", 0) # NULL => /\ Posted("wake", 0) \in Seq(Events)
                                     /\ Len(Posted("wake", 0)) <= QueueLen
      BY PostedIsQueue DEF IInv, Events
    <3>2. QED
      BY <3>1 DEF IInv, LineOK
  <2>5. PinOK'
    BY DEF IInv, PinOK, LineOK, Owners
  <2>6. QED
    BY <2>1, <2>2, <2>3, <2>4, <2>5 DEF IInv
<1>9. ASSUME NEW t \in Tasks, RunFirmwareRestart(t) PROVE IInv'
  <2> USE <1>9 DEF RunFirmwareRestart, RestartChip, ChipAfterReset
  <2>1. pc' \in [Tasks -> Steps]
    BY DEF IInv, Steps
  <2>2. Owners'
    BY DEF IInv, Owners
  <2>3. SessionOK'
    BY DEF IInv, SessionOK, Owners
  <2>4. LineOK'
    <3>1. /\ (Posted("wake", 2) # NULL) <=> (uart0_queue # NULL)
          /\ Posted("wake", 2) # NULL => /\ Posted("wake", 2) \in Seq(Events)
                                     /\ Len(Posted("wake", 2)) <= QueueLen
      BY PostedIsQueue DEF IInv, Events
    <3>2. QED
      BY <3>1 DEF IInv, LineOK
  <2>5. PinOK'
    BY DEF IInv, PinOK, LineOK, Owners
  <2>6. QED
    BY <2>1, <2>2, <2>3, <2>4, <2>5 DEF IInv
<1>10. ASSUME NEW t \in Tasks, RunFirmwareConfig(t) PROVE IInv'
  <2> USE <1>10 DEF RunFirmwareConfig, UnlockBoth, Return
  <2>1. pc' \in [Tasks -> Steps]
    BY DEF stm32_configSerial, Installed, IInv, Steps
  <2>2. Owners'
    BY DEF stm32_configSerial, Installed, IInv, Owners
  <2>3. SessionOK'
    BY DEF stm32_configSerial, Installed, IInv, SessionOK, Owners
  <2>4. LineOK'
    BY ConfigKeepsLine DEF IInv
  <2>5. PinOK'
    BY DEF stm32_configSerial, Installed, IInv, PinOK, LineOK, Owners
  <2>6. QED
    BY <2>1, <2>2, <2>3, <2>4, <2>5 DEF IInv
<1>11. ASSUME NEW t \in Tasks, AppCalls(t) PROVE IInv'
  BY <1>11 DEF IInv, Owners, SessionOK, LineOK, PinOK, Steps, AppCalls, Call
<1>12. ASSUME NEW t \in Tasks, WriteLock(t) PROVE IInv'
  BY <1>12 DEF IInv, Owners, SessionOK, LineOK, PinOK, Steps, WriteLock
<1>13. ASSUME NEW t \in Tasks, WriteCheck(t) PROVE IInv'
  <2> USE <1>13 DEF WriteCheck
  <2>1. pc' \in [Tasks -> Steps]
    BY DEF IInv, Steps
  <2>2. Owners'
    BY DEF IInv, Owners
  <2>3. SessionOK'
    BY DEF IInv, SessionOK, Owners
  <2>4. LineOK'
    BY DEF IInv, LineOK, Events
  <2>5. PinOK'
    BY DEF IInv, PinOK, LineOK, Owners
  <2>6. QED
    BY <2>1, <2>2, <2>3, <2>4, <2>5 DEF IInv
<1>14. ASSUME NEW t \in Tasks, WriteSend(t) PROVE IInv'
  BY <1>14 DEF IInv, Owners, SessionOK, LineOK, PinOK, Steps, WriteSend, ChipGetsText
<1>15. ASSUME NEW t \in Tasks, ReadLock(t) PROVE IInv'
  BY <1>15 DEF IInv, Owners, SessionOK, LineOK, PinOK, Steps, ReadLock
<1>16. ASSUME NEW t \in Tasks, ReadBytes(t) PROVE IInv'
  BY <1>16 DEF IInv, Owners, SessionOK, LineOK, PinOK, Steps, ReadBytes, TakeAll
<1>17. ASSUME NEW t \in Tasks, ReadLineLook(t) PROVE IInv'
  BY <1>17 DEF IInv, Owners, SessionOK, LineOK, PinOK, Steps, ReadLineLook
<1>18. ASSUME NEW t \in Tasks, ReadLineLock(t) PROVE IInv'
  BY <1>18 DEF IInv, Owners, SessionOK, LineOK, PinOK, Steps, ReadLineLock
<1>19. ASSUME NEW t \in Tasks, Receive(t) PROVE IInv'
  <2> USE <1>19 DEF Receive, TakeAll, TakeNothing, TakeLine
  <2>1. pc' \in [Tasks -> Steps]
    BY DEF IInv, Steps
  <2>2. Owners'
    BY DEF IInv, Owners
  <2>3. SessionOK'
    BY DEF IInv, SessionOK, Owners
  <2>4. LineOK'
    <3>1. CASE uart0_queue = <<>>
      BY <3>1 DEF IInv, LineOK
    <3>2. CASE uart0_queue # <<>>
      <4>1. uart0_queue \in Seq(Events) /\ Len(uart0_queue) <= QueueLen
        BY DEF IInv, LineOK
      <4>2. /\ Tail(uart0_queue) \in Seq(Events)
            /\ Len(Tail(uart0_queue)) = Len(uart0_queue) - 1
        BY <3>2, <4>1
      <4>3. /\ Tail(uart0_queue) \in Seq(Events) /\ Len(Tail(uart0_queue)) <= QueueLen
            /\ <<>> \in Seq(Events) /\ Len(<<>>) <= QueueLen
        BY <4>1, <4>2, UartConstantsOK
      <4>4. /\ uart0_queue' \in {Tail(uart0_queue), <<>>}
            /\ stm32_mode' = stm32_mode
        BY <3>2
      <4>5. stm32_mode = "FIRMWARE"
        BY DEF IInv, LineOK
      <4>6. QED
        BY <4>3, <4>4, <4>5, UartConstantsOK DEF LineOK
    <3>3. QED
      BY <3>1, <3>2
  <2>5. PinOK'
    BY DEF IInv, PinOK, LineOK, Owners
  <2>6. QED
    BY <2>1, <2>2, <2>3, <2>4, <2>5 DEF IInv
<1>20. CASE ChipAnswers
  BY <1>20 DEF IInv, Owners, SessionOK, LineOK, PinOK, Steps, ChipAnswers
<1>21. CASE ChipIsSilent
  BY <1>21 DEF IInv, Owners, SessionOK, LineOK, PinOK, Steps, ChipIsSilent
<1>22. ASSUME NEW t \in Tasks, SendFrame(t) PROVE IInv'
  BY <1>22 DEF IInv, Owners, SessionOK, LineOK, PinOK, Steps, SendFrame
<1>23. ASSUME NEW t \in Tasks, Acked(t) PROVE IInv'
  BY <1>23 DEF IInv, Owners, SessionOK, LineOK, PinOK, Steps, Acked
<1>24. ASSUME NEW t \in Tasks, NotAcked(t) PROVE IInv'
  BY <1>24 DEF IInv, Owners, SessionOK, LineOK, PinOK, Steps, NotAcked, Leave
<1>25. ASSUME NEW t \in Tasks, OpenFile(t) PROVE IInv'
  BY <1>25 DEF IInv, Owners, SessionOK, LineOK, PinOK, Steps, OpenFile, Leave
<1>26. ASSUME NEW t \in Tasks, ReadFile(t) PROVE IInv'
  BY <1>26 DEF IInv, Owners, SessionOK, LineOK, PinOK, Steps, ReadFile, Leave
<1>27. ASSUME NEW t \in Tasks, stm32ota_doUpdate(t) PROVE IInv'
  BY <1>27 DEF IInv, Owners, SessionOK, LineOK, PinOK, Steps, stm32ota_doUpdate
<1>28. ASSUME NEW t \in Tasks, BeginUpdate(t) PROVE IInv'
  BY <1>28 DEF IInv, Owners, SessionOK, LineOK, PinOK, Steps, BeginUpdate
<1>29. ASSUME NEW t \in Tasks, DownloadData(t) PROVE IInv'
  <2> USE <1>29 DEF DownloadData, uartVars
  <2>1. pc' \in [Tasks -> Steps]
    BY DEF IInv, Steps
  <2>2. Owners'
    BY DEF IInv, Owners
  <2>3. SessionOK'
    BY DEF IInv, SessionOK, Owners
  <2>4. LineOK'
    BY DEF IInv, LineOK, Events
  <2>5. PinOK'
    BY DEF IInv, PinOK, LineOK, Owners
  <2>6. QED
    BY <2>1, <2>2, <2>3, <2>4, <2>5 DEF IInv
<1>30. ASSUME NEW t \in Tasks, DownloadFinishes(t) PROVE IInv'
  BY <1>30 DEF IInv, Owners, SessionOK, LineOK, PinOK, Steps, DownloadFinishes
<1>31. ASSUME NEW t \in Tasks, DownloadFails(t) PROVE IInv'
  BY <1>31 DEF IInv, Owners, SessionOK, LineOK, PinOK, Steps, DownloadFails
<1>32. ASSUME NEW t \in Tasks, BootIntoBootLoader(t) PROVE IInv'
  <2> USE <1>32 DEF BootIntoBootLoader, RestartChip, ChipAfterReset
  <2>1. pc' \in [Tasks -> Steps]
    BY DEF IInv, Steps
  <2>2. Owners'
    BY DEF IInv, Owners
  <2>3. SessionOK'
    BY DEF IInv, SessionOK, Owners
  <2>4. LineOK'
    <3>1. /\ (Posted("wake", 3) # NULL) <=> (uart0_queue # NULL)
          /\ Posted("wake", 3) # NULL => /\ Posted("wake", 3) \in Seq(Events)
                                     /\ Len(Posted("wake", 3)) <= QueueLen
      BY PostedIsQueue DEF IInv, Events
    <3>2. QED
      BY <3>1 DEF IInv, LineOK
  <2>5. PinOK'
    BY DEF IInv, PinOK, LineOK, Owners
  <2>6. QED
    BY <2>1, <2>2, <2>3, <2>4, <2>5 DEF IInv
<1>33. ASSUME NEW t \in Tasks, ConfigBootLoader(t) PROVE IInv'
  BY <1>33 DEF IInv, Owners, SessionOK, LineOK, PinOK, Steps, ConfigBootLoader, stm32_configSerial, Installed
<1>34. ASSUME NEW t \in Tasks, BootIntoFirmware(t) PROVE IInv'
  <2> USE <1>34 DEF BootIntoFirmware, RestartChip, ChipAfterReset
  <2>1. pc' \in [Tasks -> Steps]
    BY DEF IInv, Steps
  <2>2. Owners'
    BY DEF IInv, Owners
  <2>3. SessionOK'
    BY DEF IInv, SessionOK, Owners
  <2>4. LineOK'
    <3>1. /\ (Posted("wake", 3) # NULL) <=> (uart0_queue # NULL)
          /\ Posted("wake", 3) # NULL => /\ Posted("wake", 3) \in Seq(Events)
                                     /\ Len(Posted("wake", 3)) <= QueueLen
      BY PostedIsQueue DEF IInv, Events
    <3>2. QED
      BY <3>1 DEF IInv, LineOK
  <2>5. PinOK'
    BY DEF IInv, PinOK, LineOK, Owners
  <2>6. QED
    BY <2>1, <2>2, <2>3, <2>4, <2>5 DEF IInv
<1>35. ASSUME NEW t \in Tasks, EndOfUpdate(t) PROVE IInv'
  <2> USE <1>35 DEF EndOfUpdate, UnlockBoth
  <2>1. pc' \in [Tasks -> Steps]
    BY DEF stm32_configSerial, Installed, IInv, Steps
  <2>2. Owners'
    BY DEF stm32_configSerial, Installed, IInv, Owners
  <2>3. SessionOK'
    BY DEF stm32_configSerial, Installed, IInv, SessionOK, Owners
  <2>4. LineOK'
    BY ConfigKeepsLine DEF IInv
  <2>5. PinOK'
    BY DEF stm32_configSerial, Installed, IInv, PinOK, LineOK, Owners
  <2>6. QED
    BY <2>1, <2>2, <2>3, <2>4, <2>5 DEF IInv
<1>36. ASSUME NEW t \in Tasks, Report(t) PROVE IInv'
  BY <1>36 DEF IInv, Owners, SessionOK, LineOK, PinOK, Steps, Report
<1>37. CASE Restart
  BY <1>37 DEF IInv, Owners, SessionOK, LineOK, PinOK, Steps, Restart, UartRestart, UnlockBoth
<1>38. CASE UNCHANGED vars
  BY <1>38 DEF vars, uartVars, IInv, Owners, SessionOK, LineOK, PinOK, Steps
<1>39. QED
  BY <1>1, <1>2, <1>3, <1>4, <1>5, <1>6, <1>7, <1>8, <1>9, <1>10, <1>11, <1>12, <1>13, <1>14, <1>15, <1>16, <1>17, <1>18, <1>19, <1>20, <1>21, <1>22, <1>23, <1>24, <1>25, <1>26, <1>27, <1>28, <1>29, <1>30, <1>31, <1>32, <1>33, <1>34, <1>35, <1>36, <1>37, <1>38 DEF Next, UartNext, Tasks

---------------------------------------------------------------------------
\* The strengthening of the properties below is kept by every step.
THEOREM InvariantHolds == Spec => []IInv
<1>1. Init => IInv
  BY InitOK
<1>2. IInv /\ [Next]_vars => IInv'
  BY StepKeepsIInv
<1>3. QED
  BY <1>1, <1>2, PTL DEF Spec

\* No two tasks wait for each other's mutex, whatever the number of readers, of
\* tasks that restart the chip and of updates: LocksCannotDeadlock of Stm32Flash.
THEOREM MutexesCannotDeadlock == Spec => []LocksCannotDeadlock
<1>1. ASSUME IInv PROVE LocksCannotDeadlock
  <2> SUFFICES ASSUME NEW t \in Tasks, stm32_write_mutex = t PROVE ~WantsRead(t)
    BY DEF LocksCannotDeadlock
  <2>1. pc[t] \in WriteSteps
    BY <1>1 DEF IInv, Owners
  <2>2. QED
    BY <2>1 DEF WantsRead, WriteSteps, BothSteps, SessionSteps
<1>2. QED
  BY InvariantHolds, <1>1, PTL

\* Between the restart into the boot loader and the one into the firmware no other
\* task writes, reads or flashes, and no text reaches the boot loader.
THEOREM SessionsAreExclusive == Spec => []SessionIsExclusive
<1>1. ASSUME IInv PROVE SessionIsExclusive
  <2> SUFFICES ASSUME NEW u \in Updaters, InSession(u)
               PROVE  /\ chip.mode = "bootloader" /\ ~chip.intruded
                      /\ \A t \in Tasks \ {u} :
                           /\ ~(t \in Updaters /\ InSession(t))
                           /\ pc[t] \notin {"receive", "read", "writeSend"}
    BY DEF SessionIsExclusive
  <2>1. u \in Tasks /\ pc[u] \in SessionSteps
    BY DEF InSession, SessionSteps, Tasks
  <2>2. stm32_read_mutex = u /\ stm32_write_mutex = u
    BY <1>1, <2>1 DEF IInv, Owners, ReadSteps, WriteSteps, BothSteps
  <2>3. chip.mode = "bootloader" /\ ~chip.intruded
    BY <1>1, <2>1 DEF IInv, SessionOK
  <2>4. ASSUME NEW t \in Tasks \ {u}
        PROVE  /\ ~(t \in Updaters /\ InSession(t))
               /\ pc[t] \notin {"receive", "read", "writeSend"}
    <3>1. pc[t] \notin ReadSteps /\ pc[t] \notin WriteSteps
      BY <1>1, <2>2 DEF IInv, Owners
    <3>2. QED
      BY <3>1 DEF InSession, ReadSteps, WriteSteps, BothSteps, SessionSteps
  <2>5. QED
    BY <2>3, <2>4
<1>2. QED
  BY InvariantHolds, <1>1, PTL

\* Whenever both mutexes are free the boot pin is low and the line is that of the
\* firmware, or there is none: no way out of an update leads elsewhere.
THEOREM UnlockedIsFirmware == Spec => []UnlockedMeansFirmware
<1>1. ASSUME IInv PROVE UnlockedMeansFirmware
  <2> SUFFICES ASSUME up, stm32_read_mutex = NULL, stm32_write_mutex = NULL
               PROVE  /\ boot_pin = 0
                      /\ stm32_mode # "BOOTLOADER"
                      /\ (uart0_queue # NULL) <=> (stm32_mode = "FIRMWARE")
    BY DEF UnlockedMeansFirmware
  <2>1. \A t \in Tasks : pc[t] \notin ReadSteps
    BY <1>1, UartConstantsOK DEF IInv, Owners
  <2>2. \A t \in Tasks : pc[t] \notin SessionSteps \cup {"leaveConfig"}
    BY <2>1 DEF ReadSteps, BothSteps
  <2>3. QED
    BY <1>1, <2>2 DEF IInv, PinOK, LineOK
<1>2. QED
  BY InvariantHolds, <1>1, PTL

---------------------------------------------------------------------------
(* The state of the update *)

Control == /\ pc \in [Tasks -> Steps]
           /\ op \in [Tasks -> {"none", "reset", "runFirmware", "update"}]

\* An update that is on its way to a report
OnTheWay(u) ==
  \/ pc[u] \in {"download", "report"} \/ InSession(u) \/ pc[u] = "leaveConfig"
  \/ op[u] = "update" /\ pc[u] \in {"look", "wake", "lockRead", "lockWrite", "locked"}

\* The steps of the serial line, of the exchange and of the update
LEMMA Cases ==
  ASSUME [Next]_vars
  PROVE  \/ UartNext /\ UNCHANGED state
         \/ (ChipAnswers \/ ChipIsSilent) /\ UNCHANGED state
         \/ \E u \in Updaters :
               \/ /\ SendFrame(u) \/ Acked(u) \/ NotAcked(u) \/ OpenFile(u) \/ ReadFile(u)
                  /\ UNCHANGED state
               \/ stm32ota_doUpdate(u) \/ BeginUpdate(u)
               \/ DownloadData(u) \/ DownloadFinishes(u) \/ DownloadFails(u)
               \/ BootIntoBootLoader(u) \/ ConfigBootLoader(u)
               \/ BootIntoFirmware(u) \/ EndOfUpdate(u) \/ Report(u)
         \/ Restart
         \/ UNCHANGED <<pc, op, state>>
BY DEF Next, vars, uartVars

LEMMA ControlStep == Control /\ [Next]_vars => Control'
<1> SUFFICES ASSUME Control, [Next]_vars PROVE Control'
  OBVIOUS
<1> USE DEF Control, Steps, Tasks, GoTo, Return
<1>1. CASE UartNext
  BY <1>1 DEF UartNext, ChipSendsLine, ChipSendsOther, stm32_setup, LookAtQueue,
     WakeUpQueue, LockRead, LockWrite, stm32_reset, RunFirmwareRestart,
     RunFirmwareConfig, AppCalls, Call, WriteLock, WriteCheck, WriteSend, ReadLock,
     ReadBytes, ReadLineLook, ReadLineLock, Receive
<1>2. CASE ChipAnswers \/ ChipIsSilent
  BY <1>2 DEF ChipAnswers, ChipIsSilent
<1>3. ASSUME NEW u \in Updaters,
             SendFrame(u) \/ Acked(u) \/ NotAcked(u) \/ OpenFile(u) \/ ReadFile(u)
      PROVE  Control'
  BY <1>3 DEF SendFrame, Acked, NotAcked, OpenFile, ReadFile, Leave
<1>4. ASSUME NEW u \in Updaters,
             \/ stm32ota_doUpdate(u) \/ BeginUpdate(u)
             \/ DownloadData(u) \/ DownloadFinishes(u) \/ DownloadFails(u)
             \/ BootIntoBootLoader(u) \/ ConfigBootLoader(u)
             \/ BootIntoFirmware(u) \/ EndOfUpdate(u) \/ Report(u)
      PROVE  Control'
  BY <1>4 DEF stm32ota_doUpdate, BeginUpdate, DownloadData, uartVars, DownloadFinishes,
     DownloadFails, BootIntoBootLoader, ConfigBootLoader, BootIntoFirmware,
     EndOfUpdate, Report
<1>5. CASE Restart
  BY <1>5 DEF Restart, UartRestart
<1>6. CASE UNCHANGED <<pc, op, state>>
  BY <1>6
<1>7. QED
  BY <1>1, <1>2, <1>3, <1>4, <1>5, <1>6, Cases

\* An update stays on its way, or the state is no longer RUN.
LEMMA StaysOnTheWay ==
  ASSUME Control, [Next]_vars, NEW u \in Updaters, OnTheWay(u)
  PROVE  OnTheWay(u)' \/ state' # "RUN"
<1> USE DEF Control, Tasks, GoTo, Return, OnTheWay, InSession
<1>1. CASE UartNext
  BY <1>1 DEF UartNext, ChipSendsLine, ChipSendsOther, stm32_setup, LookAtQueue,
     WakeUpQueue, LockRead, LockWrite, stm32_reset, RunFirmwareRestart,
     RunFirmwareConfig, AppCalls, Call, WriteLock, WriteCheck, WriteSend, ReadLock,
     ReadBytes, ReadLineLook, ReadLineLock, Receive
<1>2. CASE ChipAnswers \/ ChipIsSilent
  BY <1>2 DEF ChipAnswers, ChipIsSilent
<1>3. ASSUME NEW v \in Updaters,
             SendFrame(v) \/ Acked(v) \/ NotAcked(v) \/ OpenFile(v) \/ ReadFile(v)
      PROVE  OnTheWay(u)'
  BY <1>3 DEF SendFrame, Acked, NotAcked, OpenFile, ReadFile, Leave
<1>4. ASSUME NEW v \in Updaters,
             \/ stm32ota_doUpdate(v) \/ BeginUpdate(v)
             \/ DownloadData(v) \/ DownloadFinishes(v) \/ DownloadFails(v)
             \/ BootIntoBootLoader(v) \/ ConfigBootLoader(v)
             \/ BootIntoFirmware(v) \/ EndOfUpdate(v) \/ Report(v)
      PROVE  OnTheWay(u)' \/ state' # "RUN"
  BY <1>4 DEF stm32ota_doUpdate, BeginUpdate, DownloadData, uartVars, DownloadFinishes,
     DownloadFails, BootIntoBootLoader, ConfigBootLoader, BootIntoFirmware,
     EndOfUpdate, Report
<1>5. CASE Restart
  BY <1>5 DEF Restart
<1>6. CASE UNCHANGED <<pc, op, state>>
  BY <1>6
<1>7. QED
  BY <1>1, <1>2, <1>3, <1>4, <1>5, <1>6, Cases

\* Only the step that puts an update on its way sets the state to RUN.
LEMMA RunBegins ==
  ASSUME Control, [Next]_vars, state # "RUN", state' = "RUN"
  PROVE  \E u \in Updaters : OnTheWay(u)'
<1>1. PICK u \in Updaters : BeginUpdate(u)
  BY Cases DEF stm32ota_doUpdate, DownloadData, DownloadFinishes, DownloadFails,
     BootIntoBootLoader, ConfigBootLoader, BootIntoFirmware, EndOfUpdate, Report, Restart
<1>2. OnTheWay(u)'
  BY <1>1 DEF BeginUpdate, GoTo, Control, Tasks, OnTheWay
<1>3. QED
  BY <1>2

\* The state says RUN only while some update is on its way to a report, whatever
\* the number of updates that overlap: RunMeansRunning of Stm32Flash.
THEOREM RunIsRunning == Spec => []RunMeansRunning
<1>1. Init => Control /\ RunMeansRunning
  BY DEF Init, UartInit, Control, Steps, RunMeansRunning
<1>2. Control /\ RunMeansRunning /\ [Next]_vars => RunMeansRunning'
  <2> SUFFICES ASSUME Control, RunMeansRunning, [Next]_vars, state' = "RUN"
               PROVE  \E u \in Updaters : OnTheWay(u)'
    BY DEF RunMeansRunning, OnTheWay
  <2>1. CASE state = "RUN"
    <3>1. PICK u \in Updaters : OnTheWay(u)
      BY <2>1 DEF RunMeansRunning, OnTheWay
    <3>2. QED
      BY <3>1, StaysOnTheWay
  <2>2. CASE state # "RUN"
    BY <2>2, RunBegins
  <2>3. QED
    BY <2>1, <2>2
<1>3. QED
  BY <1>1, <1>2, ControlStep, PTL DEF Spec

---------------------------------------------------------------------------
(* Whose the answers are *)

\* The steps of a session in which frames are sent, and those in which there may
\* be an answer
FrameSteps  == {"send", "await", "open", "readFile", "leave"}
AnswerSteps == FrameSteps \cup {"leaveConfig"}

\* There are as many line ends as lines, or fewer.
LinesOK ==
  /\ rx \in Seq(Bytes)
  /\ patterns \in Nat /\ patterns <= Len(rx)
  /\ stm32_mode # "FIRMWARE" => patterns = 0

Foreign == \E i \in DOMAIN rx : rx[i] # "line"

AnswersAreRead ==
  Foreign => stranded \/ \E t \in Tasks : pc[t] \in AnswerSteps

FramesAreOurs ==
  chip.in # NULL => /\ chip.mode = "bootloader"
                    /\ stranded \/ \E t \in Tasks : pc[t] \in FrameSteps

\* A session begins with a chip that has just been started, and the line is that of
\* the firmware again only when it is over.
SessionMode ==
  \A t \in Tasks :
    /\ pc[t] = "configBootLoader" =>
         chip.in = NULL /\ chip.stage = "off" /\ stm32_mode # "BOOTLOADER"
    /\ pc[t] \in AnswerSteps => stm32_mode # "FIRMWARE"

LinkInv == LinesOK /\ AnswersAreRead /\ FramesAreOurs /\ SessionMode

LEMMA InitLink == Init => LinkInv
<1> SUFFICES ASSUME Init PROVE LinkInv
  OBVIOUS
<1>1. rx = <<>> /\ patterns = 0 /\ chip.in = NULL /\ \A t \in Tasks : pc[t] = "idle"
  BY DEF Init, UartInit
<1>2. LinesOK
  BY <1>1 DEF LinesOK
<1>3. QED
  BY <1>1, <1>2 DEF LinkInv, AnswersAreRead, FramesAreOurs, SessionMode, Foreign,
     AnswerSteps, FrameSteps

\* A step that leaves the chip and the lines alone, and every task in its session or
\* outside of one
Elsewhere ==
  /\ UNCHANGED <<rx, patterns, stm32_mode, chip, stranded>>
  /\ \A t \in Tasks : \/ pc'[t] = pc[t]
                      \/ /\ pc[t] \notin AnswerSteps \cup {"configBootLoader"}
                         /\ pc'[t] \notin AnswerSteps \cup {"configBootLoader"}

LEMMA ElsewhereKeepsLink == LinkInv /\ Elsewhere => LinkInv'
BY DEF LinkInv, Elsewhere, LinesOK, AnswersAreRead, FramesAreOurs, SessionMode, Foreign,
   AnswerSteps, FrameSteps

\* Whoever holds both mutexes is the only one at a step under them.
LEMMA Alone ==
  ASSUME IInv, NEW t \in Tasks, pc[t] \in BothSteps
  PROVE  \A s \in Tasks : s # t => pc[s] \notin ReadSteps \cup WriteSteps
BY DEF IInv, Owners, ReadSteps, WriteSteps

LEMMA AloneReading ==
  ASSUME IInv, NEW t \in Tasks, pc[t] \in ReadSteps
  PROVE  \A s \in Tasks : s # t => pc[s] \notin ReadSteps
BY DEF IInv, Owners

LEMMA AloneWriting ==
  ASSUME IInv, NEW t \in Tasks, pc[t] \in WriteSteps
  PROVE  \A s \in Tasks : s # t => pc[s] \notin WriteSteps
BY DEF IInv, Owners

\* A task that takes a step leaves the others where they are.
LEMMA OnlyMoves ==
  ASSUME IInv, NEW t \in Tasks, NEW step, GoTo(t, step)
  PROVE  pc'[t] = step /\ \A s \in Tasks : s # t => pc'[s] = pc[s]
BY DEF IInv, GoTo

\* The driver is emptied by whoever configures it anew.
LEMMA Configured ==
  ASSUME NEW mode, stm32_configSerial(mode)
  PROVE  \/ mode = stm32_mode /\ UNCHANGED driver
         \/ /\ stm32_mode' \in {mode, "NONE"}
            /\ rx' = <<>> /\ patterns' = 0
BY DEF stm32_configSerial, Installed

LEMMA EmptyLines ==
  ASSUME rx' = <<>>, patterns' = 0
  PROVE  LinesOK' /\ Foreign' = FALSE
<1>1. rx' \in Seq(Bytes) /\ Len(rx') = 0 /\ DOMAIN rx' = {}
  OBVIOUS
<1>2. QED
  BY <1>1 DEF LinesOK, Foreign

LEMMA LineArrives ==
  ASSUME LinesOK, NEW byte \in Bytes, rx' = Append(rx, byte)
  PROVE  /\ rx' \in Seq(Bytes) /\ Len(rx') = Len(rx) + 1
         /\ Foreign' => Foreign \/ byte # "line"
<1>1. rx' \in Seq(Bytes) /\ Len(rx') = Len(rx) + 1 /\ Len(rx) \in Nat
  BY DEF LinesOK
<1>2. ASSUME NEW i \in DOMAIN rx', rx'[i] # "line", byte = "line"
      PROVE  i \in DOMAIN rx /\ rx[i] # "line"
  BY <1>1, <1>2 DEF LinesOK
<1>3. QED
  BY <1>1, <1>2 DEF Foreign

LEMMA LineIsTaken ==
  ASSUME LinesOK, patterns # 0, TakeLine
  PROVE  /\ rx' \in Seq(Bytes) /\ patterns' \in Nat /\ patterns' <= Len(rx')
         /\ Foreign' => Foreign
<1>1. rx \in Seq(Bytes) /\ rx # <<>> /\ Len(rx) \in Nat \ {0}
  BY DEF LinesOK
<1>2. rx' \in Seq(Bytes) /\ Len(rx') = Len(rx) - 1
  BY <1>1 DEF TakeLine
<1>3. patterns' \in Nat /\ patterns' <= Len(rx')
  BY <1>2 DEF TakeLine, LinesOK
<1>4. ASSUME NEW i \in DOMAIN rx', rx'[i] # "line"
      PROVE  i + 1 \in DOMAIN rx /\ rx[i + 1] # "line"
  BY <1>1, <1>2, <1>4 DEF TakeLine
<1>5. QED
  BY <1>2, <1>3, <1>4 DEF Foreign

\* The steps of a task that waits, reads or writes
LEMMA UartKeepsLink == IInv /\ LinkInv /\ UartNext => LinkInv'
<1> SUFFICES ASSUME IInv, LinkInv, UartNext PROVE LinkInv'
  OBVIOUS
<1> USE DEF GoTo, Return, AnswerSteps, FrameSteps, driver, mutexes
<1>0. pc \in [Tasks -> Steps] /\ Apps \subseteq Tasks /\ Updaters \subseteq Tasks
      /\ Readers \subseteq Tasks
  BY DEF IInv, Tasks
<1>1. CASE ChipSendsLine
  <2> USE <1>1 DEF ChipSendsLine
  <2>1. chip.in = NULL
    BY DEF LinkInv, FramesAreOurs
  <2>2. CASE Len(rx) < RxLen
    <3>1. /\ rx' \in Seq(Bytes) /\ Len(rx') = Len(rx) + 1
          /\ Foreign' => Foreign
      BY <2>2, LineArrives DEF LinkInv, Bytes
    <3>2. LinesOK'
      BY <2>2, <3>1 DEF LinkInv, LinesOK
    <3>3. QED
      BY <3>1, <3>2 DEF LinkInv, AnswersAreRead, FramesAreOurs, SessionMode
  <2>3. CASE ~(Len(rx) < RxLen)
    BY <2>3, ElsewhereKeepsLink DEF Elsewhere
  <2>4. QED
    BY <2>2, <2>3
<1>2. CASE ChipSendsOther
  BY <1>2, ElsewhereKeepsLink DEF ChipSendsOther, Elsewhere
<1>3. CASE stm32_setup
  <2> USE <1>3 DEF stm32_setup
  <2>1. \A t \in Tasks : pc[t] = "idle"
    BY DEF IInv, PinOK
  <2>2. stm32_mode # "FIRMWARE" /\ rx' = <<>> /\ patterns' = 0
    BY Configured DEF IInv, PinOK
  <2>3. QED
    BY <2>1, <2>2, EmptyLines DEF LinkInv, AnswersAreRead, FramesAreOurs, SessionMode
<1>4. ASSUME NEW t \in Tasks,
             LookAtQueue(t) \/ WakeUpQueue(t) \/ LockRead(t) \/ LockWrite(t)
      PROVE  LinkInv'
  <2>1. Elsewhere
    BY <1>0, <1>4 DEF Elsewhere, LookAtQueue, WakeUpQueue, LockRead, LockWrite
  <2>2. QED
    BY <2>1, ElsewhereKeepsLink
<1>5. ASSUME NEW t \in Tasks, stm32_reset(t) \/ RunFirmwareRestart(t) PROVE LinkInv'
  <2>1. pc[t] = "locked"
        /\ \A s \in Tasks : s # t => pc[s] \notin AnswerSteps \cup {"configBootLoader"}
    BY <1>5, Alone DEF stm32_reset, RunFirmwareRestart, BothSteps, SessionSteps, ReadSteps
  <2>2. /\ chip'.in = NULL
        /\ UNCHANGED <<rx, patterns, stm32_mode, stranded>>
        /\ \A s \in Tasks : pc'[s] \notin AnswerSteps \cup {"configBootLoader"}
    BY <1>0, <1>5, <2>1 DEF stm32_reset, RunFirmwareRestart, RestartChip, ChipAfterReset,
       IInv, SessionOK
  <2>3. QED
    BY <2>1, <2>2 DEF LinkInv, LinesOK, AnswersAreRead, FramesAreOurs, SessionMode, Foreign
<1>6. ASSUME NEW t \in Tasks, RunFirmwareConfig(t) PROVE LinkInv'
  <2>1. pc[t] = "config"
        /\ \A s \in Tasks : s # t => pc[s] \notin AnswerSteps \cup {"configBootLoader"}
    BY <1>6, Alone DEF RunFirmwareConfig, BothSteps, SessionSteps, ReadSteps
  <2>2. \A s \in Tasks : pc'[s] \notin AnswerSteps \cup {"configBootLoader"}
    BY <1>0, <1>6, <2>1 DEF RunFirmwareConfig
  <2>3. UNCHANGED <<rx, patterns, stm32_mode>> \/ (rx' = <<>> /\ patterns' = 0)
    <3>1. stm32_configSerial("FIRMWARE")
      BY <1>6 DEF RunFirmwareConfig
    <3>2. QED
      BY <3>1, Configured
  <2>4. LinesOK' /\ (Foreign' => Foreign)
    BY <2>3, EmptyLines DEF LinkInv, LinesOK, Foreign
  <2>5. QED
    BY <1>6, <2>1, <2>2, <2>4 DEF RunFirmwareConfig, LinkInv, AnswersAreRead,
       FramesAreOurs, SessionMode
<1>7. ASSUME NEW a \in Apps, AppCalls(a) \/ WriteLock(a) \/ WriteCheck(a) \/ ReadLock(a)
      PROVE  LinkInv'
  <2>1. Elsewhere
    BY <1>0, <1>7 DEF Elsewhere, AppCalls, Call, WriteLock, WriteCheck, ReadLock
  <2>2. QED
    BY <2>1, ElsewhereKeepsLink
<1>8. ASSUME NEW a \in Apps, WriteSend(a) PROVE LinkInv'
  <2>1. chip'.in = chip.in /\ chip'.mode = chip.mode /\ chip'.stage = chip.stage
    BY <1>8 DEF WriteSend, ChipGetsText, IInv, SessionOK
  <2>2. UNCHANGED <<rx, patterns, stm32_mode, stranded>>
    BY <1>8 DEF WriteSend
  <2>3. \A s \in Tasks : pc'[s] = pc[s] \/ (pc[s] = "writeSend" /\ pc'[s] = "idle")
    <3>1. a \in Tasks /\ pc[a] = "writeSend" /\ GoTo(a, "idle")
      BY <1>0, <1>8 DEF WriteSend
    <3> HIDE DEF GoTo
    <3>2. QED
      BY <3>1, OnlyMoves
  <2>4. QED
    BY <2>1, <2>2, <2>3 DEF LinkInv, LinesOK, AnswersAreRead, FramesAreOurs, SessionMode,
       Foreign
<1>9. ASSUME NEW a \in Apps, ReadBytes(a) PROVE LinkInv'
  <2>1. /\ UNCHANGED <<chip, stm32_mode, stranded>> /\ rx' = <<>> /\ patterns' = 0
    BY <1>9 DEF ReadBytes, TakeAll
  <2>2. \A s \in Tasks : pc'[s] = pc[s] \/ (pc[s] = "read" /\ pc'[s] = "idle")
    <3>1. a \in Tasks /\ pc[a] = "read" /\ GoTo(a, "idle")
      BY <1>0, <1>9 DEF ReadBytes
    <3> HIDE DEF GoTo
    <3>2. QED
      BY <3>1, OnlyMoves
  <2>3. QED
    BY <2>1, <2>2, EmptyLines DEF LinkInv, AnswersAreRead, FramesAreOurs, SessionMode
<1>10. ASSUME NEW r \in Readers, ReadLineLook(r) \/ ReadLineLock(r) PROVE LinkInv'
  <2>1. Elsewhere
    BY <1>0, <1>10 DEF Elsewhere, ReadLineLook, ReadLineLock
  <2>2. QED
    BY <2>1, ElsewhereKeepsLink
<1>11. ASSUME NEW r \in Readers, Receive(r) PROVE LinkInv'
  <2>1. /\ UNCHANGED <<chip, stm32_mode, stranded>> /\ stm32_mode = "FIRMWARE"
    BY <1>11 DEF Receive, IInv, LineOK
  <2>2. \/ UNCHANGED <<rx, patterns>>
        \/ TakeAll
        \/ patterns # 0 /\ TakeLine
    BY <1>11 DEF Receive, TakeNothing
  <2>3. LinesOK' /\ (Foreign' => Foreign)
    <3>1. CASE UNCHANGED <<rx, patterns>>
      BY <2>1, <3>1 DEF LinkInv, LinesOK, Foreign
    <3>2. CASE TakeAll
      BY <3>2, EmptyLines DEF TakeAll
    <3>3. CASE patterns # 0 /\ TakeLine
      BY <2>1, <3>3, LineIsTaken DEF LinkInv, LinesOK
    <3>4. QED
      BY <2>2, <3>1, <3>2, <3>3
  <2>4. \A s \in Tasks : pc'[s] = pc[s] \/ (pc[s] = "receive" /\ pc'[s] = "idle")
    <3>1. r \in Tasks /\ pc[r] = "receive" /\ GoTo(r, "idle")
      BY <1>0, <1>11 DEF Receive
    <3> HIDE DEF GoTo
    <3>2. QED
      BY <3>1, OnlyMoves
  <2>5. QED
    BY <2>1, <2>3, <2>4 DEF LinkInv, AnswersAreRead, FramesAreOurs, SessionMode
<1>12. QED
  BY <1>0, <1>1, <1>2, <1>3, <1>4, <1>5, <1>6, <1>7, <1>8, <1>9, <1>10, <1>11 DEF UartNext

\* An answer ends no line.
LEMMA AnswerArrives ==
  ASSUME LinesOK, NEW byte \in Bytes, UNCHANGED <<patterns, stm32_mode>>,
         rx' \in {rx, Append(rx, byte)}
  PROVE  LinesOK'
<1>1. rx' \in Seq(Bytes) /\ Len(rx') \in Nat /\ Len(rx) <= Len(rx')
  BY DEF LinesOK
<1>2. QED
  BY <1>1 DEF LinesOK

\* The steps of the chip
LEMMA ChipKeepsLink == IInv /\ LinkInv /\ (ChipAnswers \/ ChipIsSilent) => LinkInv'
<1> SUFFICES ASSUME IInv, LinkInv, ChipAnswers \/ ChipIsSilent PROVE LinkInv'
  OBVIOUS
<1>1. chip'.in = NULL /\ UNCHANGED <<pc, stm32_mode, patterns, stranded>>
  BY DEF ChipAnswers, ChipIsSilent, IInv, SessionOK, driver
<1>2. stranded \/ \E t \in Tasks : pc[t] \in FrameSteps
  BY DEF ChipAnswers, ChipIsSilent, LinkInv, FramesAreOurs
<1>3. chip'.stage = chip.stage \/ \A t \in Tasks : pc[t] # "configBootLoader"
  <2>1. CASE ChipIsSilent
    BY <2>1 DEF ChipIsSilent, IInv, SessionOK
  <2>2. CASE ChipAnswers
    BY <2>2 DEF ChipAnswers, LinkInv, SessionMode
  <2>3. QED
    BY <2>1, <2>2
<1>4. SessionMode'
  BY <1>1, <1>3 DEF LinkInv, SessionMode
<1>5. AnswersAreRead' /\ FramesAreOurs'
  BY <1>1, <1>2 DEF AnswersAreRead, FramesAreOurs, AnswerSteps
<1>6. LinesOK'
  <2>1. CASE ChipIsSilent
    BY <2>1 DEF ChipIsSilent, LinkInv, LinesOK, driver
  <2>2. CASE ChipAnswers
    <3>1. \E byte \in {"ack", "nack"} : rx' \in {rx, Append(rx, byte)}
      BY <2>2 DEF ChipAnswers
    <3>2. QED
      BY <1>1, <3>1, AnswerArrives DEF LinkInv, Bytes
  <2>3. QED
    BY <2>1, <2>2
<1>7. QED
  BY <1>4, <1>5, <1>6 DEF LinkInv

\* The steps of an update
LEMMA UpdateKeepsLink ==
  ASSUME IInv, LinkInv, NEW u \in Updaters,
         \/ SendFrame(u) \/ Acked(u) \/ NotAcked(u) \/ OpenFile(u) \/ ReadFile(u)
         \/ stm32ota_doUpdate(u) \/ BeginUpdate(u)
         \/ DownloadData(u) \/ DownloadFinishes(u) \/ DownloadFails(u)
         \/ BootIntoBootLoader(u) \/ ConfigBootLoader(u)
         \/ BootIntoFirmware(u) \/ EndOfUpdate(u) \/ Report(u)
  PROVE  LinkInv'
<1> USE DEF driver, mutexes, FrameSteps, AnswerSteps
<1>0. u \in Tasks
  BY DEF Tasks
<1>1. CASE \/ stm32ota_doUpdate(u) \/ BeginUpdate(u)
           \/ DownloadData(u) \/ DownloadFinishes(u) \/ DownloadFails(u) \/ Report(u)
  <2>1. Elsewhere
    BY <1>0, <1>1 DEF Elsewhere, IInv, GoTo, stm32ota_doUpdate, BeginUpdate, DownloadData,
       uartVars, DownloadFinishes, DownloadFails, Report
  <2>2. QED
    BY <2>1, ElsewhereKeepsLink
<1>2. CASE SendFrame(u)
  <2>1. pc[u] = "send" /\ GoTo(u, "await") /\ UNCHANGED <<driver, stranded>>
    BY <1>2 DEF SendFrame
  <2>2. chip'.mode = chip.mode /\ chip'.stage = chip.stage /\ chip.mode = "bootloader"
    BY <1>0, <1>2 DEF SendFrame, IInv, SessionOK, SessionSteps
  <2>3. pc'[u] = "await" /\ \A s \in Tasks : s # u => pc'[s] = pc[s]
    BY <1>0, <2>1, OnlyMoves
  <2>4. \A s \in Tasks : s # u => pc[s] # "configBootLoader"
    BY <1>0, <2>1, Alone DEF BothSteps, SessionSteps, ReadSteps
  <2>5. QED
    BY <1>0, <2>1, <2>2, <2>3, <2>4 DEF LinkInv, LinesOK, AnswersAreRead, FramesAreOurs,
       SessionMode, Foreign
<1>3. CASE Acked(u) \/ NotAcked(u)
  <2>1. pc[u] = "await" /\ UNCHANGED <<chip, patterns, stm32_mode, stranded>>
    BY <1>3 DEF Acked, NotAcked
  <2>2. pc'[u] \in FrameSteps /\ \A s \in Tasks : s # u => pc'[s] = pc[s]
    BY <1>0, <1>3 DEF Acked, NotAcked, Leave, IInv, GoTo
  <2>3. LinesOK'
    <3>1. stm32_mode # "FIRMWARE" /\ patterns = 0
      BY <1>0, <2>1 DEF LinkInv, SessionMode, LinesOK
    <3>2. rx' \in {rx, <<>>}
      BY <1>3 DEF Acked, NotAcked
    <3>3. CASE rx' = <<>>
      BY <2>1, <3>1, <3>3, EmptyLines
    <3>4. CASE rx' = rx
      BY <2>1, <3>4 DEF LinkInv, LinesOK
    <3>5. QED
      BY <3>2, <3>3, <3>4
  <2>4. QED
    BY <1>0, <2>1, <2>2, <2>3 DEF LinkInv, AnswersAreRead, FramesAreOurs, SessionMode
<1>4. CASE OpenFile(u) \/ ReadFile(u)
  <2>1. pc[u] \in {"open", "readFile"} /\ UNCHANGED <<driver, chip, stranded>>
    BY <1>4 DEF OpenFile, ReadFile
  <2>2. pc'[u] \in FrameSteps /\ \A s \in Tasks : s # u => pc'[s] = pc[s]
    BY <1>0, <1>4 DEF OpenFile, ReadFile, Leave, IInv, GoTo
  <2>3. QED
    BY <1>0, <2>1, <2>2 DEF LinkInv, LinesOK, AnswersAreRead, FramesAreOurs, SessionMode,
       Foreign
<1>5. CASE BootIntoBootLoader(u)
  <2>1. pc[u] = "locked" /\ GoTo(u, "configBootLoader")
        /\ UNCHANGED <<rx, patterns, stm32_mode, stranded>>
    BY <1>5 DEF BootIntoBootLoader, RestartChip
  <2>2. chip'.in = NULL /\ chip'.stage = "off"
    BY <1>5 DEF BootIntoBootLoader, RestartChip, ChipAfterReset, IInv, SessionOK
  <2>3. \A s \in Tasks : pc[s] \notin AnswerSteps \cup {"configBootLoader"}
    BY <1>0, <2>1, Alone DEF BothSteps, SessionSteps, ReadSteps
  <2>4. pc'[u] = "configBootLoader" /\ \A s \in Tasks : s # u => pc'[s] = pc[s]
    BY <1>0, <2>1, OnlyMoves
  <2>5. stm32_mode # "BOOTLOADER"
    BY <1>0, <2>1, <2>3, Alone DEF IInv, PinOK, SessionSteps
  <2>6. QED
    BY <1>0, <2>1, <2>2, <2>3, <2>4, <2>5 DEF LinkInv, LinesOK, AnswersAreRead,
       FramesAreOurs,
       SessionMode, Foreign
<1>6. CASE ConfigBootLoader(u)
  <2>1. pc[u] = "configBootLoader" /\ GoTo(u, "send") /\ UNCHANGED chip
        /\ stm32_configSerial("BOOTLOADER")
    BY <1>6 DEF ConfigBootLoader
  <2>2. chip.in = NULL /\ stm32_mode # "BOOTLOADER"
    BY <1>0, <2>1 DEF LinkInv, SessionMode
  <2>3. stm32_mode' \in {"BOOTLOADER", "NONE"} /\ rx' = <<>> /\ patterns' = 0
    BY <2>1, <2>2, Configured
  <2>4. pc'[u] = "send" /\ \A s \in Tasks : s # u => pc'[s] = pc[s]
    BY <1>0, <2>1, OnlyMoves
  <2>5. \A s \in Tasks : s # u => pc'[s] \notin AnswerSteps \cup {"configBootLoader"}
    BY <1>0, <2>1, <2>4, Alone DEF BothSteps, SessionSteps, ReadSteps
  <2>6. QED
    BY <2>1, <2>2, <2>3, <2>4, <2>5, EmptyLines DEF LinkInv, AnswersAreRead, FramesAreOurs,
       SessionMode
<1>7. CASE BootIntoFirmware(u)
  <2>1. pc[u] = "leave" /\ GoTo(u, "leaveConfig")
        /\ UNCHANGED <<rx, patterns, stm32_mode, stranded>>
    BY <1>7 DEF BootIntoFirmware, RestartChip
  <2>2. chip'.in = NULL
    BY <1>7 DEF BootIntoFirmware, RestartChip, ChipAfterReset, IInv, SessionOK
  <2>3. pc'[u] = "leaveConfig" /\ \A s \in Tasks : s # u => pc'[s] = pc[s]
    BY <1>0, <2>1, OnlyMoves
  <2>4. \A s \in Tasks : s # u => pc'[s] \notin AnswerSteps \cup {"configBootLoader"}
    BY <1>0, <2>1, <2>3, Alone DEF BothSteps, SessionSteps, ReadSteps
  <2>5. QED
    BY <1>0, <2>1, <2>2, <2>3, <2>4 DEF LinkInv, LinesOK, AnswersAreRead, FramesAreOurs,
       SessionMode, Foreign
<1>8. CASE EndOfUpdate(u)
  <2>1. pc[u] = "leaveConfig" /\ GoTo(u, "report") /\ UNCHANGED <<chip, stranded>>
        /\ stm32_configSerial("FIRMWARE")
    BY <1>8 DEF EndOfUpdate
  <2>2. stm32_mode # "FIRMWARE"
    BY <1>0, <2>1 DEF LinkInv, SessionMode
  <2>3. rx' = <<>> /\ patterns' = 0
    BY <2>1, <2>2, Configured
  <2>4. pc'[u] = "report" /\ \A s \in Tasks : s # u => pc'[s] = pc[s]
    BY <1>0, <2>1, OnlyMoves
  <2>5. \A s \in Tasks : /\ pc'[s] \notin AnswerSteps \cup {"configBootLoader"}
                         /\ pc[s] \notin FrameSteps
    BY <1>0, <2>1, <2>4, Alone DEF BothSteps, SessionSteps, ReadSteps
  <2>6. QED
    BY <2>1, <2>3, <2>5, EmptyLines DEF LinkInv, AnswersAreRead, FramesAreOurs, SessionMode
<1>9. QED
  BY <1>1, <1>2, <1>3, <1>4, <1>5, <1>6, <1>7, <1>8

LEMMA StepKeepsLink == IInv /\ LinkInv /\ [Next]_vars => LinkInv'
<1> SUFFICES ASSUME IInv, LinkInv, [Next]_vars PROVE LinkInv'
  OBVIOUS
<1>1. CASE Restart
  <2>1. rx' = <<>> /\ patterns' = 0 /\ UNCHANGED chip
        /\ stranded' = (stranded \/ chip.mode = "bootloader")
        /\ \A t \in Tasks : pc'[t] = "idle"
    BY <1>1 DEF Restart, UartRestart
  <2>2. LinesOK' /\ ~Foreign'
    BY <2>1, EmptyLines
  <2>3. QED
    BY <2>1, <2>2 DEF LinkInv, AnswersAreRead, FramesAreOurs, SessionMode, AnswerSteps,
       FrameSteps
<1>2. CASE UNCHANGED vars
  BY <1>2, ElsewhereKeepsLink DEF vars, uartVars, driver, Elsewhere
<1>3. QED
  BY <1>1, <1>2, UartKeepsLink, ChipKeepsLink, UpdateKeepsLink DEF Next

\* What a reader may take comes from the firmware, for any number of readers and of
\* updates: TextComesFromFirmware of Stm32Flash.
THEOREM OnlyTextIsRead == Spec => []TextComesFromFirmware
<1>1. Init => IInv /\ LinkInv
  BY InitOK, InitLink
<1>2. IInv /\ LinkInv /\ [Next]_vars => (IInv /\ LinkInv)'
  BY StepKeepsIInv, StepKeepsLink
<1>3. IInv /\ LinkInv => TextComesFromFirmware
  <2> SUFFICES ASSUME IInv, LinkInv, ~stranded,
                      NEW t \in Tasks, pc[t] \in {"read", "receive"}
               PROVE  ~Foreign
    BY DEF TextComesFromFirmware, Foreign
  <2>1. \A s \in Tasks : s # t => pc[s] \notin AnswerSteps
    BY AloneReading DEF ReadSteps, BothSteps, SessionSteps, AnswerSteps, FrameSteps
  <2>2. QED
    BY <2>1 DEF LinkInv, AnswersAreRead, AnswerSteps, FrameSteps
<1>4. QED
  BY <1>1, <1>2, <1>3, PTL DEF Spec

---------------------------------------------------------------------------
(* What has been acknowledged has been written *)

Capacity == PageBlocks * ChipPages

UpdType ==
  [image : Seq(Contents), received : Nat,
   phase : {"start", "erase", "pages", "write", "address", "data"}, size : Nat,
   written : Seq(Contents), block : Contents \cup {NULL}, ok : BOOLEAN]

\* What an updater keeps, the file and the flash
DataOK ==
  /\ upd \in [Updaters -> UpdType]
  /\ \A u \in Updaters :
       /\ upd[u].phase # "start" => file # NULL
       /\ upd[u].phase \in {"write", "address", "data"} => upd[u].block \in Contents
  /\ file # NULL => file \in Seq(Contents)
  /\ fd # NULL => file # NULL /\ fd \in 0 .. Len(file)
  /\ flash = [a \in Addresses |-> flash[a]]

\* The blocks that have been acknowledged are in the flash.
Kept(u) ==
  \A i \in 1 .. Len(upd[u].written) :
    /\ i \in Addresses
    /\ i <= upd[u].size /\ upd[u].size <= Capacity => flash[i] = upd[u].written[i]

\* From here on the flash is blank, as far as the file goes.
BlankFrom(u, first) ==
  upd[u].size <= Capacity =>
    \A a \in Addresses : first <= a /\ a <= upd[u].size => flash[a] = "blank"

NextBlock(u) == Len(upd[u].written) + 1

\* What holds when the chip gets a frame, and when it has understood it
Due(u) ==
  /\ Kept(u)
  /\ upd[u].phase \in {"start", "erase", "pages"} => upd[u].written = <<>>
  /\ upd[u].phase \in {"write", "address", "data"} => BlankFrom(u, NextBlock(u))
  /\ upd[u].phase = "data" => chip.at = NextBlock(u) /\ chip.at \in Addresses

Done(u) ==
  /\ Kept(u)
  /\ upd[u].phase \in {"start", "erase", "pages"} => upd[u].written = <<>>
  /\ upd[u].phase \in {"pages", "write", "address"} => BlankFrom(u, NextBlock(u))
  /\ upd[u].phase \in {"address", "data"} => chip.at = NextBlock(u) /\ chip.at \in Addresses
  /\ upd[u].phase = "data" =>
       /\ BlankFrom(u, NextBlock(u) + 1)
       /\ NextBlock(u) <= upd[u].size /\ upd[u].size <= Capacity =>
            flash[NextBlock(u)] = upd[u].block

\* A frame whose answer is not waited for any longer changes nothing that was kept.
Harmless(u) ==
  chip.in # NULL => /\ chip.in.kind = "pages" => upd[u].written = <<>>
                    /\ chip.in.kind = "data" => chip.at \notin 1 .. Len(upd[u].written)

LockSteps == {"look", "wake", "lockRead", "lockWrite", "locked"}

Quiet == chip.in = NULL /\ rx = <<>>

Exchange(u) ==
  /\ pc[u] \in LockSteps /\ op[u] = "update" => upd[u] = Idle
  /\ pc[u] = "configBootLoader" => upd[u] = Idle
  /\ pc[u] = "send" => Quiet /\ Due(u)
  /\ pc[u] = "await" =>
       \/ rx = <<>> /\ chip.in = Frame(u) /\ Due(u)
       \/ chip.in = NULL /\ rx \in {<<>>, <<"nack">>} /\ Kept(u)
       \/ chip.in = NULL /\ rx = <<"ack">> /\ Done(u)
  /\ pc[u] = "open" => Quiet /\ upd[u].phase = "start" /\ upd[u].written = <<>>
  /\ pc[u] = "readFile" =>
       Quiet /\ upd[u].phase \in {"pages", "data"} /\ Kept(u) /\ BlankFrom(u, NextBlock(u))
  /\ pc[u] = "leave" /\ upd[u].ok =>
       Len(upd[u].written) = upd[u].size /\ Kept(u) /\ Harmless(u)

ExchangeInv == DataOK /\ \A u \in Updaters : Exchange(u)

LEMMA InitExchange == Init => ExchangeInv
<1> SUFFICES ASSUME Init PROVE ExchangeInv
  OBVIOUS
<1>1. \A u \in Updaters : u \in Tasks /\ pc[u] = "idle" /\ upd[u] = Idle
  BY DEF Init, UartInit, Tasks
<1>2. Idle \in UpdType /\ Idle.phase = "start"
  <2>1. <<>> \in Seq(Contents) /\ 0 \in Nat
    OBVIOUS
  <2>2. QED
    BY <2>1 DEF Idle, UpdType
<1>3. DataOK
  BY <1>1, <1>2 DEF Init, DataOK
<1>4. QED
  BY <1>1, <1>3 DEF ExchangeInv, Exchange, LockSteps

\* The first pages are erased, as many as the file needs, and their number fits in a
\* byte when the file fits in the chip.
LEMMA PageIsErased ==
  ASSUME NEW size \in Nat, size <= Capacity, NEW a \in Addresses, a <= size
  PROVE  PageOf(a) \in PagesOf(size)
<1> DEFINE x == size + PageBlocks - 1
           q == x \div PageBlocks
           p == (a - 1) \div PageBlocks
<1>0. /\ PageBlocks \in Nat \ {0} /\ ChipPages \in Nat \ {0} /\ ByteSize \in Nat \ {0}
      /\ ChipPages < ByteSize /\ PageBlocks * ChipPages \in Nat
  BY BootloaderConstantsOK
<1>1. a \in Nat /\ 1 <= a /\ x \in Nat
  BY <1>0 DEF Addresses
<1>2. q \in Nat /\ PageBlocks * q <= x /\ x < PageBlocks * q + PageBlocks
  BY <1>0, <1>1
<1>3. p \in Nat /\ PageBlocks * p <= a - 1
  BY <1>0, <1>1
<1>4. ASSUME NEW k \in Nat, NEW l \in Nat, PageBlocks * k < PageBlocks * l PROVE k < l
  <2>1. CASE l <= k
    <3>1. PICK d \in Nat : k = l + d
      BY <2>1
    <3>2. PageBlocks * k = PageBlocks * l + PageBlocks * d /\ PageBlocks * d >= 0
      BY <1>0, <3>1
    <3>3. QED
      BY <1>0, <1>4, <3>2
  <2>2. QED
    BY <2>1
<1>5. q <= ChipPages
  <2>1. PageBlocks * (ChipPages + 1) = PageBlocks * ChipPages + PageBlocks
    BY <1>0
  <2>2. PageBlocks * q < PageBlocks * (ChipPages + 1)
    BY <1>0, <1>2, <2>1 DEF Capacity
  <2>3. q < ChipPages + 1
    BY <1>0, <1>2, <1>4, <2>2
  <2>4. QED
    BY <1>0, <1>2, <2>3
<1>6. p < q
  <2>1. PageBlocks * p < PageBlocks * q
    BY <1>0, <1>1, <1>2, <1>3
  <2>2. QED
    BY <1>2, <1>3, <1>4, <2>1
<1>7. q % ByteSize = q
  BY <1>0, <1>2, <1>5
<1>8. QED
  BY <1>3, <1>6, <1>7, <1>2 DEF PageOf, PagesOf

\* An updater that is left alone, or is outside of the session with the chip
Apart(u) ==
  /\ upd'[u] = upd[u]
  /\ \/ /\ pc'[u] = pc[u] /\ op'[u] = op[u]
        /\ pc[u] \in SessionSteps => UNCHANGED <<rx, chip, flash>>
     \/ /\ pc'[u] \notin SessionSteps
        /\ pc'[u] \in LockSteps => pc[u] \in LockSteps /\ op'[u] = op[u]

LEMMA OutsideKeepsExchange ==
  ASSUME NEW u \in Updaters, pc'[u] \notin SessionSteps,
         pc'[u] \in LockSteps /\ op'[u] = "update" => upd'[u] = Idle
  PROVE  Exchange(u)'
BY DEF Exchange, SessionSteps

LEMMA ApartKeepsExchange ==
  ASSUME NEW u \in Updaters, Exchange(u), Apart(u)
  PROVE  Exchange(u)'
<1>1. CASE pc'[u] \notin SessionSteps
  BY <1>1, OutsideKeepsExchange DEF Apart, Exchange
<1>2. CASE pc'[u] \in SessionSteps
  <2>1. UNCHANGED <<rx, chip, flash>> /\ upd'[u] = upd[u] /\ pc'[u] = pc[u]
    BY <1>2 DEF Apart
  <2>2. Kept(u)' = Kept(u) /\ Due(u)' = Due(u) /\ Done(u)' = Done(u)
        /\ Harmless(u)' = Harmless(u)
        /\ Quiet' = Quiet /\ BlankFrom(u, NextBlock(u))' = BlankFrom(u, NextBlock(u))
    BY <2>1 DEF Kept, Due, Done, Harmless, Quiet, BlankFrom, NextBlock
  <2>3. Frame(u)' = Frame(u)
    BY <2>1 DEF Frame
  <2>4. pc[u] \notin LockSteps
    BY <1>2, <2>1 DEF SessionSteps, LockSteps
  <2>5. QED
    BY <2>1, <2>2, <2>3, <2>4 DEF Exchange
<1>3. QED
  BY <1>1, <1>2

LEMMA UartKeepsExchange ==
  ASSUME IInv, Control, UartNext, UNCHANGED blVars, NEW u \in Updaters
  PROVE  Apart(u)
<1> USE DEF GoTo, Return, driver, mutexes, SessionSteps, LockSteps, blVars
<1>0. u \in Tasks /\ u \notin Apps /\ u \notin Readers
  BY UartConstantsOK DEF Tasks
<1>1. CASE ChipSendsLine \/ ChipSendsOther \/ stm32_setup
  BY <1>0, <1>1 DEF ChipSendsLine, ChipSendsOther, stm32_setup, Apart, IInv, SessionOK,
     PinOK
<1>2. ASSUME NEW t \in Tasks,
             LookAtQueue(t) \/ WakeUpQueue(t) \/ LockRead(t) \/ LockWrite(t)
      PROVE  Apart(u)
  BY <1>0, <1>2 DEF Control, LookAtQueue, WakeUpQueue, LockRead, LockWrite, Apart
<1>3. ASSUME NEW t \in Tasks,
             stm32_reset(t) \/ RunFirmwareRestart(t) \/ RunFirmwareConfig(t)
      PROVE  Apart(u)
  <2>1. pc[t] \in {"locked", "config"}
    BY <1>3 DEF stm32_reset, RunFirmwareRestart, RunFirmwareConfig
  <2>2. u # t => pc[u] \notin SessionSteps
    BY <1>0, <2>1, Alone DEF BothSteps, ReadSteps
  <2>3. QED
    BY <1>0, <1>3, <2>1, <2>2 DEF Control, stm32_reset, RunFirmwareRestart,
       RunFirmwareConfig,
       Apart
<1>4. ASSUME NEW a \in Apps, AppCalls(a) \/ WriteLock(a) \/ WriteCheck(a) \/ ReadLock(a)
      PROVE  Apart(u)
  BY <1>0, <1>4 DEF Control, AppCalls, Call, WriteLock, WriteCheck, ReadLock, Apart
<1>5. ASSUME NEW a \in Apps, WriteSend(a) PROVE Apart(u)
  <2>1. a \in Tasks /\ pc[a] = "writeSend"
    BY <1>5 DEF Tasks, WriteSend
  <2>2. pc[u] \notin SessionSteps
    BY <1>0, <2>1, AloneWriting DEF WriteSteps, BothSteps
  <2>3. QED
    BY <1>0, <1>5, <2>2 DEF Control, WriteSend, Apart
<1>6. ASSUME NEW a \in Apps, ReadBytes(a) PROVE Apart(u)
  <2>1. a \in Tasks /\ pc[a] = "read"
    BY <1>6 DEF Tasks, ReadBytes
  <2>2. pc[u] \notin SessionSteps
    BY <1>0, <2>1, AloneReading DEF ReadSteps, BothSteps
  <2>3. QED
    BY <1>0, <1>6, <2>2 DEF Control, ReadBytes, Apart
<1>7. ASSUME NEW r \in Readers, ReadLineLook(r) \/ ReadLineLock(r) PROVE Apart(u)
  BY <1>0, <1>7 DEF Control, ReadLineLook, ReadLineLock, Apart
<1>8. ASSUME NEW r \in Readers, Receive(r) PROVE Apart(u)
  <2>1. r \in Tasks /\ pc[r] = "receive"
    BY <1>8 DEF Tasks, Receive
  <2>2. pc[u] \notin SessionSteps
    BY <1>0, <2>1, AloneReading DEF ReadSteps, BothSteps
  <2>3. QED
    BY <1>0, <1>8, <2>2 DEF Control, Receive, Apart
<1>9. QED
  BY <1>1, <1>2, <1>3, <1>4, <1>5, <1>6, <1>7, <1>8 DEF UartNext, Tasks

\* A step of an updater leaves the others apart from the exchange.
LEMMA OthersStayApart ==
  ASSUME IInv, Control, NEW u \in Updaters, NEW v \in Updaters \ {u},
         upd \in [Updaters -> UpdType],
         \/ SendFrame(u) \/ Acked(u) \/ NotAcked(u) \/ OpenFile(u) \/ ReadFile(u)
         \/ stm32ota_doUpdate(u) \/ BeginUpdate(u)
         \/ DownloadData(u) \/ DownloadFinishes(u) \/ DownloadFails(u)
         \/ BootIntoBootLoader(u) \/ ConfigBootLoader(u)
         \/ BootIntoFirmware(u) \/ EndOfUpdate(u) \/ Report(u)
  PROVE  Apart(v)
<1> USE DEF GoTo, driver, mutexes, blVars, uartVars
<1>0. u \in Tasks /\ v \in Tasks /\ u # v
  BY DEF Tasks
<1>1. CASE \/ stm32ota_doUpdate(u) \/ BeginUpdate(u)
           \/ DownloadData(u) \/ DownloadFinishes(u) \/ DownloadFails(u) \/ Report(u)
  BY <1>0, <1>1 DEF Control, Apart, stm32ota_doUpdate, BeginUpdate, DownloadData,
     DownloadFinishes, DownloadFails, Report
<1>2. CASE \/ SendFrame(u) \/ Acked(u) \/ NotAcked(u) \/ OpenFile(u) \/ ReadFile(u)
           \/ BootIntoBootLoader(u) \/ ConfigBootLoader(u)
           \/ BootIntoFirmware(u) \/ EndOfUpdate(u)
  <2>1. pc[u] \in BothSteps
    BY <1>2 DEF BothSteps, SessionSteps, SendFrame, Acked, NotAcked, OpenFile, ReadFile,
       BootIntoBootLoader, ConfigBootLoader, BootIntoFirmware, EndOfUpdate
  <2>2. pc[v] \notin SessionSteps
    BY <1>0, <2>1, Alone DEF ReadSteps, BothSteps
  <2>3. pc'[v] = pc[v] /\ op'[v] = op[v] /\ upd'[v] = upd[v]
    BY <1>0, <1>2 DEF Control, SendFrame, Acked, NotAcked, OpenFile, ReadFile, Leave,
       BootIntoBootLoader, ConfigBootLoader, BootIntoFirmware, EndOfUpdate
  <2>4. QED
    BY <2>2, <2>3 DEF Apart
<1>3. QED
  BY <1>1, <1>2

\* The types of what an updater keeps
LEMMA UpdaterKeepsType ==
  ASSUME NEW u \in Updaters, upd \in [Updaters -> UpdType], NEW r \in UpdType,
         upd' = [upd EXCEPT ![u] = r]
  PROVE  /\ upd' \in [Updaters -> UpdType] /\ upd'[u] = r
         /\ \A v \in Updaters : v # u => upd'[v] = upd[v]
OBVIOUS

LEMMA IdleHasType ==
  Idle \in UpdType /\ Idle.phase = "start" /\ Idle.size = 0 /\ Idle.written = <<>>
<1>1. <<>> \in Seq(Contents) /\ 0 \in Nat
  OBVIOUS
<1>2. QED
  BY <1>1 DEF Idle, UpdType

\* A block that is written at an offset within the file leaves it a file.
LEMMA FileStaysFile ==
  ASSUME NEW f \in Seq(Contents), NEW offset \in 0 .. Len(f), NEW block \in Contents
  PROVE  Overwritten(f, offset, block) \in Seq(Contents)
         /\ offset + 1 <= Len(Overwritten(f, offset, block))
<1> DEFINE n == IF offset < Len(f) THEN Len(f) ELSE offset + 1
           g == [j \in 1 .. n |-> IF j = offset + 1 THEN block ELSE f[j]]
<1>1. Len(f) \in Nat /\ n \in Nat /\ offset + 1 <= n
  OBVIOUS
<1>2. \A j \in 1 .. n : j # offset + 1 => j \in 1 .. Len(f)
  BY <1>1
<1>3. \A j \in 1 .. n : g[j] \in Contents
  BY <1>1, <1>2
<1>4. g \in Seq(Contents) /\ Len(g) = n
  <2>1. g \in [1 .. n -> Contents]
    BY <1>3
  <2> HIDE DEF g, n
  <2>2. QED
    BY <1>1, <2>1
<1>5. QED
  BY <1>1, <1>4 DEF Overwritten

LEMMA DownloadKeepsData ==
  ASSUME DataOK, NEW u \in Updaters, DownloadData(u)
  PROVE  DataOK'
<1>0. \A img \in Images : img \in Seq(Contents)
  BY FlashConstantsOK
<1> DEFINE next  == upd[u].received + 1
           block == upd[u].image[next]
<1>1. upd[u] \in UpdType /\ upd[u].image \in Seq(Contents) /\ upd[u].received \in Nat
  BY DEF DataOK, UpdType
<1>2. next \in 1 .. Len(upd[u].image) /\ block \in Contents /\ next \in Nat
  BY <1>1 DEF DownloadData
<1>3. /\ upd' \in [Updaters -> UpdType]
      /\ \A v \in Updaters : upd'[v].phase = upd[v].phase /\ upd'[v].block = upd[v].block
  BY <1>1, <1>2 DEF DownloadData, DataOK, UpdType
<1>4. NULL \notin Seq(Contents)
  BY FlashConstantsOK
<1>5. CASE UNCHANGED <<file, fd>>
  BY <1>3, <1>5 DEF DownloadData, DataOK
<1>6. CASE fd = NULL /\ file' = <<block>> /\ fd' = 1
  <2>1. <<block>> \in Seq(Contents) /\ Len(<<block>>) = 1
    BY <1>2
  <2>2. file' # NULL /\ file' \in Seq(Contents) /\ fd' \in 0 .. Len(file')
    BY <1>4, <1>6, <2>1
  <2>3. QED
    BY <1>3, <2>2 DEF DownloadData, DataOK
<1>7. CASE fd # NULL /\ file' = Overwritten(file, fd, block) /\ fd' = fd + 1
  <2>1. file \in Seq(Contents) /\ fd \in 0 .. Len(file)
    BY <1>7 DEF DataOK
  <2>2. file' \in Seq(Contents) /\ fd + 1 <= Len(file')
    BY <1>2, <1>7, <2>1, FileStaysFile
  <2>3. fd' \in 0 .. Len(file') /\ file' # NULL
    BY <1>4, <1>7, <2>1, <2>2
  <2>4. QED
    BY <1>3, <2>2, <2>3 DEF DownloadData, DataOK
<1>8. QED
  BY <1>5, <1>6, <1>7 DEF DownloadData

LEMMA StepKeepsData == ExchangeInv /\ [Next]_vars => DataOK'
<1> SUFFICES ASSUME ExchangeInv, [Next]_vars PROVE DataOK'
  OBVIOUS
<1>0. DataOK
  BY DEF ExchangeInv
<1>1. CASE UNCHANGED <<blVars, fd>>
  BY <1>0, <1>1 DEF DataOK, blVars
<1>2. CASE ChipAnswers /\ UNCHANGED <<state, fd>>
  <2>1. UNCHANGED <<upd, file, fd>>
    BY <1>2 DEF ChipAnswers
  <2>2. flash' = [a \in Addresses |-> flash'[a]]
    BY <1>0, <1>2 DEF ChipAnswers, DataOK
  <2>3. QED
    BY <1>0, <2>1, <2>2 DEF DataOK
<1>3. ASSUME NEW u \in Updaters, Acked(u), UNCHANGED <<state, fd>> PROVE DataOK'
  <2>1. upd[u] \in UpdType /\ UNCHANGED <<flash, file, fd>>
    BY <1>0, <1>3 DEF Acked, DataOK
  <2>2. CASE UNCHANGED upd
    BY <1>0, <2>1, <2>2 DEF DataOK
  <2>3. CASE upd[u].phase = "data"
        /\ upd' = [upd EXCEPT ![u].written = Append(@, upd[u].block)]
    <3>1. upd[u].written \in Seq(Contents) /\ upd[u].block \in Contents
      BY <1>0, <2>1, <2>3 DEF DataOK, UpdType
    <3>2. Append(upd[u].written, upd[u].block) \in Seq(Contents)
      BY <3>1
    <3>3. QED
      BY <1>0, <2>1, <2>3, <3>2 DEF DataOK, UpdType
  <2>4. CASE upd[u].phase \in DOMAIN PhaseAfter
             /\ upd' = [upd EXCEPT ![u].phase = PhaseAfter[upd[u].phase]]
    <3>1. PhaseAfter[upd[u].phase] \in {"pages", "address", "data"}
          /\ upd[u].phase # "start"
          /\ (PhaseAfter[upd[u].phase] # "pages" => upd[u].block \in Contents)
      BY <1>0, <2>4 DEF PhaseAfter, DataOK
    <3>2. QED
      BY <1>0, <2>1, <2>4, <3>1 DEF DataOK, UpdType
  <2>5. QED
    BY <1>3, <2>2, <2>3, <2>4 DEF Acked
<1>4. ASSUME NEW u \in Updaters, NEW size \in Nat, NEW ok \in BOOLEAN,
             Leave(u, [size |-> size, ok |-> ok]), UNCHANGED <<flash, file, fd>>
      PROVE  DataOK'
  <2> DEFINE sized == [upd EXCEPT ![u].size = size]
  <2>1. sized \in [Updaters -> UpdType] /\ \A v \in Updaters : sized[v].phase = upd[v].phase
                                          /\ sized[v].block = upd[v].block
    BY <1>0 DEF DataOK, UpdType
  <2>2. upd' = [sized EXCEPT ![u].ok = ok]
    BY <1>4 DEF Leave
  <2> HIDE DEF sized
  <2>3. upd' \in [Updaters -> UpdType] /\ \A v \in Updaters : upd'[v].phase = upd[v].phase
                                         /\ upd'[v].block = upd[v].block
    BY <2>1, <2>2 DEF UpdType
  <2>4. QED
    BY <1>0, <1>4, <2>3 DEF DataOK
<1>5. ASSUME NEW u \in Updaters, NotAcked(u), UNCHANGED <<state, fd>> PROVE DataOK'
  <2>1. upd[u].size \in Nat
    BY <1>0 DEF DataOK, UpdType
  <2>2. QED
    BY <1>4, <1>5, <2>1 DEF NotAcked
<1>6. ASSUME NEW u \in Updaters, OpenFile(u), UNCHANGED <<state, fd>> PROVE DataOK'
  <2>1. CASE Leave(u, [size |-> 0, ok |-> TRUE])
    BY <1>4, <1>6, <2>1 DEF OpenFile
  <2>2. CASE file # NULL /\ upd' = [upd EXCEPT ![u].size = Len(file), ![u].phase = "erase"]
    <3>1. Len(file) \in Nat
      BY <1>0, <2>2 DEF DataOK
    <3> DEFINE sized == [upd EXCEPT ![u].size = Len(file)]
    <3>2. sized \in [Updaters -> UpdType]
          /\ \A v \in Updaters : sized[v].phase = upd[v].phase
                                            /\ sized[v].block = upd[v].block
      BY <1>0, <3>1 DEF DataOK, UpdType
    <3>3. upd' = [sized EXCEPT ![u].phase = "erase"]
      BY <2>2
    <3> HIDE DEF sized
    <3>4. /\ upd' \in [Updaters -> UpdType] /\ upd'[u].phase = "erase"
          /\ \A v \in Updaters : /\ upd'[v].block = upd[v].block
                                /\ v # u => upd'[v].phase = upd[v].phase
      BY <3>2, <3>3 DEF UpdType
    <3>5. QED
      BY <1>0, <1>6, <2>2, <3>4 DEF OpenFile, DataOK
  <2>3. QED
    BY <1>6, <2>1, <2>2 DEF OpenFile
<1>7. ASSUME NEW u \in Updaters, ReadFile(u), UNCHANGED <<state, fd>> PROVE DataOK'
  <2>1. upd[u].size \in Nat /\ upd[u].written \in Seq(Contents)
        /\ Len(upd[u].written) \in Nat
    BY <1>0 DEF DataOK, UpdType
  <2>2. CASE Leave(u, [size |-> upd[u].size, ok |-> Len(upd[u].written) = upd[u].size])
    BY <1>4, <1>7, <2>1, <2>2 DEF ReadFile
  <2>3. CASE /\ Len(upd[u].written) + 1 \in DOMAIN file
             /\ upd' = [upd EXCEPT ![u].block = file[Len(upd[u].written) + 1],
                                   ![u].phase = "write"]
    <3>1. file # NULL /\ file \in Seq(Contents)
      BY <1>0, <1>7 DEF ReadFile, ExchangeInv, Exchange, DataOK
    <3>2. file[Len(upd[u].written) + 1] \in Contents
      BY <2>3, <3>1
    <3> DEFINE block == file[Len(upd[u].written) + 1]
               given == [upd EXCEPT ![u].block = block]
    <3>3. given \in [Updaters -> UpdType] /\ given[u].block \in Contents
          /\ \A v \in Updaters \ {u} : given[v] = upd[v]
      BY <1>0, <3>2 DEF DataOK, UpdType
    <3>4. upd' = [given EXCEPT ![u].phase = "write"]
      BY <2>3
    <3> HIDE DEF given
    <3>5. /\ upd' \in [Updaters -> UpdType] /\ upd'[u].block \in Contents
          /\ \A v \in Updaters \ {u} : upd'[v] = upd[v]
      BY <3>3, <3>4 DEF UpdType
    <3>6. QED
      BY <1>0, <1>7, <3>1, <3>5 DEF ReadFile, DataOK
  <2>4. QED
    BY <1>7, <2>2, <2>3 DEF ReadFile
<1>8. ASSUME NEW u \in Updaters, stm32ota_doUpdate(u) PROVE DataOK'
  <2>1. PICK img \in Images : upd' = [upd EXCEPT ![u] = [Idle EXCEPT !.image = img]]
    BY <1>8 DEF stm32ota_doUpdate
  <2>2. [Idle EXCEPT !.image = img] \in UpdType
        /\ [Idle EXCEPT !.image = img].phase = "start"
    BY IdleHasType, FlashConstantsOK DEF Idle, UpdType
  <2>3. QED
    BY <1>0, <1>8, <2>1, <2>2, UpdaterKeepsType DEF stm32ota_doUpdate, DataOK
<1>9. ASSUME NEW u \in Updaters, DownloadFinishes(u) \/ DownloadFails(u) \/ Report(u)
      PROVE  DataOK'
  BY <1>0, <1>9, UpdaterKeepsType, IdleHasType DEF DownloadFinishes, DownloadFails,
     Report, DataOK
<1>10. ASSUME NEW u \in Updaters, BootIntoFirmware(u) PROVE DataOK'
  <2>1. [Idle EXCEPT !.ok = upd[u].ok] \in UpdType
        /\ [Idle EXCEPT !.ok = upd[u].ok].phase = "start"
    BY <1>0, IdleHasType DEF Idle, UpdType, DataOK
  <2>2. QED
    BY <1>0, <1>10, <2>1, UpdaterKeepsType DEF BootIntoFirmware, DataOK
<1>11. CASE Restart
  BY <1>0, <1>11, IdleHasType DEF Restart, DataOK
<1>12. ASSUME NEW u \in Updaters, DownloadData(u) PROVE DataOK'
  BY <1>0, <1>12, DownloadKeepsData
<1>13. QED
  <2>1. CASE UNCHANGED vars
    BY <1>1, <2>1 DEF vars
  <2>2. CASE ChipIsSilent /\ UNCHANGED <<state, fd>>
    BY <1>1, <2>2 DEF ChipIsSilent
  <2>3. ASSUME NEW u \in Updaters, SendFrame(u), UNCHANGED <<state, fd>> PROVE DataOK'
    BY <1>1, <2>3 DEF SendFrame
  <2>4. ASSUME NEW u \in Updaters,
               \/ BeginUpdate(u) \/ BootIntoBootLoader(u)
               \/ ConfigBootLoader(u) \/ EndOfUpdate(u)
        PROVE  DataOK'
    BY <1>1, <2>4 DEF BeginUpdate, BootIntoBootLoader, ConfigBootLoader, EndOfUpdate
  <2>5. QED
    BY <1>1, <1>2, <1>3, <1>5, <1>6, <1>7, <1>8, <1>9, <1>10, <1>11, <1>12, <2>1, <2>2,
       <2>3,
       <2>4 DEF Next

---------------------------------------------------------------------------
(* The steps of the exchange *)

LEMMA WrittenIsSequence ==
  ASSUME DataOK, NEW u \in Updaters
  PROVE  /\ upd[u] \in UpdType /\ upd[u].written \in Seq(Contents) /\ upd[u].size \in Nat
         /\ Len(upd[u].written) \in Nat /\ NextBlock(u) \in Nat
         /\ upd[u].phase \in {"start", "erase", "pages", "write", "address", "data"}
         /\ upd[u].written = <<>> => Len(upd[u].written) = 0
         /\ Capacity \in Nat /\ Addresses = 1 .. Capacity
BY BootloaderConstantsOK DEF DataOK, UpdType, NextBlock, Capacity, Addresses

\* The chip has understood the frame it was due.
LEMMA FrameIsDone ==
  ASSUME DataOK, SessionOK, ChipAnswers, NEW u \in Updaters,
         chip.in = Frame(u), Due(u), Understood(Frame(u))
  PROVE  Done(u)'
<1> DEFINE f == Frame(u)
           n == NextBlock(u)
<1>1. /\ upd[u] \in UpdType /\ upd[u].written \in Seq(Contents) /\ upd[u].size \in Nat
      /\ Len(upd[u].written) \in Nat /\ n \in Nat /\ n = Len(upd[u].written) + 1
      /\ upd[u].phase \in {"start", "erase", "pages", "write", "address", "data"}
      /\ upd[u].written = <<>> => Len(upd[u].written) = 0
      /\ Capacity \in Nat /\ Addresses = 1 .. Capacity
  BY WrittenIsSequence DEF NextBlock
<1>2. f.kind = upd[u].phase
  BY DEF Frame
<1>3. /\ upd[u].phase = "pages" => f.arg = PagesOf(upd[u].size)
      /\ upd[u].phase = "address" => f.arg = n
      /\ upd[u].phase = "data" => f.arg = upd[u].block
  BY DEF Frame, NextBlock
<1>4. UNCHANGED upd /\ n' = n
  BY DEF ChipAnswers, NextBlock
<1>5. /\ f.kind = "address" => f.arg \in Addresses /\ chip'.at = f.arg
      /\ f.kind # "address" => chip'.at = chip.at
  BY DEF Understood, ChipAnswers, SessionOK
<1>6. /\ f.kind = "pages" => flash' = [a \in Addresses |->
                                         IF PageOf(a) \in f.arg THEN "blank" ELSE flash[a]]
      /\ f.kind = "data" => flash' = [flash EXCEPT ![chip.at] =
                                        IF @ = "blank" THEN f.arg ELSE "garbled"]
      /\ f.kind \notin {"pages", "data"} => flash' = flash
  BY DEF ChipAnswers
<1> HIDE DEF f, n
<1>7. CASE upd[u].phase \in {"start", "erase", "write", "address"}
  <2>1. flash' = flash
    BY <1>2, <1>6, <1>7
  <2>2. Kept(u)'
    BY <1>4, <2>1 DEF Due, Kept
  <2>3. BlankFrom(u, n)' = BlankFrom(u, n)
    BY <1>4, <2>1 DEF BlankFrom
  <2>4. upd[u].phase = "address" => chip'.at = n /\ n \in Addresses
    BY <1>2, <1>3, <1>5
  <2>5. QED
    BY <1>4, <1>7, <2>2, <2>3, <2>4 DEF Due, Done, n
<1>8. CASE upd[u].phase = "pages"
  <2>1. upd[u].written = <<>> /\ Len(upd[u].written) = 0
    BY <1>1, <1>8 DEF Due
  <2>2. Kept(u)'
    BY <1>4, <2>1 DEF Kept
  <2>3. ASSUME upd[u].size <= Capacity, NEW a \in Addresses, a <= upd[u].size
        PROVE  flash'[a] = "blank"
    <3>1. PageOf(a) \in f.arg
      BY <1>1, <1>3, <1>8, <2>3, PageIsErased
    <3>2. QED
      BY <1>2, <1>6, <1>8, <3>1
  <2>4. BlankFrom(u, n)'
    BY <1>4, <2>3 DEF BlankFrom
  <2>5. QED
    BY <1>4, <1>8, <2>1, <2>2, <2>4 DEF Done, n
<1>9. CASE upd[u].phase = "data"
  <2>1. chip.at = n /\ n \in Addresses /\ chip'.at = n
    BY <1>2, <1>5, <1>9 DEF Due, n
  <2>2. flash = [a \in Addresses |-> flash[a]]
    BY DEF DataOK
  <2>3. /\ flash'[n] = IF flash[n] = "blank" THEN upd[u].block ELSE "garbled"
        /\ \A a \in Addresses : a # n => flash'[a] = flash[a]
    BY <1>2, <1>3, <1>6, <1>9, <2>1, <2>2
  <2>4. Kept(u)'
    BY <1>1, <1>4, <2>3 DEF Due, Kept
  <2>5. n <= upd[u].size /\ upd[u].size <= Capacity => flash'[n] = upd[u].block
    <3>1. BlankFrom(u, n)
      BY <1>9 DEF Due, n
    <3>2. QED
      BY <1>1, <2>1, <2>3, <3>1 DEF BlankFrom
  <2>6. BlankFrom(u, n + 1)'
    <3>1. BlankFrom(u, n)
      BY <1>9 DEF Due, n
    <3>2. QED
      BY <1>1, <1>4, <2>3, <3>1 DEF BlankFrom
  <2>7. QED
    BY <1>4, <1>9, <2>1, <2>4, <2>5, <2>6 DEF Done, n
<1>10. QED
  BY <1>1, <1>7, <1>8, <1>9

LEMMA ChipKeepsExchange ==
  ASSUME IInv, DataOK, NEW u \in Updaters, Exchange(u), ChipAnswers \/ ChipIsSilent
  PROVE  Exchange(u)'
<1>1. UNCHANGED <<pc, op, upd>> /\ chip'.in = NULL /\ chip.in # NULL
  BY DEF ChipAnswers, ChipIsSilent, IInv, SessionOK, blVars
<1>2. /\ upd[u] \in UpdType /\ upd[u].written \in Seq(Contents)
      /\ Len(upd[u].written) \in Nat
  BY WrittenIsSequence
<1>3. ChipIsSilent => UNCHANGED <<rx, flash>>
  BY DEF ChipIsSilent, driver, blVars
<1>4. CASE pc[u] = "await"
  <2>1. rx = <<>> /\ chip.in = Frame(u) /\ Due(u)
    BY <1>1, <1>4 DEF Exchange
  <2>2. CASE UNCHANGED <<rx, flash>>
    <3>1. Kept(u)'
      BY <1>1, <2>1, <2>2 DEF Due, Kept
    <3>2. QED
      BY <1>1, <1>4, <2>1, <2>2, <3>1 DEF Exchange, LockSteps
  <2>3. CASE ChipAnswers
    <3>1. Append(rx, "ack") = <<"ack">> /\ Append(rx, "nack") = <<"nack">>
      BY <2>1
    <3>2. CASE Understood(Frame(u))
      <4>1. Done(u)' /\ Kept(u)'
        BY <2>1, <2>3, <3>2, FrameIsDone DEF IInv, Done
      <4>2. rx' \in {<<>>, <<"ack">>}
        BY <2>1, <2>3, <3>1, <3>2 DEF ChipAnswers
      <4>3. QED
        BY <1>1, <1>4, <4>1, <4>2 DEF Exchange, LockSteps
    <3>3. CASE ~Understood(Frame(u))
      <4>1. Kept(u)'
        BY <1>1, <2>1, <2>3, <3>3 DEF ChipAnswers, Due, Kept
      <4>2. rx' \in {<<>>, <<"nack">>}
        BY <2>1, <2>3, <3>1, <3>3 DEF ChipAnswers
      <4>3. QED
        BY <1>1, <1>4, <4>1, <4>2 DEF Exchange, LockSteps
    <3>4. QED
      BY <3>2, <3>3
  <2>4. QED
    BY <1>3, <2>2, <2>3
<1>5. CASE pc[u] = "leave" /\ upd[u].ok
  <2>1. Len(upd[u].written) = upd[u].size /\ Kept(u) /\ Harmless(u)
    BY <1>5 DEF Exchange
  <2>2. Kept(u)'
    <3>1. CASE flash' = flash
      BY <1>1, <2>1, <3>1 DEF Kept
    <3>2. CASE ChipAnswers /\ chip.in.kind = "pages"
      BY <1>1, <1>2, <2>1, <3>2 DEF Kept, Harmless
    <3>3. CASE ChipAnswers /\ chip.in.kind = "data" /\ flash' # flash
      <4>1. chip.at \notin 1 .. Len(upd[u].written)
        BY <1>1, <2>1, <3>3 DEF Harmless
      <4>2. flash' = [flash EXCEPT ![chip.at] =
                        IF @ = "blank" THEN chip.in.arg ELSE "garbled"]
        BY <3>3 DEF ChipAnswers
      <4>3. flash = [a \in Addresses |-> flash[a]]
        BY DEF DataOK
      <4>4. QED
        BY <1>1, <1>2, <2>1, <4>1, <4>2, <4>3 DEF Kept
    <3>4. QED
      BY <1>3, <3>1, <3>2, <3>3 DEF ChipAnswers
  <2>3. QED
    BY <1>1, <1>5, <2>1, <2>2 DEF Exchange, Harmless, LockSteps
<1>6. CASE \/ pc[u] \notin {"send", "await", "open", "readFile", "leave"}
           \/ pc[u] = "leave" /\ ~upd[u].ok
  BY <1>1, <1>6 DEF Exchange
<1>7. QED
  BY <1>1, <1>4, <1>5, <1>6 DEF Exchange, Quiet

\* A task that sends a frame, and one that has been answered or has waited long enough
LEMMA SendKeepsExchange ==
  ASSUME IInv, NEW u \in Updaters, Exchange(u), SendFrame(u)
  PROVE  Exchange(u)'
<1>1. u \in Tasks /\ pc[u] = "send" /\ GoTo(u, "await") /\ UNCHANGED <<rx, upd, flash>>
  BY DEF SendFrame, Tasks, driver, blVars
<1>2. pc'[u] = "await"
  BY <1>1, OnlyMoves
<1>3. Quiet /\ Due(u)
  BY <1>1 DEF Exchange
<1>4. Frame(u)' = Frame(u)
  BY <1>1 DEF Frame
<1>5. chip' = [chip EXCEPT !.in = Frame(u)] \/ chip' = chip
  BY DEF SendFrame
<1>6. chip'.at = chip.at /\ (chip'.in = Frame(u) \/ chip'.in = NULL)
  BY <1>3, <1>5 DEF IInv, SessionOK, Quiet
<1>7. Kept(u)' /\ Due(u)'
  BY <1>1, <1>3, <1>6 DEF Due, Kept, BlankFrom, NextBlock
<1>8. QED
  BY <1>1, <1>2, <1>3, <1>4, <1>6, <1>7 DEF Exchange, Quiet, LockSteps

LEMMA AckedKeepsExchange ==
  ASSUME IInv, DataOK, NEW u \in Updaters, Exchange(u), Acked(u)
  PROVE  Exchange(u)'
<1>1. /\ u \in Tasks /\ pc[u] = "await" /\ rx = <<"ack">> /\ rx' = <<>>
      /\ UNCHANGED <<chip, flash>>
  BY DEF Acked, AckReceived, Tasks
<1>2. chip.in = NULL /\ Done(u)
  <2>1. <<"ack">> # <<>> /\ <<"ack">> # <<"nack">>
    OBVIOUS
  <2>2. QED
    BY <1>1, <2>1 DEF Exchange
<1>3. Quiet'
  BY <1>1, <1>2 DEF Quiet
<1>4. /\ upd[u] \in UpdType /\ upd[u].written \in Seq(Contents) /\ upd[u].size \in Nat
      /\ Len(upd[u].written) \in Nat /\ NextBlock(u) = Len(upd[u].written) + 1
      /\ Capacity \in Nat /\ Addresses = 1 .. Capacity
      /\ upd \in [Updaters -> UpdType]
  BY WrittenIsSequence DEF NextBlock, DataOK
<1>5. CASE /\ upd[u].phase \in DOMAIN PhaseAfter
           /\ upd' = [upd EXCEPT ![u].phase = PhaseAfter[upd[u].phase]]
           /\ GoTo(u, "send")
  <2>1. /\ upd'[u].written = upd[u].written /\ upd'[u].size = upd[u].size
        /\ upd'[u].phase = PhaseAfter[upd[u].phase]
    BY <1>4, <1>5 DEF UpdType
  <2>2. \/ upd[u].phase = "erase" /\ upd'[u].phase = "pages"
        \/ upd[u].phase = "write" /\ upd'[u].phase = "address"
        \/ upd[u].phase = "address" /\ upd'[u].phase = "data"
    BY <1>5, <2>1 DEF PhaseAfter
  <2>3. Kept(u)' /\ NextBlock(u)' = NextBlock(u)
        /\ BlankFrom(u, NextBlock(u))' = BlankFrom(u, NextBlock(u))
    BY <1>1, <1>2, <2>1 DEF Done, Kept, BlankFrom, NextBlock
  <2>4. Due(u)'
    BY <1>1, <1>2, <2>1, <2>2, <2>3 DEF Done, Due
  <2>5. pc'[u] = "send"
    BY <1>1, <1>5, OnlyMoves
  <2>6. QED
    BY <1>3, <2>4, <2>5 DEF Exchange, LockSteps
<1>6. CASE upd[u].phase = "start" /\ UNCHANGED upd /\ GoTo(u, "open")
  <2>1. pc'[u] = "open"
    BY <1>1, <1>6, OnlyMoves
  <2>2. QED
    BY <1>2, <1>3, <1>6, <2>1 DEF Exchange, Done, LockSteps
<1>7. CASE upd[u].phase = "pages" /\ UNCHANGED upd /\ GoTo(u, "readFile")
  <2>1. pc'[u] = "readFile"
    BY <1>1, <1>7, OnlyMoves
  <2>2. Kept(u)' /\ BlankFrom(u, NextBlock(u))'
    BY <1>1, <1>2, <1>7 DEF Done, Kept, BlankFrom, NextBlock
  <2>3. QED
    BY <1>3, <1>7, <2>1, <2>2 DEF Exchange, LockSteps
<1>8. CASE /\ upd[u].phase = "data"
           /\ upd' = [upd EXCEPT ![u].written = Append(@, upd[u].block)]
           /\ GoTo(u, "readFile")
  <2> DEFINE more == Append(upd[u].written, upd[u].block)
  <2>1. upd[u].block \in Contents
    BY <1>8 DEF DataOK
  <2>2. /\ more \in Seq(Contents) /\ Len(more) = Len(upd[u].written) + 1
        /\ more[Len(upd[u].written) + 1] = upd[u].block
        /\ \A j \in 1 .. Len(upd[u].written) : more[j] = upd[u].written[j]
    BY <1>4, <2>1
  <2>3. upd'[u].written = more /\ upd'[u].size = upd[u].size /\ upd'[u].phase = "data"
    BY <1>4, <1>8 DEF UpdType
  <2> HIDE DEF more
  <2>4. NextBlock(u)' = NextBlock(u) + 1
    BY <2>2, <2>3, <1>4 DEF NextBlock
  <2>5. Kept(u)'
    <3>1. NextBlock(u) \in Addresses
      BY <1>2, <1>8 DEF Done
    <3>2. ASSUME NEW j \in 1 .. Len(more)
          PROVE  /\ j \in Addresses
                 /\ j <= upd[u].size /\ upd[u].size <= Capacity => flash[j] = more[j]
      <4>1. CASE j = Len(upd[u].written) + 1
        BY <1>2, <1>4, <1>8, <2>2, <3>1, <4>1 DEF Done
      <4>2. CASE j \in 1 .. Len(upd[u].written)
        BY <1>2, <2>2, <4>2 DEF Done, Kept
      <4>3. QED
        BY <1>4, <2>2, <4>1, <4>2
    <3>3. QED
      BY <1>1, <2>3, <3>2 DEF Kept
  <2>6. BlankFrom(u, NextBlock(u))'
    BY <1>1, <1>2, <1>8, <2>3, <2>4 DEF Done, BlankFrom
  <2>7. pc'[u] = "readFile"
    BY <1>1, <1>8, OnlyMoves
  <2>8. QED
    BY <1>3, <2>3, <2>5, <2>6, <2>7 DEF Exchange, LockSteps
<1>9. QED
  BY <1>5, <1>6, <1>7, <1>8 DEF Acked

\* What the task keeps when it leaves
LEMMA LeaveKeepsData ==
  ASSUME DataOK, NEW u \in Updaters, NEW size \in Nat, NEW ok \in BOOLEAN,
         Leave(u, [size |-> size, ok |-> ok])
  PROVE  upd'[u].size = size /\ upd'[u].ok = ok /\ upd'[u].written = upd[u].written
<1> DEFINE sized == [upd EXCEPT ![u].size = size]
<1>1. sized \in [Updaters -> UpdType] /\ sized[u].size = size
      /\ sized[u].written = upd[u].written
  BY DEF DataOK, UpdType
<1>2. upd' = [sized EXCEPT ![u].ok = ok]
  BY DEF Leave
<1> HIDE DEF sized
<1>3. QED
  BY <1>1, <1>2 DEF UpdType

LEMMA LeaveKeepsExchange ==
  ASSUME IInv, DataOK, NEW u \in Updaters, NEW size \in Nat, NEW ok \in BOOLEAN,
         Leave(u, [size |-> size, ok |-> ok]), UNCHANGED <<chip, flash>>,
         ok => /\ Len(upd[u].written) = size /\ Kept(u) /\ Harmless(u)
               /\ size = upd[u].size \/ upd[u].written = <<>>
  PROVE  Exchange(u)'
<1>1. pc'[u] = "leave"
  BY OnlyMoves DEF Leave, Tasks
<1>2. upd'[u].size = size /\ upd'[u].ok = ok /\ upd'[u].written = upd[u].written
  BY LeaveKeepsData
<1>3. ok => Kept(u)' /\ Harmless(u)'
  <2>1. CASE ok /\ size = upd[u].size
    BY <1>2, <2>1 DEF Kept, Harmless
  <2>2. CASE ok /\ upd[u].written = <<>>
    BY <1>2, <2>2 DEF Kept, Harmless
  <2>3. QED
    BY <2>1, <2>2
<1>4. QED
  BY <1>1, <1>2, <1>3 DEF Exchange, LockSteps

LEMMA NotAckedKeepsExchange ==
  ASSUME IInv, DataOK, NEW u \in Updaters, Exchange(u), NotAcked(u)
  PROVE  Exchange(u)'
<1> DEFINE ok == upd[u].phase # "start" /\ Len(upd[u].written) = upd[u].size
<1>1. pc[u] = "await" /\ UNCHANGED <<chip, flash>>
      /\ Leave(u, [size |-> upd[u].size, ok |-> ok])
  BY DEF NotAcked
<1>2. /\ upd[u].written \in Seq(Contents) /\ upd[u].size \in Nat
      /\ Len(upd[u].written) \in Nat /\ NextBlock(u) = Len(upd[u].written) + 1
      /\ ok \in BOOLEAN
  BY WrittenIsSequence DEF NextBlock
<1>3. Kept(u)
  BY <1>1 DEF Exchange, Due, Done
<1>4. Harmless(u)
  <2>1. CASE chip.in = NULL
    BY <2>1 DEF Harmless
  <2>2. CASE chip.in = Frame(u) /\ Due(u)
    <3>1. chip.in.kind = upd[u].phase
      BY <2>2 DEF Frame
    <3>2. QED
      BY <1>2, <2>2, <3>1 DEF Harmless, Due
  <2>3. QED
    BY <1>1, <2>1, <2>2 DEF Exchange
<1>5. ok => Len(upd[u].written) = upd[u].size
  OBVIOUS
<1> HIDE DEF ok
<1>6. QED
  BY <1>1, <1>2, <1>3, <1>4, <1>5, LeaveKeepsExchange

LEMMA OpenKeepsExchange ==
  ASSUME IInv, DataOK, NEW u \in Updaters, Exchange(u), OpenFile(u)
  PROVE  Exchange(u)'
<1>1. u \in Tasks /\ pc[u] = "open" /\ UNCHANGED <<chip, rx, flash>>
  BY DEF OpenFile, Tasks, driver
<1>2. Quiet /\ upd[u].written = <<>> /\ Len(upd[u].written) = 0 /\ Kept(u)
  <2>1. Quiet /\ upd[u].written = <<>> /\ Len(upd[u].written) = 0
    BY <1>1, WrittenIsSequence DEF Exchange
  <2>2. QED
    BY <2>1 DEF Kept
<1>3. CASE Leave(u, [size |-> 0, ok |-> TRUE])
  <2>1. Harmless(u)
    BY <1>2 DEF Harmless, Quiet
  <2>2. QED
    BY <1>1, <1>2, <1>3, <2>1, LeaveKeepsExchange
<1>4. CASE /\ file # NULL /\ GoTo(u, "send")
           /\ upd' = [upd EXCEPT ![u].size = Len(file), ![u].phase = "erase"]
  <2>1. Len(file) \in Nat
    BY <1>4 DEF DataOK
  <2> DEFINE sized == [upd EXCEPT ![u].size = Len(file)]
  <2>2. sized \in [Updaters -> UpdType] /\ sized[u].written = upd[u].written
    BY <2>1 DEF DataOK, UpdType
  <2>3. upd' = [sized EXCEPT ![u].phase = "erase"]
    BY <1>4
  <2> HIDE DEF sized
  <2>4. upd'[u].written = <<>> /\ upd'[u].phase = "erase"
    BY <1>2, <2>2, <2>3 DEF UpdType
  <2>5. pc'[u] = "send"
    BY <1>1, <1>4, OnlyMoves
  <2>6. Due(u)' /\ Quiet'
    BY <1>1, <1>2, <2>4 DEF Due, Kept, Quiet
  <2>7. QED
    BY <2>5, <2>6 DEF Exchange, LockSteps
<1>5. QED
  BY <1>3, <1>4 DEF OpenFile

LEMMA ReadKeepsExchange ==
  ASSUME IInv, DataOK, NEW u \in Updaters, Exchange(u), ReadFile(u)
  PROVE  Exchange(u)'
<1>1. u \in Tasks /\ pc[u] = "readFile" /\ UNCHANGED <<chip, rx, flash, file>>
  BY DEF ReadFile, Tasks, driver
<1>2. /\ Quiet /\ upd[u].phase # "start" /\ Kept(u) /\ BlankFrom(u, NextBlock(u))
  BY <1>1 DEF Exchange
<1>3. /\ upd[u].written \in Seq(Contents) /\ upd[u].size \in Nat
      /\ Len(upd[u].written) \in Nat
  BY WrittenIsSequence
<1>4. CASE Leave(u, [size |-> upd[u].size, ok |-> Len(upd[u].written) = upd[u].size])
  <2>1. Harmless(u)
    BY <1>2 DEF Harmless, Quiet
  <2>2. QED
    BY <1>1, <1>2, <1>3, <1>4, <2>1, LeaveKeepsExchange
<1>5. CASE /\ Len(upd[u].written) + 1 \in DOMAIN file /\ GoTo(u, "send")
           /\ upd' = [upd EXCEPT ![u].block = file[Len(upd[u].written) + 1],
                                 ![u].phase = "write"]
  <2> DEFINE block == file[Len(upd[u].written) + 1]
             given == [upd EXCEPT ![u].block = block]
  <2>1. block \in Contents
    BY <1>2, <1>5 DEF DataOK
  <2>2. given \in [Updaters -> UpdType] /\ given[u].written = upd[u].written
        /\ given[u].size = upd[u].size
    BY <2>1 DEF DataOK, UpdType
  <2>3. upd' = [given EXCEPT ![u].phase = "write"]
    BY <1>5
  <2> HIDE DEF given, block
  <2>4. upd'[u].written = upd[u].written /\ upd'[u].size = upd[u].size
        /\ upd'[u].phase = "write"
    BY <2>2, <2>3 DEF UpdType
  <2>5. pc'[u] = "send"
    BY <1>1, <1>5, OnlyMoves
  <2>6. Due(u)' /\ Quiet'
    BY <1>1, <1>2, <2>4 DEF Due, Kept, BlankFrom, NextBlock, Quiet
  <2>7. QED
    BY <2>5, <2>6 DEF Exchange, LockSteps
<1>6. QED
  BY <1>4, <1>5 DEF ReadFile

\* Every step of an updater keeps its own part of the exchange.
LEMMA OwnStepKeepsExchange ==
  ASSUME IInv, LinkInv, DataOK, NEW u \in Updaters, Exchange(u),
         \/ SendFrame(u) \/ Acked(u) \/ NotAcked(u) \/ OpenFile(u) \/ ReadFile(u)
         \/ stm32ota_doUpdate(u) \/ BeginUpdate(u)
         \/ DownloadData(u) \/ DownloadFinishes(u) \/ DownloadFails(u)
         \/ BootIntoBootLoader(u) \/ ConfigBootLoader(u)
         \/ BootIntoFirmware(u) \/ EndOfUpdate(u) \/ Report(u)
  PROVE  Exchange(u)'
<1>0. u \in Tasks /\ upd \in [Updaters -> UpdType]
  BY DEF Tasks, DataOK
<1>1. CASE stm32ota_doUpdate(u) \/ BeginUpdate(u) \/ DownloadData(u) \/ BootIntoFirmware(u)
           \/ EndOfUpdate(u)
  <2>1. pc'[u] \in {"begin", "download", "leaveConfig", "report"}
    BY <1>0, <1>1 DEF IInv, GoTo, stm32ota_doUpdate, BeginUpdate, DownloadData, uartVars,
       BootIntoFirmware, EndOfUpdate
  <2>2. QED
    BY <2>1, OutsideKeepsExchange DEF LockSteps, SessionSteps
<1>2. CASE DownloadFinishes(u) \/ DownloadFails(u) \/ Report(u)
  <2>1. pc'[u] = "look" /\ upd'[u] = Idle
    BY <1>0, <1>2 DEF IInv, GoTo, DownloadFinishes, DownloadFails, Report
  <2>2. QED
    BY <2>1, OutsideKeepsExchange DEF SessionSteps
<1>3. CASE BootIntoBootLoader(u)
  <2>1. pc[u] = "locked" /\ op[u] = "update" /\ UNCHANGED upd /\ GoTo(u, "configBootLoader")
    BY <1>3 DEF BootIntoBootLoader, blVars
  <2>2. upd'[u] = Idle
    BY <2>1 DEF Exchange, LockSteps
  <2>3. pc'[u] = "configBootLoader"
    BY <1>0, <2>1, OnlyMoves
  <2>4. QED
    BY <2>2, <2>3 DEF Exchange, LockSteps
<1>4. CASE ConfigBootLoader(u)
  <2>1. pc[u] = "configBootLoader" /\ UNCHANGED <<upd, chip>> /\ GoTo(u, "send")
        /\ stm32_configSerial("BOOTLOADER")
    BY <1>4 DEF ConfigBootLoader, blVars
  <2>2. upd'[u] = Idle /\ chip'.in = NULL /\ stm32_mode # "BOOTLOADER"
    BY <1>0, <2>1 DEF Exchange, LinkInv, SessionMode
  <2>3. Quiet'
    BY <2>1, <2>2, Configured DEF Quiet
  <2>4. Due(u)'
    <3>1. upd'[u].written = <<>> /\ upd'[u].phase = "start" /\ Len(upd'[u].written) = 0
      BY <2>2, IdleHasType DEF Idle
    <3>2. QED
      BY <3>1 DEF Due, Kept
  <2>5. pc'[u] = "send"
    BY <1>0, <2>1, OnlyMoves
  <2>6. QED
    BY <2>3, <2>4, <2>5 DEF Exchange, LockSteps
<1>5. QED
  BY <1>1, <1>2, <1>3, <1>4, SendKeepsExchange, AckedKeepsExchange, NotAckedKeepsExchange,
     OpenKeepsExchange, ReadKeepsExchange

LEMMA StepKeepsExchange ==
  IInv /\ Control /\ LinkInv /\ ExchangeInv /\ [Next]_vars => ExchangeInv'
<1> SUFFICES ASSUME IInv, Control, LinkInv, ExchangeInv, [Next]_vars PROVE ExchangeInv'
  OBVIOUS
<1>1. DataOK /\ DataOK' /\ upd \in [Updaters -> UpdType]
  BY StepKeepsData DEF ExchangeInv, DataOK
<1>2. ASSUME NEW v \in Updaters PROVE Exchange(v)'
  <2>0. Exchange(v) /\ v \in Tasks
    BY DEF ExchangeInv, Tasks
  <2>1. CASE UartNext /\ UNCHANGED <<blVars, state, fd>>
    BY <2>0, <2>1, UartKeepsExchange, ApartKeepsExchange
  <2>2. CASE ChipAnswers \/ ChipIsSilent
    BY <1>1, <2>0, <2>2, ChipKeepsExchange
  <2>3. ASSUME NEW u \in Updaters,
               \/ SendFrame(u) \/ Acked(u) \/ NotAcked(u) \/ OpenFile(u) \/ ReadFile(u)
               \/ stm32ota_doUpdate(u) \/ BeginUpdate(u)
               \/ DownloadData(u) \/ DownloadFinishes(u) \/ DownloadFails(u)
               \/ BootIntoBootLoader(u) \/ ConfigBootLoader(u)
               \/ BootIntoFirmware(u) \/ EndOfUpdate(u) \/ Report(u)
        PROVE  Exchange(v)'
    <3>1. CASE u = v
      BY <1>1, <2>0, <2>3, <3>1, OwnStepKeepsExchange
    <3>2. CASE u # v
      BY <1>1, <2>0, <2>3, <3>2, OthersStayApart, ApartKeepsExchange
    <3>3. QED
      BY <3>1, <3>2
  <2>4. CASE Restart
    <3>1. pc'[v] = "idle"
      BY <2>0, <2>4 DEF Restart, UartRestart
    <3>2. QED
      BY <3>1, OutsideKeepsExchange DEF SessionSteps, LockSteps
  <2>5. CASE UNCHANGED vars
    <3>1. Apart(v)
      BY <2>5 DEF vars, uartVars, blVars, driver, Apart
    <3>2. QED
      BY <2>0, <3>1, ApartKeepsExchange
  <2>6. QED
    BY <2>1, <2>2, <2>3, <2>4, <2>5 DEF Next
<1>3. QED
  BY <1>1, <1>2 DEF ExchangeInv

\* When the task takes its copy for complete every block of it has been written, for
\* images and chips of any size: SuccessMeansWritten of Stm32Flash.
THEOREM CompleteIsWritten == Spec => []SuccessMeansWritten
<1>1. Init => IInv /\ Control /\ LinkInv /\ ExchangeInv
  BY InitOK, InitLink, InitExchange DEF Init, UartInit, Control, Steps
<1>2. IInv /\ Control /\ LinkInv /\ ExchangeInv /\ [Next]_vars
        => (IInv /\ Control /\ LinkInv /\ ExchangeInv)'
  BY StepKeepsIInv, ControlStep, StepKeepsLink, StepKeepsExchange
<1>3. IInv /\ ExchangeInv => SuccessMeansWritten
  <2> SUFFICES ASSUME ExchangeInv, NEW u \in Updaters, pc[u] = "leave", upd[u].ok
               PROVE  /\ Len(upd[u].written) = upd[u].size
                      /\ \A i \in DOMAIN upd[u].written :
                           i \in Addresses /\ flash[i] = upd[u].written[i]
    BY DEF SuccessMeansWritten
  <2>1. Len(upd[u].written) = upd[u].size /\ Kept(u)
    BY DEF ExchangeInv, Exchange
  <2>2. /\ upd[u].written \in Seq(Contents) /\ Len(upd[u].written) \in Nat
        /\ Capacity \in Nat /\ Addresses = 1 .. Capacity
    BY WrittenIsSequence DEF ExchangeInv
  <2>3. ASSUME NEW i \in DOMAIN upd[u].written
        PROVE  i \in Addresses /\ flash[i] = upd[u].written[i]
    <3>1. i \in 1 .. Len(upd[u].written)
      BY <2>2
    <3>2. Len(upd[u].written) \in Addresses
      BY <2>1, <2>2, <3>1 DEF Kept
    <3>3. i <= upd[u].size /\ upd[u].size <= Capacity
      BY <2>1, <2>2, <3>1, <3>2
    <3>4. QED
      BY <2>1, <3>1, <3>3 DEF Kept
  <2>4. QED
    BY <2>1, <2>3
<1>4. QED
  BY <1>1, <1>2, <1>3, PTL DEF Spec

===============================================================================
