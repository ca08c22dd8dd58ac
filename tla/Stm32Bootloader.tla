---------------------------- MODULE Stm32Bootloader ----------------------------
(***************************************************************************)
(* The protocol of the boot loader: stm32/stm32_bootloader.cc.             *)
(*                                                                         *)
(* A task that holds both mutexes sends a frame and waits for one byte, the *)
(* acknowledgement.  The chip may answer, answer after the task has given  *)
(* up, or not at all.  Files and memory are sequences of blocks, the 256   *)
(* bytes that are read and written at a time; the flash is erased by pages *)
(* of PageBlocks blocks, and the number of pages travels in a uint8_t.     *)
(***************************************************************************)
EXTENDS Stm32Uart, Integers

CONSTANTS
  PageBlocks,   \* FLASH_PAGE_SIZE, in blocks
  ByteSize,     \* the values of a uint8_t
  ChipPages     \* the pages of the chip

ASSUME BootloaderConstantsOK ==
  /\ PageBlocks \in Nat \ {0} /\ ByteSize \in Nat \ {0} /\ ChipPages \in Nat \ {0}
  /\ ChipPages < ByteSize   \* 64 or 128 pages for an STM32F103

VARIABLES
  flash,    \* per block of the chip: its content, "blank" or "garbled"
  file,     \* the file with the new firmware: a sequence of blocks, or NULL
  upd       \* per updater: what it keeps while it flashes the chip

blVars == <<flash, file, upd>>

Addresses == 1 .. PageBlocks * ChipPages
PageOf(a) == (a - 1) \div PageBlocks

---------------------------------------------------------------------------
(* The chip, external *)

Expected == [off |-> {"start"}, ready |-> {"erase", "write"}, erase |-> {"pages"},
             write |-> {"address"}, address |-> {"data"}]

StageAfter == [start |-> "ready", erase |-> "erase", pages |-> "ready",
               write |-> "write", address |-> "address", data |-> "ready"]

Understood(f) ==
  /\ f.kind \in Expected[chip.stage]
  /\ f.kind = "pages" => f.arg # {}
  /\ f.kind = "address" => f.arg \in Addresses

ChipAnswers ==
  /\ chip.mode = "bootloader" /\ chip.in # NULL
  /\ LET f  == chip.in
         ok == Understood(f)
         answer == IF ok THEN "ack" ELSE "nack"
     IN  /\ chip' = [chip EXCEPT
                       !.in = NULL,
                       !.stage = IF ok THEN StageAfter[f.kind]
                                 ELSE IF @ = "off" THEN "off" ELSE "ready",
                       !.at = IF ok /\ f.kind = "address" THEN f.arg ELSE @]
         /\ flash' = IF ~ok THEN flash
                     ELSE CASE f.kind = "pages" ->
                                 [a \in Addresses |-> IF PageOf(a) \in f.arg THEN "blank"
                                                      ELSE flash[a]]
                            [] f.kind = "data" ->
                                 [flash EXCEPT ![chip.at] =
                                    IF @ = "blank" THEN f.arg ELSE "garbled"]
                            [] OTHER -> flash
         /\ rx' = IF stm32_mode # "NONE" /\ Len(rx) < RxLen THEN Append(rx, answer) ELSE rx
  /\ UNCHANGED <<up, stm32_mode, uart0_queue, patterns, boot_pin, mutexes, pc, op,
                 stranded, file, upd>>

\* The frame, or the answer to it, is lost.
ChipIsSilent ==
  /\ chip.mode = "bootloader" /\ chip.in # NULL
  /\ chip' = [chip EXCEPT !.in = NULL]
  /\ UNCHANGED <<up, driver, boot_pin, mutexes, pc, op, stranded, blVars>>

---------------------------------------------------------------------------
(* The task *)

\* stm32Bl_eraseFlashByFileSize and stm32Bl_doEraseFlash: the pages of the file,
\* their number cut to a uint8_t.
PagesOf(size) ==
  LET page_count == ((size + PageBlocks - 1) \div PageBlocks) % ByteSize
  IN  0 .. page_count - 1

Frame(u) ==
  LET phase == upd[u].phase
      next  == Len(upd[u].written) + 1
  IN  [kind |-> phase,
       arg |-> CASE phase = "pages"   -> PagesOf(upd[u].size)
                 [] phase = "address" -> next
                 [] phase = "data"    -> upd[u].block
                 [] OTHER -> NULL]

\* stm32_write_bl: nothing is sent in another mode, and nobody looks.
SendFrame(u) ==
  /\ pc[u] = "send"
  /\ chip' = IF stm32_mode = "BOOTLOADER" /\ chip.mode = "bootloader"
             THEN [chip EXCEPT !.in = Frame(u)] ELSE chip
  /\ GoTo(u, "await")
  /\ UNCHANGED <<up, driver, boot_pin, mutexes, op, stranded, blVars>>

\* A bug: the byte is counted, not compared.
AnyByteReceived == stm32_mode = "BOOTLOADER" /\ Len(rx) = 1

\* stm32Bl_recv and stm32Bl_expect: success is one byte, and the byte is ACK.
AckReceived == stm32_mode = "BOOTLOADER" /\ rx = <<"ack">>

\* The next frame is sent, the file opened, or its next block read.
PhaseAfter == [erase |-> "pages", write |-> "address", address |-> "data"]

Acked(u) ==
  /\ pc[u] = "await" /\ AckReceived
  /\ rx' = <<>>
  /\ LET phase == upd[u].phase IN
     \/ /\ phase \in DOMAIN PhaseAfter
        /\ upd' = [upd EXCEPT ![u].phase = PhaseAfter[phase]]
        /\ GoTo(u, "send")
     \/ /\ phase = "start" /\ UNCHANGED upd /\ GoTo(u, "open")
     \/ /\ phase = "pages" /\ UNCHANGED upd /\ GoTo(u, "readFile")
     \/ /\ phase = "data"
        /\ upd' = [upd EXCEPT ![u].written = Append(@, upd[u].block)]
        /\ GoTo(u, "readFile")
  /\ UNCHANGED <<up, stm32_mode, uart0_queue, patterns, boot_pin, chip, mutexes, op,
                 stranded, flash, file>>

\* The update is over: the boot loader did not start, or the bytes that were
\* written are compared with the size of the file.
Leave(u, result) ==
  /\ upd' = [upd EXCEPT ![u].size = result.size, ![u].ok = result.ok]
  /\ GoTo(u, "leave")

\* No answer in time, another byte, or more than one.
NotAcked(u) ==
  /\ pc[u] = "await" /\ ~AckReceived
  /\ rx' = IF stm32_mode = "BOOTLOADER" THEN <<>> ELSE rx
  /\ LET size == upd[u].size
     IN  Leave(u, [size |-> size,
                   ok |-> upd[u].phase # "start" /\ Len(upd[u].written) = size])
  /\ UNCHANGED <<up, stm32_mode, uart0_queue, patterns, boot_pin, chip, mutexes, op,
                 stranded, flash, file>>

\* stm32Bl_writeMemoryFromBinFile: open and fstat, one of which may fail.
OpenFile(u) ==
  /\ pc[u] = "open"
  /\ \/ /\ file # NULL
        /\ upd' = [upd EXCEPT ![u].size = Len(file), ![u].phase = "erase"]
        /\ GoTo(u, "send")
     \/ Leave(u, [size |-> 0, ok |-> TRUE])
  /\ UNCHANGED <<up, driver, boot_pin, chip, mutexes, op, stranded, flash, file>>

\* The next block; the end of the file, as it is now; or a failed read.
ReadFile(u) ==
  /\ pc[u] = "readFile"
  /\ LET next == Len(upd[u].written) + 1 IN
     \/ /\ next \in DOMAIN file
        /\ upd' = [upd EXCEPT ![u].block = file[next], ![u].phase = "write"]
        /\ GoTo(u, "send")
     \/ Leave(u, [size |-> upd[u].size, ok |-> Len(upd[u].written) = upd[u].size])
  /\ UNCHANGED <<up, driver, boot_pin, chip, mutexes, op, stranded, flash, file>>
===============================================================================
