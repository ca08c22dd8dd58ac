# A TLA+ verification of components-mcu

components-mcu is a collection of C++ components for home-automation firmware on the ESP32, with
a host build for tests. This directory models those components that keep state of their own and
are used by several tasks, call-backs or processes, checks the models with TLC, and proves the
most important results with TLAPS. All source paths below are relative to `src/`.

## 1. Inventory

The firmware is a set of FreeRTOS tasks: the main task (runs the application and the main-loop
queue), the TCP command line server, the event tasks of ESP-IDF (network, MQTT, HTTP server),
the timer service task, and short-lived tasks (firmware updates). The components meet in four
places:

* **call-backs** - `uout/callbacks.cc` keeps a table of subscribers; whoever has news publishes,
  and the call-backs run in the publisher's task;
* **the main-loop queue** - `main_loop/esp32/main_queue.cc` carries function pointers from other
  tasks, interrupts and timers to the main task;
* **shared objects guarded by recursive mutexes** - stdout, the command line, the STM32;
* **the key/value store**, in which configuration survives a restart.

| component | state | operations | what is hard | what makes it correct |
|---|---|---|---|---|
| uout call-back registry | table of slots, enabled bits, a mutex | subscribe, unsubscribe, publish (6 kinds) | publishers use slot numbers after they have released the mutex | nobody gets a message twice or one he did not ask for, nobody is missed |
| main-loop queue | bounded queue, event bit, timers | callFun, callFun_fromISR, callFunByTimer, stopFun, processMessages | wake-ups, full queues, commands under way | an accepted call is made, in order; a stopped timer stays stopped |
| key/value store (host) | a file of live and dead nodes | open, set, get, erase | re-use of dead nodes of another type or size; a crash between two writes | it is a map; a crash touches at most the key being written |
| TCP command line server | descriptor set, bound, count, line buffer | accept, read, close; write to all | the set is changed by the server's task and by publishers without a common lock | no client is missed or closed while it is there |
| network events, SNTP | three devices, their handlers, the event queue, what the main task believes | connect, disconnect, link and address events, ipnet_connected, ntp_setup | connections that come and go faster than the main task looks, handlers registered again | the last word counts; a station is never left idle |
| STM32 UART and boot loader | UART queue, mode, two mutexes | read line, configure, boot loader protocol | lock order, a reader that must let go | no firmware traffic during an update |
| firmware update, http client | state variable, static descriptor | start, download | two updates at once | one update at a time |
| command line | growing line buffer, tokens, answers | read, parse, process a line or a JSON text, print | mistakes and quotes in a buffer that is full, nested texts, status messages in between | each command reaches its handler once and as asked for; answers are whole lines |
| JSON builder, writers | growing buffer, nesting, chunks | add, open, close, write | the buffer is sent or grows in the middle of an object, the heap or the call-back refuse | what is sent and what is left are the text asked for, in one message |
| http server, websocket | descriptor set, queued texts, a file being sent | start, stop, join, broadcast, respond | descriptors used again while texts wait, the bound of the loop | each client gets every text since it joined, once and in order |
| MQTT client | client, connected flag | setup, stop, events, subscribe | created and destroyed against the library's task | every connection is subscribed, a new client is not taken for a connected one |
| weather | a table of the past week, the store | fetch, load, factor | midnight and the end of the week | windows cover the hours asked for |

`PROJECT.json` lists all components with what is modelled of each, and under "hazards" each
place in the code where something can go wrong that a test would hardly reach, with the
properties that would catch it.

## 2. Modules

| module | models | runs |
|---|---|---|
| `UoCallbacks` (+ `MCUoCallbacks`) | `uout/callbacks.cc` | `uo_callbacks` |
| `MainQueue` (+ `MCMainQueue`) | `main_loop/esp32/main_queue.cc` with the parts of FreeRTOS it uses | `main_queue`, `main_queue_failure` |
| `KvsPosix` (+ `MCKvsPosix`) | `kvs/host/kvs_posix.cc`, write by write | `kvs`, `kvs_assert` |
| `KvsMap` | what `kvs/kvs_wrapper.h` promises: a map | refined by `KvsPosix` in `kvs` |
| `TcpCliServer` | `net/esp32/tcp_cli_server_task.cc` | `tcp_cli` |
| `Stm32Uart` | the serial line: `stm32/esp32/stm32_uart.cc` and its thread-safe wrapper | with `Stm32Flash` |
| `Stm32Bootloader` (extends `Stm32Uart`) | the exchange with the boot loader: `stm32/stm32_bootloader.cc` | with `Stm32Flash` |
| `Stm32Flash` (extends both, + `MCStm32Flash`) | the update: `stm32/stm32_flash.cc`, `stm32/esp32/stm32_flash.cc`, the download of `net/esp32/http_client.cc` | `stm32`, `stm32_done` |
| `ChunkedWriter` | the writer that calls a function, `uout/uout_writer.hh`, and its websocket frames | with `JsonBuilder` |
| `JsonBuilder` (extends `ChunkedWriter`, + `MCJsonBuilder`) | `uout/status_json.cc`, with the use `uout/so_out.cc` makes of it | `json` |
| `CommandLine` | reading and parsing a line: `cli/cmdline_get.cc`, `cli/cmdline_set.cc`, `cli/cmdline_parse.cc` | with `Cli` |
| `LineEditor` | what `cli/cli.h` promises of reading: a line editor | refined by `Cli` in `cli` |
| `JsmnIterator` | `jsmn/jsmn_iterate.hh` | with `Cli` |
| `CliOut` | `uout/cli_out.cc`, and the line ends of the console | with `Cli` |
| `Cli` (extends the three, + `MCCli`) | `cli/cli.cc`, `cli/cmdline_process.cc`, with a user who types | `cli` |
| `IpNet` | `net_connect`, the three devices of `net/esp32`, `net/ipnet.cc`, `net/esp32/ntp.cc` | with `Network` |
| `WebServer` | `net_http_server/esp32` | with `Network` |
| `MqttClient` | `net_mqtt_client/esp32/mqtt.cc` | with `Network` |
| `Network` (extends the three, + `MCNetwork`) | the application's call-backs that tie them together | `net` |
| `Weather` | the week of `weather/weather.cc` and the loops of `weather/weather_irrigation.cc` | `weather` |
| `UoCallbacks_proofs`, `MainQueue_proofs`, `KvsPosix_proofs`, `TcpCliServer_proofs`, `Stm32Flash_proofs`, `Network_proofs`, `JsonBuilder_proofs`, `Cli_proofs` | the theorems about these modules (section 4) | - |

In every module an operator that begins with the comment "A bug:" is not part of the
specification. It is the form that a definition would have if the code had a plausible mistake,
and is kept to show that the properties notice it. Variables called "History" are read by the
properties alone.

### UoCallbacks

`cb` and `flags` are `uoCb_cbs`, `enabled` is `uoCb_cbs_enable`; a message and a subscription
are sets of flag bits. `Subscribe`, `SubscribeFull`, `Store`, `SubscribeReturn` and
`Unsubscribe` are the two functions under the mutex, with the three passes of the search in
`SlotFor`. Stores to a slot are separate steps because publishers read the table without the
mutex. A publication is `Publish` (the kinds of message and the formats each asks for),
`Collect` (get_all_callbacks), `Filter` (uoCb_filter), one `Deliver` per slot, and `Finish`; the
text and the JSON message of one event are separate passes over the slot numbers. `WsCheck` and
`WsCall` are uoCb_publish_wsJson.

### MainQueue

`queue` is the queue of function pointers, `bit` the event bit, `cmds` the command queue of the
FreeRTOS timer service task. A call is a sequence of steps of its task (`op`, `arg`): `Send`,
`Signal`, `Result` for mainLoop_callFun; `Command` for the timer commands. An interrupt is one
step. The external part - setting a bit, the daemon, the wait of the main task with
clear-on-exit - follows the documentation of FreeRTOS that the calls in the source rely on. The
build with an event group is modelled, and max_count = 0, the only value used in the repository.

### KvsPosix and KvsMap

The file is a sequence of cells: a header is one cell and each byte of a string another. A set
or an erase first reads (the choice of place: `IntPlace`, `BlobPlace`, `StrPlace`) and then
makes a list of writes, `todo`, one per step; readers walk `Chain`. The union of a 64-bit value
and the two lengths of a blob is kept: a 64-bit value is a pair of halves which overlay blob_len
and blob_size, because the code looks at blob_size of dead nodes whatever their type was. Where
`StrPlace` finds a dead 64-bit node that has no room after all, it goes to the end of the file
with the size 0 it has read there, as the code does, so that the header that follows fails the
assertion of kvs_write. The assertions are taken to be on: `NextWrite` ends with `aborted`,
which like a crash touches the key that is being written and no other. (With NDEBUG that header
would be written, and the chain behind it would lead into its body.) `Crash` is the end of the
process between two writes. In `KvsMap` a request changes the value of its own key at one
moment, or is cut off by a crash, after which nothing is said of that key until it is set again;
`KvsPosix` implements it, crashes included.

### TcpCliServer

Two actors: the server's task and the publisher that holds tcpCli_mutex. The server's task does
not take that mutex, so that wait_fds and cconn_count are changed by both; each change is a load
into a register and a store. add_fd puts a descriptor into the set (`AddStore`) before nfds
covers it (`AddCover`); `Adding` is the connection in between. Descriptors are lwIP's, the
lowest free one first, so that a descriptor is soon another client's. Clients connect, send,
close their side and break off at any time.

### Stm32Uart, Stm32Bootloader and Stm32Flash

Three modules, each extending the one below it, as the sources call each other. The
configurations modelled are the ones with CONFIG_STM32_ENABLE_RESET and with the thread-safe
wrapper.

`Stm32Uart`: `uart0_queue` is the pointer (NULL, or the events in the queue), `rx` and
`patterns` what the driver holds of received lines and noted line ends, `pc` and `op` the step
and the operation of each task. The two mutexes are recursive and only the outermost lock of a
task is a step: `LookAtQueue`, `WakeUpQueue`, `LockRead` and `LockWrite` are the constructors of
WakeUpLockGuard and LockGuard, in which the pointer is read, used, and the mutex awaited in
three separate steps. With both mutexes held, a restart of the chip (`RestartChip`) and a change
of the driver (`stm32_configSerial`, which may fail and leave no driver) are separate steps
because the chip and the driver go on in between. `ReadLineLook`, `ReadLineLock` and `Receive`
are one turn of the loop in stm32_read_line.

`Stm32Bootloader`: `upd[u].phase` names the frame that the task sends; `SendFrame`, then `Acked`
or `NotAcked`, which happen at any time after the frame because the waiting is bounded by a
timeout. `ChipAnswers` and `ChipIsSilent` are the chip, external: it answers at any later time
or never. `PagesOf` keeps the uint8_t of the number of pages.

`Stm32Flash`: stm32ota_doUpdate looks at `state`, which only the task it creates sets to RUN
(`BeginUpdate`), so that two updates may run. They write to one file through one static
descriptor, `fd`, which stays open when a download breaks off; a full disk is the only failing
write. `Restart` is a new start of the program at any moment; it also stands for the use of the
queue through a pointer that is null or deleted. The chip is not restarted by it; `stranded`
(History) records that the chip was left in its boot loader, and ends with the next session.

### ChunkedWriter and JsonBuilder

A text is a sequence of pieces - a bracket, a comma, a name, a value - each with the number of
its characters, because the code decides by lengths. `text` is the buffer up to myBuf_idx,
`size` its size; `sent` is what has left it and `frames` the heads of the websocket frames that
ws_write made of the chunks. Each public call of UoutBuilderJson is one action, with what it
does on the way: `Grown` is buffer_grow (send all but the last character, then enlarge the
buffer), `Realloc` may find nothing on the heap, and `Writes` is the call-back, which takes a
text as a whole, nothing of it, or reports an error. `nul` is how far behind myBuf_idx the first
null character is, and `past` how many characters have been written behind the end of the
buffer. `Closes` takes the comma back that the call before it wrote in advance. The caller is
one that builds a JSON value and, when a call fails, stops or goes on without what failed, as
UoutPrinter does.

Some calls depart from what is said of them. They are made like the others: `odd` (History)
keeps which of them have happened, by the names in `Causes`, and each property says in which of
these cases it does not hold, and how far.

* "number": add_value and add_value_d append a comma and no number
  (`uout/uout_builder_json.hh:51,53` say they add one).
* "long": put_kv has room for fifteen characters of a number; a long long may have twenty. The
  text is cut, its null character may lie one behind the end, and strcpy_error_handler or the
  post-condition stops the program (`Overflows`).
* "exact": read_json_from_function with a value that leaves no place for its comma's null
  character (`uout/status_json.cc:156-161`): one character behind the end, against the
  post-condition.
* "again": its second pass makes no more room unless more is missing than is free.
* "append": cat_to_buf appends at the null character of a text that has been sent meanwhile.
* "far": advance_position asserts that n is at most the position it starts from.
* "more": a text is written with final = false, to which the destructor adds "{}".
* "foreign": alloc_bigger_buffer reallocates a buffer of the user's
  (`uout/status_json.cc:107-111` do not ask whose it is); what happens then is undefined and the
  model stops there.

### CommandLine, JsmnIterator, CliOut, LineEditor and Cli

`CommandLine` reads a character at a time (`ReadChar`, with `Enlarge` when the buffer is full)
and takes a line apart: `Items` cuts it at its blanks, "=" and quotes, `Taken` gives the
parameters their places and finds the message id. `JsmnIterator` is the walk over the flat
tokens of a JSON text: the constant `Tokens` is what the parser makes of each value, and
`Layout` says how (external, jsmn_parse): the token of the value and behind it those of its
members. The loops of the code are functions of a position or of the number of turns; each
refers to positions behind its own (`Items`, `SkipValue`) or to the step before (`Taken`,
`Members`). `CliOut` keeps what has been printed as pieces and the length of the open line;
`Crlf` and `Written` are the writer of the console, which turns "\n" into "\r\n" call by call.
`Cli` composes them with a user who chooses what to ask for, types it with mistakes that he
erases or throws away, and waits for the answer: a line is `NoCommand`, `Refuse` or `Process`, a
JSON text is `BeginJson`, one action per member, and `EndJson`. A command in JSON with as many
members as `par` has places (`ParLen`, 20 in the code) writes behind that array, which nothing
in the code prevents (`cli/cmdline_process.cc:58-67`; there is room for 128 tokens): `Overrun`
is that step, and since nothing can be said of what the program does then, only `Undefined`
follows it. `LineEditor` is the abstract editor of one line that `Cli` implements (`IsEditor`):
the buffer, its size and its growth do not show.

### IpNet, WebServer, MqttClient and Network

`IpNet`: nwc_connect and nwc_disconnect take one device down and set another up; the eight steps
of ethernet_setup may each fail, and those of taking it down too, after which the link stays as
it was. What the devices and the air cause is a queue of `events`, for which the event task
calls each handler as often as it has been registered (`Dispatch`). A handler that writes the
addresses and then tells the main task is two steps (`GotIp`, `GotIpTell`), because the main
task runs in between. `queue` is the queue of the main loop, with what others put there; a
message that finds it full is lost, and `said` and `refused` (History) keep what the main task
last had to be told. `NtpSetup` is the walk through the list of servers.

`WebServer`: texts wait in `works` until the server's task runs its loop over all descriptors
(`Broadcast`), while clients leave and others join under the same number. A file is sent chunk
by chunk (`SendChunk`, `SendFails`, `ReadFails`).

`MqttClient`: the main task stops, destroys and creates the client in three steps, and the
library's task enters and leaves its handlers. esp_mqtt_client_stop, external, waits until the
library's task is outside of a handler.

`Network` ties them together as an application does: its call-back for a connection starts the
server and sets up the client, the one for a lost connection stops the server.

### Weather

An entry of `m_past_wd` is the hour it was fetched, so that the window of the irrigation factor
can be compared with the hours asked for. `Used` is the pair of loops.

## 3. Runs

Every run finishes in about three minutes or less on two cores.

* `uo_callbacks` - two slots, three call-backs, two subscribing tasks, one publisher; a slot is
  taken over only when there are more call-backs than slots, which this has, and a publication
  overlaps with any number of table changes. The null check with the FIXME is shown to be dead
  (`EarlyReturnDead`): unsubscribing leaves the pointer in place. `PublishReturns` needs a fair
  mutex (below).
* `main_queue` - a task, the main task, an interrupt and a timer; a queue of two places and a
  command queue of one, with which the daemon and the main task wait for each other as soon as
  anything is queued; every sender sends once and the main task twice, so that both queues are
  full at times. Order (`InOrder`), wake-ups (`NoLostWakeup`), timers (`NoCommandAfterDelete`,
  `StopIsFinal`), and what must happen in the end (`AcceptedIsCalled`, `CallsReturn`).
* `main_queue_failure` (a violation) - mainLoop_callFun returns false for a call that is made,
  because xEventGroupSetBits returns the bits after a waiting task has cleared them.
* `kvs` - two keys, strings of length 0, 1 and 2, an 8-bit and two 64-bit values, with a crash
  between any two writes; files of up to four cells, which is enough for dead nodes of every
  type in front of live ones. `IsMap` is the refinement of `KvsMap`. The assertion of kvs_write
  is reached with a header that fails it in two ways, both with 64-bit values; `FailsAtWides`
  says that there is no third. (For instance: set a 64-bit value to 0x20000, which puts 2 where
  blob_size lies, erase it, and set a string of two characters.)
* `kvs_assert` (a violation) - the assertion in kvs_write fails for 64-bit values whose lower
  half is greater than the upper one.
* `tcp_cli` - two descriptors for three clients, so that descriptors are used again and
  accepting fails when none is free; one round of writing to all connections at any moment; one
  piece of input. `FieldsAgree` and `GoneIsNoticed` hold until a publisher closes a connection;
  `NfdsCovers`, `ServerSparesTheLiving` and `NoClientMissed` hold also when publishers close
  connections; the first and the last leave out the connection that is being added. Between the
  two statements of add_fd it is in the set and nfds may not cover it: select, which the same
  task calls later, is not affected, but a publisher whose round begins there misses that
  client. (`NfdsCovers` holds because the condition of the decrement of nfds, `fd - 1 == nfds`,
  is never true.)
* `stm32` - two updates, and a task that reads lines, reads, writes, resets the chip and runs
  the firmware. With one updater alone no second session could be attempted, and with one
  application task the mutexes are still contended in every pair of operations. Queue and buffer
  of one place each, so that both are full as soon as anything is in them; an image of one
  block, pages of two blocks, a chip of one page, a uint8_t of two values and room for a file of
  three blocks: two downloads that run into one another make a file that is larger than the chip
  and whose number of pages wraps to 0. 5.6 million states, with the two updates as a symmetry
  set (no liveness is checked here).
* `stm32_done` (a violation) - one update alone: when the file cannot be opened,
  stm32Bl_writeMemoryFromBinFile finds 0 bytes written of 0 and reports success; the state is
  DONE with nothing written.
* `json` - texts of up to nine pieces with three levels of brackets, names and values of one and
  of twelve characters, numbers of fifteen digits, the longest that always fit, and of twenty,
  in a buffer of at most 64 characters or in one of 50 that the user provides: a text of that
  many pieces does not fit, so that chunks are sent, buffers grow and both fail, and each of the
  `Causes` occurs (an exact fit among them). `MessageIsJson` reads what was sent with a
  recogniser of its own.
* `cli` - lines of up to three of six parameters (a flag, a pair, quoted values with "=", blank
  and ";" or nothing in them, a message id, a wrong one), with one or two blanks, and JSON texts
  of up to three of seven members with nesting, some of them together too long for the room for
  tokens, and one a command with three members, for which `ParLen`, 3 here, has no place; one
  mistake; a buffer of 4 characters that grows by 5, so that it is full in the middle of a
  quoted text; at most two places are used for parameters, so that lines with too many occur; up
  to three entries of 3, 5 and 9 characters on lines of 8.
* `net` - five things that happen from outside (below), with two addresses, a queue of two
  places, the servers "gateway", "pool" and "dhcp", two sockets, a file of one chunk and two
  texts. In a queue of two places "connected" and "disconnected" lie together, and their order
  counts. Five are enough to connect, to lose the connection and to get another address with the
  queue full in between, or for two clients to join, one to fail and a text to follow; they are
  not enough for a client to join under the number of one that has left while texts wait, which
  the theorem covers.
* `weather` (a violation) - seven days of three hours, of which the factor looks at two: the
  loop does not go back to the day before.

`CHECK_DEADLOCK FALSE` is set where the system may stop: in `MainQueue` when all senders have
sent what they had, in `TcpCliServer` when the clients stay silent, in `JsonBuilder` when the
builder is destroyed, in `Network` when nothing happens any more, in `Weather` when the bound of
the hours is reached. In `Stm32Flash` a restart of the program is always possible, so that TLC's
own check of deadlock says little; `LocksCannotDeadlock` is the property that matters there.

### Bounds

`MaxPosts`, `MaxConnects`, `MaxInputs`, `MaxWrites`, `MaxCells`, `MaxPieces`, `MaxNest`,
`MaxSize`, `MaxParams`, `MaxSlips`, `MaxEntries`, `MaxTexts`, `MaxHappenings` and `MaxHours`
bound counters, the file, the texts and the buffer of the command line; they are guards of the
actions that would go on. `MaxHappenings` counts only what the user, the air, the broker and the
clients do; what the tasks of the program make of it is not bounded. `BufMax`, `OutMax`,
`MaxPar`, `ParLen`, `MaxTokens`, `MaxServers` and `QueueLength` are limits of the code itself.
All others are sizes of sets.

### Fairness

* `UoCallbacks`: a task inside a call goes on (weak fairness), and the mutex is granted fairly
  among waiting tasks (strong fairness): FreeRTOS gives a mutex to the waiting task of the
  highest priority that has waited longest. Nobody has to publish or subscribe.
* `MainQueue`: calls in progress, the timer service and the loop of the main task go on; a
  function that the main task runs returns.
* `TcpCliServer`: the server's task goes on. Nothing is assumed of publishers, which a client
  that does not read can hold up for any time, nor of clients.
* `Network`: the event task goes on; it has the highest priority of the tasks modelled, and none
  of its handlers waits for long (mainLoop_callFun gives up on a full queue after ten ticks).
  Nothing is assumed of the main task, the air or the broker, so that `NeverLeftIdle` is about
  the handlers alone.
* `Stm32Flash` has no fairness and no liveness property: the reader gives its mutex back and
  takes it again in a loop, and nothing in the code makes it wait for the task it has let go
  first.

## 4. Proofs

A run of TLC answers for one small instance. The theorems below hold for every value of the
constants that satisfies the assumptions of the module - `ConstantsOK`, or `UartConstantsOK`,
`BootloaderConstantsOK` and `FlashConstantsOK` for the STM32, `IpNetAssumption` and
`WebAssumption` for the network, and those of the command line given below: tables, queues and
sets of descriptors of any size, any number of tasks, call-backs, timers and clients, and any
bound of the counters. They rest on nothing else, but for one theorem of `JsonBuilder_proofs`,
whose hypothesis is given below: the assumptions say that sizes are positive numbers, that the
names of different things differ and that a list of servers has as many as the client takes, and
TLC evaluates them in every run. `JsonBuilder` and `ChunkedWriter` have `SizesAssumption` and
`AnswersAssumption` (lengths are numbers, a buffer has a size, the call-back does one of three
things). `Weather`, which only TLC checks, has its own too. `tlapm <module>.tla` checks a module
in about a minute, `JsonBuilder_proofs` in two, `KvsPosix_proofs` in three, `Cli_proofs` in
nine.

**UoCallbacks_proofs.** `TypeCorrect` contains that the task inside uoCb_subscribe is the one
that holds the mutex. `RegistryInv` is inductive: beside "one slot per call-back" it needs that
a slot that is being filled is nobody else's and is disabled until its last store, that enabled
slots are filled, and that the slot numbers a publisher has in hand are of filled slots (the
table never loses a pointer). From it follow `CallbackHasOneSlot` and `PublishNeverStopsEarly`.
`DeliveryInv` adds, per publisher, that a call-back that was subscribed when the slots were
collected and is not yet called has its slot among those that are left; `NobodyIsMissed`
follows. `StrayInv` adds the opposite: a slot that passes the filter, and that nobody is in the
middle of storing to, holds a call-back that has wanted the message since the slots were
collected (`SettledIsWanted`), and a slot that has not been given away after the filter still
does (`UntakenIsWanted`); `NobodyIsCalledAstray` follows. `TakeoverNeedsFullTable` is an action
property.

**MainQueue_proofs.** `NoLostWakeup` is inductive with the types: a message is put on the queue
by someone who then signals, and a command to set the bit is lost only when the sender is told.
`InOrder` is not: it needs `OrderInv`, that a call in a sender's hands is later than all that
its sender has sent, and that the timer service's calls are those of timers. The two timer
properties need `TimerInv`: a timer is in the hands of one caller at a time (the assumption that
a handle is given to mainLoop_stopFun once at a time, which the guard `Handed` makes), a caller
about to start one is the first to mention it, and the commands of a timer lie in the order
start, stop, delete. `DeletedTimersAreLeftAlone` and `StoppedTimersStayStopped` follow.

**KvsPosix_proofs.** `Chain` is a recursive function of the place in the file; `ChainDef` shows
that there is one, and `ChainFacts` that the nodes of a file are the least set that holds the
first header and, with a header, the one behind its body. So a property of all nodes is shown by
giving a set closed under these two rules (`ChainInduction`). `ChainOrder` is the geometry:
between a node and its successor lies the body of the first and no other node. From it follow
the effects of the three writes that the code makes - a header of the same body over a node
(`HeaderKeeps`), bytes inside the body of a node (`BodyKeeps`), anything at the end of the file
(`ChainGrows`) - on the chain and on the values of all other nodes. `Pending` says of an
operation under way at which of three stages it is: the place is chosen and nothing written of
it, the header is written and the body left, everything is written; `HeadStep`, `MarkStep` and
`BodyStep` lead from one to the next, and `IntPlaceGood`, `BlobPlaceGood` and `StrPlaceGood`
show that the three searches for a place begin with the first, unless the header that follows
fails the assertion. `IInv` joins it with "one node per key", with what the nodes of the keys
that no crash has touched hold (`ValuesInv`), and with the value of the last set; it gives
`KeysHaveOneNode`, `FileStaysSound` and `SetsAreReadBack` for any keys, strings and file length,
with a crash between any two writes, the failing assertion being one of them.
`FailsForWidesOnly` is that the assertion fails nowhere but at 64-bit values. `Implements` is
the refinement of `KvsMap`: each step of the store maps to a step of the map or to a stutter. A
request takes effect in the map when the store returns, and a key whose request was cut off by a
crash is one of which the map says nothing.

**TcpCliServer_proofs.** `Inv` is TypeOK (which no run checks besides) and NfdsCovers, which
leaves out the connection that the server's task is just adding, with three more parts: the
listening sockets stay open; neither actor works on one of them as if it were a connection
(`ConnectionsOnly`: this is where the order of the two checks of the server's loop matters); and
what an actor has loaded of wait_fds before it stores it back is below nfds too
(`LoadsCovered`). Nothing in it speaks of a lock, and there is none to speak of.
`LivingAreSpared` adds that a descriptor in the server's hands, when it is removed, is that of a
client that is gone; `NobodyIsLeftOut` needs `RoundInv`: who is owed a visit is in wait_fds and
covered by nfds, at or above the index of the round, as long as its count has not run out.
`FieldsStayInStep` needs `AgreeInv`: as long as no publisher has closed a connection, wait_fds
is the set of the connections with the one that the server's step is about to add or has just
removed (`SetsAgree`), and cconn_count its cardinality with the same correction (`CountAgrees`),
whatever the publisher reads meanwhile.

**Stm32Flash_proofs.** `IInv` is inductive for any number of readers, application tasks and
updates, and any length of the queue. Its centre is `Owners`: a mutex belongs to exactly the
task that is at a step under it, with the sets of steps written out (`ReadSteps`, `WriteSteps`).
`SessionOK` says that in a session the chip is in its boot loader and no text has reached it,
`LineOK` that the queue exists exactly when the line is configured for the firmware and keeps
its length, and `PinOK` that boot pin and mode are those of the boot loader only while some task
is in a session. A session holds both mutexes, so that `SessionsAreExclusive` follows from
`Owners`; so does `MutexesCannotDeadlock`, because no step under the write mutex waits for the
read mutex; `UnlockedIsFirmware` is `PinOK` and `LineOK` with nobody in a session.
`RunIsRunning` is inductive by itself, given that pc and op are functions: an update that is on
its way stays so until it sets the state.

The two theorems about the exchange with the boot loader stand on `IInv`. `OnlyTextIsRead` needs
`LinkInv`: a byte in the driver that is not the end of a line means that some task is at a step
of its session where there may be an answer (`AnswersAreRead`), or that the program has been
started again in the middle of one; a frame in the chip means that some task still sends frames
(`FramesAreOurs`); and the line is that of the firmware again only when the session is over
(`SessionMode`), the driver having been emptied on the way. A reader holds the read mutex, so by
`Owners` there is no such task. `CompleteIsWritten` needs `ExchangeInv`, which follows the
exchange of frames step by step: before a frame is sent the chip has none and the driver holds
no byte; while the task waits there is either the frame, or its answer, or nothing any more; and
an acknowledgement in the driver is that of the frame of this phase, with all that it stands for
already done (`Done`: the pages of the file erased, the address taken, the block written).
`Kept` says that what has been acknowledged is in the flash, `BlankFrom` that the rest of the
file finds blank pages, and `Harmless` that a frame whose answer nobody waits for any more
changes nothing that is kept. `PageIsErased` is the arithmetic of the pages: rounding up and the
cut to a uint8_t reach every page of a file that fits in the chip, by the assumption `ChipPages
< ByteSize`. That the file may be changed by another download meanwhile does no harm to what the
theorem says: it speaks of the blocks that were read.

**Network_proofs.** `AllAreSubscribed` needs `MqttInv`, which says for every state of the
library's task what the flag and the step of the main task may be: while the main task destroys
or creates the client there is no task of the library, because esp_mqtt_client_stop has waited
for it. `LastWordCounted` needs `TellInv`. `LastWordCounts` speaks of states in which the main
task has nothing left to be told; `LastInQueue` says for all others that of the messages in the
queue the last is the last that was said, `LastIsBelieved` that when there is none the main task
has taken notice of it, and `GatewayKnown` that the address is that of the connection last told,
or about to be told: the handler writes it before it tells, and no other handler runs in
between. The parts of the network that these two do not mention are covered by one lemma
(`QuietStep`) about steps that leave `tellingvars` unchanged. `ClientsAreServed` has two halves.
`ClientsInv`: a client that has not been dropped has received exactly the texts that were done
since it joined; the server's loop is a recursive function of the descriptor, `LoopDef` shows by
induction that there is one, and `LoopSends` that what the loop leaves behind for a client is
one frame more and nothing else. `AnswerInv`: an answer reported as sent has been ended and has
as many chunks as the file. `WebAssumption` says that descriptors are numbers and that "no
session" is none of them.

**JsonBuilder_proofs.** `Width` and `Parsed` are recursive functions of a place in the text.
`WidthDef` and `ParsedDef` show that there are such functions, `WidthConcat` that widths add up
and `ParsedOne` that one piece more is one step more of the reader. Where this needs an
induction over the places, `NatSetInduction` makes it from the least element of a set of
numbers, which the library states without an operator as a parameter. `Shape` is inductive with
the types: what is in the buffer ends with a piece of one character, so that the comma a bracket
takes back is always there and one character is what a chunk leaves behind; depth counts the
brackets; and the heads of the frames are those of a message that is begun, with as many frames
as nmb_chunks_written says, or of one that has ended. `Follows` says of a buffer and what
buffer_grow makes of it that the text, sent and left, is the same; `GrownFollows` and
`RoomFollows` show it for all ways of growing and sending, and what room there is afterwards.
With it every call preserves (`Keeps`) `TextInv`, which makes `TextAsAsked` inductive by adding
what holds when nothing is in the buffer, `SizeInv`, that the text and its null character lie in
the buffer (`Lies`) whose size is allowed, and `OnlyRefusalFails`. For `MessageIsJson` the
invariant is `Grammar`: the last character of the text asked for says what a reader of JSON
expects next, with exactly the brackets open that the caller has opened, and before a comma that
may be taken back the reader had a whole value. `OpenGrammar`, `CloseGrammar`, `KeyGrammar`,
`ValueGrammar` and `CommaGrammar` are its steps.

The calls that depart from what is said of them are part of all this: for each there is a lemma
that says what it leaves, and the properties name the cases in `odd`. One theorem has a
hypothesis. `FailsOnlyIfRefused` assumes `Roomy`: BUF_MAX_SIZE is at least what the longest
name, value and number ask for while one character is in the buffer; with names near the size of
the largest buffer a call fails although nobody refused. The constants of the run `json` satisfy
it.

**Cli_proofs.** Nothing but the sizes, the alphabet and the form of what is asked for is
assumed: `SizesAssumption` and `CharsAssumption` (a first buffer of more than one character,
letters that mean nothing to the parser), `ParamsAssumption` (keys are not empty and made of
letters, a value without quotes holds no sign, one in quotes no quote), `DocsAssumption` (the
objects that are commands hold strings and primitives only: what the code does with others is
left open, section 5), `NamesAssumption`, `WantAssumption`, `OutMaxAssumption`, and for jsmn,
which is external, `ValuesAssumption` and `TokensAssumption`. The module has four parts.

*What is read.* `EditInv` says that quote_count is the number of quotes in the buffer and that
nothing is typed unless something is asked for; with it every action is a step of `LineEditor`
or none (`StepIsEdit`), which is `IsLineEditor`. `ReadInv` says that the buffer without the
characters typed by mistake is the beginning of what is asked for, and the rest is what is still
to be typed. A ";" must not end a line early: `Texts` are the texts of which some set of
positions `OpenIn` tells where a quote is open, with no ";" outside and none left open at the
end; each parameter as it is typed is one, and so is one behind the other (`TextsConcat`,
`LineText`). `LineIsAsked` follows.

*How a line is taken apart.* `LineParts` gives each parameter its place in the line and `ItemAt`
shows what `Parameter` makes of it there, for the three forms it may have; `BackwardsExists` and
`ItemsDef` that the function of `Items`, which refers to positions behind its own, exists.
`ItemsTell`: the items are those of the parameters, one by one, up to the first that is wrong.
`TakeMeans` follows the loop over the places: it is wrong, or no place is left, or what it has
taken is what is asked for by the parameters so far. `ParseAsked` is the result.

*What is printed.* `Crlf`, `Written` and `OnLine` are shown to exist and to go on piece by piece
(`CrlfDef`, `WrittenMore`, `OnAppend`), and for each text that is printed there is a lemma about
the terminal behind it (`PutLfAdds`, `ReadyAdds`, `EndLineAdds`, `EntryAdds`, `FailureAdds`,
`StatusAdds`). `Proper` says of every piece what `OutputLines` asks of it; it is inductive with
`OpenLine`, which ties myLength to the entries on the line that is open: none if it is 0, else
they are as long together, behind a "cli_reply" of this command, even when a status message has
come in between. `OutInv` adds how far the command is; `OutputIsLines` follows.

*What is called.* `Spots` are the places of the members of a value among its tokens, and `Holds`
says that the tokens of a value lie among others; so those of each member do (`MemberHeld`). By
strong induction on the number of its tokens `SkipsValue` shows that skip_value goes on behind a
value: the loop over the members sees each at its place, whatever the depth. `ObjectTaken` is
the hook, `CommandCall` the call of a command. `HandInv` has for a text that is being walked
through (`WalkedTo`) that pos is the place of the next member, count the number of those left,
and handled the calls of those before (`OverrunByMember`: it stops only at a command with too
many members); for a line it stands on `LineIsAsked` and `ParseAsked`. `HandledIsAsked` follows.

Where these parts need an induction, `NatSetInduction` makes it for a set of numbers, as in
`JsonBuilder_proofs`; `Iterates` and `LoopInduction` are its form for loops.

### What is only model-checked

Liveness (`PublishReturns`, `AcceptedIsCalled`, `CallsReturn`, `GoneIsNoticed`, `NeverLeftIdle`)
is out of reach of the proof system, which knows neither fairness nor ENABLED. All other
properties of the runs that pass are theorems. The four violations are traces of TLC, and need
no proof.

## 5. Not modelled, and what is left

Left out altogether: vendored and generated code (jsmn's parser, `_doxy_`, `_test_`), the ESP32
store and config_kvs (wrappers of NVS and of the store), storage (mounting),
`net/esp32/tcp_server.cc` (not built), `firmware_update/esp32/ota.cc` (one library call between
two assignments), `utils_time`, the pure functions of `utils_misc`, which unit tests reach well,
and the host's main loop, which calls the function at once.

Of the parts that are modelled, the following is not:

* registry: that uoCb_publish_wsJson calls call-backs which have un-subscribed, because it does
  not look at the enabled bits, is in the model (`WsCheck`, `WsCall`); nothing in the repository
  says that it should not, and no run states it.
* main-loop queue: an interrupt's two calls of the kernel
  (`main_loop/esp32/main_queue.cc:64,68`) are one step.
* store: failing writes, the handle table and kvs_foreach; the build with HOST_TESTING, which
  calls abort at a bad magic cookie (`kvs/host/kvs_posix.cc:52-56`) where the chain of the model
  ends.
* TCP server: sockets that cannot be created, the deletion of the server (tcpCli_setup_task) and
  the task that reads stdin in it; the bytes that clients send.
* STM32: a session with the boot loader that is not part of an update (stm32_runBootLoader from
  outside), the commands that only print (getId, get), the extended erase that nobody calls, the
  contents of lines, the bits of frames and checksums. After a restart of the program in the
  middle of a session stm32_setup configures the line for the firmware without restarting the
  chip, so that stm32_isFirmwareRunning() answers true while the chip is in its boot loader
  (`FirmwareIsRunning` states what it should mean, in no run; `stranded` marks these states).
* JSON: texts of more than nine pieces and the conversions of numbers. The pre- and
  post-conditions are taken to stop the program (dbg.h leaves them out of a build with
  DISTRIBUTION or without post-conditions); what is destroyed by a character behind the end of
  the buffer, and what the heap does with a buffer that is not its own, is not followed further.
  A call-back takes a text as a whole: writing a part of one is left out. UoutPrinter's x_open
  does not look at the result of add_object and x_close is called all the same
  (`uout/so_out.cc:27-41`), which the model leaves to the caller, who may stop or go on after a
  failure; Weather::to_json (`weather/weather.cc:104`) does not look at the result of
  alloc_bigger_buffer.
* command line: passwords, the tags of replies; the names and texts of commands (keys are
  letters); a member of a command that is itself nested, the answers to JSON commands; a heap
  that has nothing, which leaves the buffer full until the next character. What a command does
  that has overrun `par` is left open. The text of a JSON command stands for its value, and the
  hook for "json" members is taken to be like weather_process_json. The head of a reply line is
  not counted in OUT_MAX_LEN, as in the code. One console reads; that all TCP connections share
  one line buffer is listed as a hazard and has no property.
* network: what an application does is the least that the call-backs are there for. The model
  keeps, and no property objects to, that nwc_connect does not ask whether the device could be
  set up, that a lost Ethernet link is not told to the main task, that a message that finds the
  queue full is lost, that handlers are registered again at each setup and then called as often,
  that the link stays up when the Ethernet driver cannot be stopped, that stopping the server
  does not clear ws_fds, that a running server keeps its login when it is started with another,
  and that a read error ends a file as if it were whole. Left out are scanning, posts of JSON,
  certificates, messages from the broker, publishing from other tasks, and failures that the
  code does not look at: of esp_wifi_connect, and the -1 of esp_mqtt_client_subscribe. The
  gateway goes to the SNTP client as it is: `net/esp32/ntp.cc:36` declares it as an ip_addr_t
  and `net/ipnet.cc:16` defines it as a uint32_t, which are the same only where an ip_addr_t is
  an IPv4 address (LWIP_IPV6 off); lists longer than SNTP_MAX_SERVERS are assumed away. `Stop`
  of the server is one step for two statements (`net_http_server/esp32/http_server.cc:110-111`),
  between which a task that sends a text may still hand the old handle to httpd_queue_work. Of
  `WebClientsServed`, what is said of answers follows from the handler's loop alone, which one
  task runs.
* weather: the arithmetic of the factor, reading the table out, and answers of the provider that
  are incomplete.

Next would be:

1. `TcpCliServer`: tcpCli_setup_task as actions (the server is deleted while a publisher is in
   it), and its shared line buffer composed with `CommandLine`.
2. `KvsPosix`: writes that fail or are short, as a third outcome beside success and crash, and
   kvs_foreach.
3. `MqttClient`: publishing from a third task while the client is destroyed, and the messages
   that arrive.
