----------------------------- MODULE TcpCliServer -----------------------------
(***************************************************************************)
(* The command line server of net/esp32/tcp_cli_server_task.cc.            *)
(*                                                                         *)
(* One task waits in select for its listening sockets and its connections, *)
(* accepts clients and reads their commands.  The first client subscribes  *)
(* the call-back of the server (see UoCallbacks) and the last one that     *)
(* leaves un-subscribes it.  The call-back runs in the task that publishes *)
(* a message: it writes to every connection and closes those it cannot     *)
(* write to.  tcpCli_mutex keeps the publishers from each other, so that   *)
(* one Publisher stands for all of them, but not from the server's task:   *)
(* wait_fds, nfds and cconn_count are changed by both, one field after the *)
(* other, and each change of the first and the last is a load and a store. *)
(***************************************************************************)
EXTENDS Integers, FiniteSets

CONSTANTS
  Sockets,         \* the descriptors of lwIP are 0 .. Sockets - 1
  Listeners,       \* sockfd and sockfd_ia
  Server,          \* the server's task
  Publisher,       \* the task that holds tcpCli_mutex
  MaxConnects,     \* bound: the clients that connect in a behaviour
  MaxInputs,       \* bound: the pieces of input that clients send
  MaxWrites        \* bound: the rounds of writing to all connections

Fds == 0 .. Sockets - 1
Actors == {Server, Publisher}

ASSUME ConstantsOK ==
  /\ Sockets \in Nat /\ Listeners \subseteq Fds /\ Listeners # {}
  /\ Server # Publisher
  /\ MaxConnects \in Nat /\ MaxInputs \in Nat /\ MaxWrites \in Nat

VARIABLES
  wait_fds, nfds, cconn_count,   \* the fields of TcpCliServer
  subscribed,     \* pctChange_cb is subscribed
  peer,           \* per descriptor: "free", "listen" or the state of the client
  input,          \* per descriptor: there is something to read
  backlog,        \* per listening socket: clients that wait to be accepted
  pc,             \* per actor: the step it is at
  fd,             \* per actor: the connection it works on
  bits, number,   \* per actor: what it has loaded of wait_fds and of cconn_count
  rfds, top,      \* wait_for_fd: the set for select, and n
  selected,       \* selected_fd >= 0
  i, count,       \* foreach_fd of the publisher
  connects, inputs, writes,      \* what has been used up of the bounds
  \* History, for the properties alone:
  meddled,        \* the publisher has closed a connection
  unread,         \* connections given up after a failed read
  owed            \* connections that the round of writing has still to reach

table   == <<wait_fds, nfds, cconn_count, subscribed>>
net     == <<peer, input, backlog>>
loads   == <<fd, bits, number>>
locals  == <<rfds, top, selected, i, count>>
bounds  == <<connects, inputs, writes>>
history == <<meddled, unread, owed>>
vars    == <<table, net, pc, loads, locals, bounds, history>>

Least(S) == CHOOSE x \in S : \A y \in S : x <= y
Greater(x, y) == IF x > y THEN x ELSE y

Go(a, step) == pc' = [pc EXCEPT ![a] = step]

\* What an actor goes on with when it is done with a connection.
Back(a) == Go(a, IF a = Server THEN "handle" ELSE "next")

--------------------------------------------------------------------------------
(* The clients *)

Connect(l) ==
  /\ connects < MaxConnects
  /\ connects' = connects + 1
  /\ backlog' = [backlog EXCEPT ![l] = @ + 1]
  /\ UNCHANGED <<table, peer, input, pc, loads, locals, inputs, writes, history>>

Send(f) ==
  /\ peer[f] = "up" /\ ~input[f]
  /\ inputs < MaxInputs
  /\ inputs' = inputs + 1
  /\ input' = [input EXCEPT ![f] = TRUE]
  /\ UNCHANGED <<table, peer, backlog, pc, loads, locals, connects, writes, history>>

\* The client closes its side, or the connection breaks and can be neither read
\* nor written.
Leave(f) ==
  /\ \/ peer[f] = "up" /\ peer' = [peer EXCEPT ![f] = "closed"]
     \/ peer[f] \in {"up", "closed"} /\ peer' = [peer EXCEPT ![f] = "reset"]
  /\ UNCHANGED <<table, input, backlog, pc, loads, locals, bounds, history>>

--------------------------------------------------------------------------------
(* lwip_close, and rm_fd, which both actors call *)

\* tcps_close_cconn: a descriptor that is not open is left as it is.
Close(a) ==
  /\ pc[a] = "close"
  /\ IF peer[fd[a]] = "free"
     THEN Back(a) /\ UNCHANGED <<peer, input, meddled>>
     ELSE /\ peer' = [peer EXCEPT ![fd[a]] = "free"]
          /\ input' = [input EXCEPT ![fd[a]] = FALSE]
          /\ meddled' = (meddled \/ a = Publisher)
          /\ Go(a, "rm")
  /\ UNCHANGED <<table, backlog, loads, locals, bounds, unread, owed>>

\* (What an actor has loaded is forgotten when it has been used.)

\* rm_fd: the check, and the load of FD_CLR.
LoadBits(a) ==
  /\ pc[a] = "rm"
  /\ IF fd[a] \in wait_fds
     THEN bits' = [bits EXCEPT ![a] = wait_fds] /\ Go(a, "clear")
     ELSE UNCHANGED bits /\ Back(a)
  /\ UNCHANGED <<table, net, fd, number, locals, bounds, history>>

\* A bug: nfds shrinks whenever a connection is removed.
ClearAndShrink(a) ==
  /\ pc[a] = "clear"
  /\ wait_fds' = bits[a] \ {fd[a]}
  /\ nfds' = nfds - 1
  /\ bits' = [bits EXCEPT ![a] = {}]
  /\ owed' = owed \cap wait_fds'
  /\ Go(a, "dec")
  /\ UNCHANGED <<cconn_count, subscribed, net, fd, number, locals, bounds, meddled, unread>>

\* The store of FD_CLR, and the adjustment of nfds, which is never made: what is removed
\* has been below nfds (NfdsCovers).
Clear(a) ==
  /\ pc[a] = "clear"
  /\ wait_fds' = bits[a] \ {fd[a]}
  /\ nfds' = IF fd[a] - 1 = nfds THEN nfds - 1 ELSE nfds
  /\ bits' = [bits EXCEPT ![a] = {}]
  /\ owed' = owed \cap wait_fds'
  /\ Go(a, "dec")
  /\ UNCHANGED <<cconn_count, subscribed, net, fd, number, locals, bounds, meddled, unread>>

LoadCount(a) ==
  /\ pc[a] \in {"inc", "dec"}
  /\ number' = [number EXCEPT ![a] = cconn_count]
  /\ Go(a, IF pc[a] = "inc" THEN "incStore" ELSE "decStore")
  /\ UNCHANGED <<table, net, fd, bits, locals, bounds, history>>

\* A bug: cconn_count-- <= 0.
DecrementAfter(a) ==
  /\ pc[a] = "decStore"
  /\ cconn_count' = number[a] - 1
  /\ number' = [number EXCEPT ![a] = 0]
  /\ IF number[a] <= 0 THEN Go(a, "zero") ELSE Back(a)
  /\ UNCHANGED <<wait_fds, nfds, subscribed, net, fd, bits, locals, bounds, history>>

\* --cconn_count <= 0
Decrement(a) ==
  /\ pc[a] = "decStore"
  /\ cconn_count' = number[a] - 1
  /\ number' = [number EXCEPT ![a] = 0]
  /\ IF number[a] - 1 <= 0 THEN Go(a, "zero") ELSE Back(a)
  /\ UNCHANGED <<wait_fds, nfds, subscribed, net, fd, bits, locals, bounds, history>>

SetZero(a) ==
  /\ pc[a] = "zero"
  /\ cconn_count' = 0
  /\ Go(a, "unsubscribe")
  /\ UNCHANGED <<wait_fds, nfds, subscribed, net, loads, locals, bounds, history>>

Unsubscribe(a) ==
  /\ pc[a] = "unsubscribe"
  /\ subscribed' = FALSE
  /\ Back(a)
  /\ UNCHANGED <<wait_fds, nfds, cconn_count, net, loads, locals, bounds, history>>

Remove(a) ==
  Close(a) \/ LoadBits(a) \/ Clear(a) \/ Decrement(a) \/ SetZero(a) \/ Unsubscribe(a)

--------------------------------------------------------------------------------
(* The server's task: wait_for_fd *)

Readable(f) ==
  IF f \in Listeners THEN backlog[f] > 0 ELSE input[f] \/ peer[f] \in {"closed", "reset"}

Select ==
  /\ pc[Server] = "select"
  /\ rfds' = wait_fds \cup Listeners
  /\ top' = nfds
  /\ Go(Server, "selecting")
  /\ UNCHANGED <<table, net, loads, selected, i, count, bounds, history>>

\* lwip_select fails on a descriptor that has been closed.
SelectFails ==
  /\ pc[Server] = "selecting"
  /\ \E f \in rfds : f < top /\ peer[f] = "free"
  /\ Go(Server, "select")
  /\ UNCHANGED <<table, net, loads, locals, bounds, history>>

SelectReturns ==
  /\ pc[Server] = "selecting"
  /\ \A f \in rfds : f < top => peer[f] # "free"
  /\ rfds' = {f \in rfds : f < top /\ Readable(f)}
  /\ rfds' # {}
  /\ top' = 0
  /\ Go(Server, "accept")
  /\ UNCHANGED <<table, net, loads, selected, i, count, bounds, history>>

Free == {f \in Fds : peer[f] = "free"}

\* try_accept: lwIP takes the lowest free descriptor, and refuses the client when
\* there is none.
Accept ==
  /\ pc[Server] = "accept"
  /\ rfds \cap Listeners # {}
  /\ LET l == Least(rfds \cap Listeners)
         f == Least(Free)
     IN  /\ rfds' = rfds \ {l}
         /\ backlog' = [backlog EXCEPT ![l] = @ - 1]
         /\ IF Free = {}
            THEN UNCHANGED <<peer, fd, pc>>
            ELSE /\ peer' = [peer EXCEPT ![f] = "up"]
                 /\ fd' = [fd EXCEPT ![Server] = f]
                 /\ Go(Server, "add")
         /\ unread' = IF Free = {} THEN unread ELSE unread \ {f}
  /\ UNCHANGED <<table, input, bits, number, top, selected, i, count, bounds, meddled, owed>>

\* add_fd: the load and the store of FD_SET.
AddLoad ==
  /\ pc[Server] = "add"
  /\ bits' = [bits EXCEPT ![Server] = wait_fds]
  /\ Go(Server, "set")
  /\ UNCHANGED <<table, net, fd, number, locals, bounds, history>>

AddStore ==
  /\ pc[Server] = "set"
  /\ wait_fds' = bits[Server] \cup {fd[Server]}
  /\ bits' = [bits EXCEPT ![Server] = {}]
  /\ owed' = owed \cap wait_fds'
  /\ Go(Server, "cover")
  /\ UNCHANGED <<nfds, cconn_count, subscribed, net, fd, number, locals, bounds, meddled, unread>>

\* The descriptor is in the set before nfds covers it.
AddCover ==
  /\ pc[Server] = "cover"
  /\ nfds' = Greater(nfds, fd[Server] + 1)
  /\ Go(Server, "inc")
  /\ UNCHANGED <<wait_fds, cconn_count, subscribed, net, loads, locals, bounds, history>>

\* The connection that is in the set, but that nfds may not cover yet.
Adding == IF pc[Server] = "cover" THEN {fd[Server]} ELSE {}

\* 0 == cconn_count++
Increment ==
  /\ pc[Server] = "incStore"
  /\ cconn_count' = number[Server] + 1
  /\ number' = [number EXCEPT ![Server] = 0]
  /\ Go(Server, IF number[Server] = 0 THEN "subscribe" ELSE "accept")
  /\ UNCHANGED <<wait_fds, nfds, subscribed, net, fd, bits, locals, bounds, history>>

Subscribe ==
  /\ pc[Server] = "subscribe"
  /\ subscribed' = TRUE
  /\ Go(Server, "accept")
  /\ UNCHANGED <<wait_fds, nfds, cconn_count, net, loads, locals, bounds, history>>

Accepted ==
  /\ pc[Server] = "accept"
  /\ rfds \cap Listeners = {}
  /\ Go(Server, "handle")
  /\ UNCHANGED <<table, net, loads, locals, bounds, history>>

\* foreach_fd: the connections that are left in the set, in their order.  (Its count
\* is the number of them.)
Handle ==
  /\ pc[Server] = "handle"
  /\ rfds # {}
  /\ fd' = [fd EXCEPT ![Server] = Least(rfds)]
  /\ rfds' = rfds \ {Least(rfds)}
  /\ selected' = TRUE
  /\ Go(Server, "getc")
  /\ UNCHANGED <<table, net, bits, number, top, i, count, bounds, history>>

Handled ==
  /\ pc[Server] = "handle"
  /\ rfds = {}
  /\ Go(Server, "select")
  /\ UNCHANGED <<table, net, loads, locals, bounds, history>>

\* tcps_getc: what lwip_recv returns, and what follows from it.
Failed(f) == ~input[f] /\ peer[f] \in {"reset", "free"}
Ended(f) == ~input[f] /\ peer[f] = "closed"
Empty(f) == ~input[f] /\ peer[f] = "up"

\* A bug: a connection with nothing to read is taken for one that has ended.
GetcEmptyIsEnd ==
  /\ pc[Server] = "getc"
  /\ ~input[fd[Server]] /\ selected
  /\ Go(Server, "close")
  /\ selected' = FALSE
  /\ UNCHANGED <<table, net, loads, rfds, top, i, count, bounds, history>>

\* A bug: the end of the input is taken for a pause.
GetcEndIsEmpty ==
  /\ pc[Server] = "getc"
  /\ Ended(fd[Server]) \/ Empty(fd[Server])
  /\ Go(Server, "handle")
  /\ selected' = FALSE
  /\ UNCHANGED <<table, net, loads, rfds, top, i, count, bounds, history>>

\* Nothing more to read: the connection is closed when this is the first read since
\* select, and otherwise looked at again by the next one.
GetcEnd ==
  /\ pc[Server] = "getc"
  /\ Ended(fd[Server]) \/ Empty(fd[Server])
  /\ Go(Server, IF Ended(fd[Server]) /\ selected THEN "close" ELSE "handle")
  /\ selected' = FALSE
  /\ UNCHANGED <<table, net, loads, rfds, top, i, count, bounds, history>>

\* An error: the connection is removed from the set and stays open.
GetcFails ==
  /\ pc[Server] = "getc"
  /\ Failed(fd[Server])
  /\ unread' = IF peer[fd[Server]] = "reset" THEN unread \cup {fd[Server]} ELSE unread
  /\ Go(Server, "rm")
  /\ selected' = FALSE
  /\ UNCHANGED <<table, net, loads, rfds, top, i, count, bounds, meddled, owed>>

\* Input, with which a command is complete and is carried out, or is not.
GetcReads ==
  /\ pc[Server] = "getc"
  /\ input[fd[Server]]
  /\ input' = [input EXCEPT ![fd[Server]] = FALSE]
  /\ selected' = FALSE
  /\ \E step \in {"handle", "getc"} : Go(Server, step)
  /\ UNCHANGED <<table, peer, backlog, loads, rfds, top, i, count, bounds, history>>

ServerStep ==
  \/ Select \/ SelectFails \/ SelectReturns \/ Accept \/ Accepted
  \/ AddLoad \/ AddStore \/ AddCover \/ Increment \/ Subscribe
  \/ Handle \/ Handled \/ GetcEnd \/ GetcFails \/ GetcReads
  \/ LoadCount(Server) \/ Remove(Server)

--------------------------------------------------------------------------------
(* A task that publishes: pctChange_cb *)

\* The call-back was subscribed when the message was handed out; it may not be when
\* it is called.
Publish ==
  /\ pc[Publisher] = "idle"
  /\ subscribed
  /\ Go(Publisher, "called")
  /\ UNCHANGED <<table, net, loads, locals, bounds, history>>

\* A bug: foreach_fd counts down from the number of connections.
WriteAllCounted ==
  /\ pc[Publisher] = "called"
  /\ writes < MaxWrites
  /\ writes' = writes + 1
  /\ i' = 0 /\ count' = cconn_count
  /\ owed' = wait_fds \ Adding
  /\ Go(Publisher, "next")
  /\ UNCHANGED <<table, net, loads, rfds, top, selected, connects, inputs, meddled, unread>>

\* tcpst_writeln_all or tcpst_putc_all: foreach_fd over wait_fds as it changes.  A
\* message takes several such rounds.
WriteAll ==
  /\ pc[Publisher] = "called"
  /\ writes < MaxWrites
  /\ writes' = writes + 1
  /\ i' = 0 /\ count' = nfds
  /\ owed' = wait_fds \ Adding
  /\ Go(Publisher, "next")
  /\ UNCHANGED <<table, net, loads, rfds, top, selected, connects, inputs, meddled, unread>>

Visit ==
  /\ pc[Publisher] = "next"
  /\ count > 0 /\ i < nfds
  /\ IF i \in wait_fds
     THEN /\ fd' = [fd EXCEPT ![Publisher] = i]
          /\ owed' = owed \ {i}
          /\ count' = count - 1
          /\ Go(Publisher, "write")
     ELSE UNCHANGED <<fd, owed, count, pc>>
  /\ i' = i + 1
  /\ UNCHANGED <<table, net, bits, number, rfds, top, selected, bounds, meddled, unread>>

AllWritten ==
  /\ pc[Publisher] = "next"
  /\ count = 0 \/ i >= nfds
  /\ i' = 0 /\ count' = 0
  /\ \E step \in {"idle", "called"} : Go(Publisher, step)
  /\ UNCHANGED <<table, net, loads, rfds, top, selected, bounds, history>>

\* lwip_write: what is written to a client that has closed its side is accepted.
Write ==
  /\ pc[Publisher] = "write"
  /\ Go(Publisher, IF peer[fd[Publisher]] \in {"reset", "free"} THEN "close" ELSE "next")
  /\ UNCHANGED <<table, net, loads, locals, bounds, history>>

PublisherStep ==
  \/ Publish \/ WriteAll \/ Visit \/ AllWritten \/ Write
  \/ LoadCount(Publisher) \/ Remove(Publisher)

--------------------------------------------------------------------------------

\* tcps_task has created its listening sockets.
Init ==
  /\ wait_fds = {} /\ cconn_count = 0 /\ subscribed = FALSE
  /\ nfds \in {f + 1 : f \in Listeners} /\ \A f \in Listeners : f < nfds
  /\ peer = [f \in Fds |-> IF f \in Listeners THEN "listen" ELSE "free"]
  /\ input = [f \in Fds |-> FALSE]
  /\ backlog = [l \in Listeners |-> 0]
  /\ pc = [a \in Actors |-> IF a = Server THEN "select" ELSE "idle"]
  /\ fd = [a \in Actors |-> 0]
  /\ bits = [a \in Actors |-> {}] /\ number = [a \in Actors |-> 0]
  /\ rfds = {} /\ top = 0 /\ selected = FALSE
  /\ i = 0 /\ count = 0
  /\ connects = 0 /\ inputs = 0 /\ writes = 0
  /\ meddled = FALSE /\ unread = {} /\ owed = {}

Clients ==
  \/ \E l \in Listeners : Connect(l)
  \/ \E f \in Fds : Send(f) \/ Leave(f)

Next == ServerStep \/ PublisherStep \/ Clients

Spec == Init /\ [][Next]_vars

\* The server's task keeps running.  Nothing is assumed of the publishers, which a
\* client that does not read may hold up, nor of the clients.
FairSpec == Spec /\ WF_vars(ServerStep)

--------------------------------------------------------------------------------
(* Properties *)

Steps == {"select", "selecting", "accept", "add", "set", "cover", "inc", "incStore", "subscribe",
          "handle", "getc", "close", "rm", "clear", "dec", "decStore", "zero", "unsubscribe",
          "idle", "called", "next", "write"}

\* Every variable has its type, and the count of foreach_fd does not go below zero.
TypeOK ==
  /\ wait_fds \subseteq Fds \ Listeners /\ nfds \in 0 .. Sockets
  /\ cconn_count \in Int /\ subscribed \in BOOLEAN
  /\ peer \in [Fds -> {"free", "listen", "up", "closed", "reset"}]
  /\ input \in [Fds -> BOOLEAN] /\ backlog \in [Listeners -> 0 .. MaxConnects]
  /\ pc \in [Actors -> Steps] /\ fd \in [Actors -> Fds]
  /\ bits \in [Actors -> SUBSET Fds] /\ number \in [Actors -> Int]
  /\ rfds \subseteq Fds /\ top \in 0 .. Sockets /\ selected \in BOOLEAN
  /\ i \in 0 .. Sockets /\ count \in 0 .. Sockets
  /\ connects \in 0 .. MaxConnects /\ inputs \in 0 .. MaxInputs /\ writes \in 0 .. MaxWrites
  /\ meddled \in BOOLEAN /\ unread \subseteq Fds /\ owed \subseteq Fds

\* select and foreach_fd look at the descriptors below nfds: however the two actors
\* interleave in rm_fd and add_fd, no listening socket is beyond it and no connection
\* that is waited for, but the one that the server's task has just put into the set and
\* not covered yet.
NfdsCovers == (wait_fds \ Adding) \cup Listeners \subseteq 0 .. nfds - 1

\* The server's task closes a connection, or gives it up, only when its client is
\* gone: not when the descriptor select returned has been closed by a publisher and
\* is by now the one of a client that has just been accepted.
ServerSparesTheLiving ==
  pc[Server] \in {"close", "rm", "clear"} => peer[fd[Server]] # "up"

\* A round of writing reaches every connection that is waited for, and covered by nfds,
\* from its beginning to its end, although connections come and go on both sides of the
\* loop's index.  (It may miss the connection that is being added when it begins.)
NoClientMissed == pc[Publisher] \in {"idle", "called"} => owed = {}

\* As long as no publisher has closed a connection the fields agree with the sockets
\* whenever the server's task is between two of its changes: the count is the
\* number of connections, the call-back is subscribed when there are any, and a
\* connection that is open is waited for unless reading it has failed.
FieldsAgree ==
  ~meddled /\ pc[Server] \in {"select", "selecting", "accept", "handle", "getc", "close"} =>
    /\ cconn_count = Cardinality(wait_fds)
    /\ subscribed = (wait_fds # {})
    /\ wait_fds = {f \in Fds \ Listeners : peer[f] # "free"} \ unread

\* A connection whose client is gone does not stay in the set for good, as long as
\* no publisher closes a connection.
GoneIsNoticed ==
  \A f \in Fds \ Listeners :
    peer[f] \in {"closed", "reset"} /\ f \in wait_fds ~> f \notin wait_fds \/ meddled
================================================================================
