------------------------------- MODULE WebServer -------------------------------
(***************************************************************************)
(* The HTTP server: starting and stopping it, texts for all websocket      *)
(* clients, which any task queues and the server's task sends, and the     *)
(* files it answers requests with (net_http_server/esp32/).                *)
(***************************************************************************)
EXTENDS Integers, Sequences

CONSTANTS
  Fds,        \* the sockets of the server: 0 .. n
  Logins,     \* what a request or a configuration may have as user name and password
  NoLogin, NoSession, NoJob,
  FileLength, \* how many chunks the file has
  MaxTexts    \* bound

ASSUME WebAssumption ==
  Fds \subseteq Nat /\ NoSession \notin Nat /\ NoJob # "open" /\ FileLength \in Nat

VARIABLES
  hts_server,   \* the server is running
  auth,         \* auth_user and auth_password
  ws_fds, ws_nfds,
  sessions,     \* the websocket clients: how many texts were done when each joined
  got,          \* the texts each has been sent
  texts,        \* the texts so far
  works,        \* those in the queue of the server's task
  done,         \* those that it has sent
  job,          \* the file the server's task is sending
  answer        \* what the last request has been answered with

webvars == <<hts_server, auth, ws_fds, ws_nfds, sessions, got, texts, works, done, job, answer>>
wsvars == <<ws_fds, ws_nfds, sessions, got>>
textvars == <<texts, works, done>>
filevars == <<job, answer>>

NoAnswer == [chunks |-> 0, ended |-> FALSE, result |-> "none"]

WebInit ==
  /\ hts_server = FALSE /\ auth = NoLogin
  /\ ws_fds = {} /\ ws_nfds = 0
  /\ sessions = [fd \in Fds |-> NoSession] /\ got = [fd \in Fds |-> <<>>]
  /\ texts = 0 /\ works = <<>> /\ done = <<>>
  /\ job = NoJob /\ answer = NoAnswer

--------------------------------------------------------------------------------
(* hts_enable_http_server *)

\* start_webserver, which may fail.  A server that runs goes on with the login it has.
Start(login) ==
  /\ IF hts_server THEN UNCHANGED <<hts_server, auth>>
     ELSE hts_server' \in BOOLEAN /\ auth' = login
  /\ UNCHANGED <<wsvars, textvars, filevars>>

\* httpd_stop waits for the server's task, closes the sockets and forgets what is queued.
\* Nobody clears ws_fds.
Stop ==
  /\ job = NoJob
  /\ hts_server' = FALSE
  /\ IF hts_server
     THEN /\ sessions' = [fd \in Fds |-> NoSession] /\ got' = [fd \in Fds |-> <<>>]
          /\ works' = <<>>
     ELSE UNCHANGED <<sessions, got, works>>
  /\ UNCHANGED <<auth, ws_fds, ws_nfds, texts, done, filevars>>

--------------------------------------------------------------------------------
(* Websocket clients *)

Idle == hts_server /\ job = NoJob

\* The application's handler, in the server's task
Join(fd) ==
  /\ Idle /\ sessions[fd] = NoSession
  /\ sessions' = [sessions EXCEPT ![fd] = Len(done)]
  /\ ws_fds' = ws_fds \cup {fd}
  /\ ws_nfds' = IF ws_nfds > fd THEN ws_nfds ELSE fd + 1
  /\ UNCHANGED <<hts_server, auth, got, textvars, filevars>>

Leave(fd) ==
  /\ Idle /\ sessions[fd] # NoSession
  /\ sessions' = [sessions EXCEPT ![fd] = NoSession]
  /\ got' = [got EXCEPT ![fd] = <<>>]
  /\ UNCHANGED <<hts_server, auth, ws_fds, ws_nfds, textvars, filevars>>

\* ws_send_json, from any task.  That a text could not be queued is told to nobody, and it is
\* not freed.
SendJson ==
  /\ texts < MaxTexts
  /\ texts' = texts + 1
  /\ works' \in IF hts_server THEN {works, Append(works, texts')} ELSE {works}
  /\ UNCHANGED <<hts_server, auth, wsvars, done, filevars>>

\* A bug: whatever socket fails becomes the bound.
DroppedAnywhere(w, fd) == [w EXCEPT !.fds = @ \ {fd}, !.nfds = fd]

Dropped(w, fd) == [w EXCEPT !.fds = @ \ {fd}, !.nfds = IF @ = fd + 1 THEN fd ELSE @]

\* One round of the loop of ws_async_broadcast when sending to the sockets in bad fails
SendTo(w, fd, bad) ==
  IF fd >= w.nfds \/ fd \notin w.fds THEN w
  ELSE IF fd \in bad THEN Dropped(w, fd)
  ELSE [w EXCEPT !.sent = @ \cup {fd}]

\* The loop: what it leaves after the rounds for the sockets below n, for n up to its bound.
\* (The bound only shrinks, so that the rounds behind it do nothing.)
Loop(bad) ==
  LET after[n \in 0 .. ws_nfds] ==
        IF n = 0 THEN [fds |-> ws_fds, nfds |-> ws_nfds, sent |-> {}]
        ELSE SendTo(after[n - 1], n - 1, bad)
  IN  after[ws_nfds]

\* Sending to one who has left fails, sending to one who is there may fail.
Broadcast ==
  /\ Idle /\ works # <<>>
  /\ \E bad \in SUBSET ws_fds :
       /\ \A fd \in ws_fds : sessions[fd] = NoSession => fd \in bad
       /\ LET after == Loop(bad)
          IN  /\ ws_fds' = after.fds /\ ws_nfds' = after.nfds
              /\ got' = [fd \in Fds |-> IF fd \in after.sent THEN Append(got[fd], Head(works)) ELSE got[fd]]
  /\ works' = Tail(works) /\ done' = Append(done, Head(works))
  /\ UNCHANGED <<hts_server, auth, sessions, texts, filevars>>

--------------------------------------------------------------------------------
(* Requests for a file *)

Allowed(login) == auth = NoLogin \/ login = auth

Result(chunks, ended, result) == [chunks |-> chunks, ended |-> ended, result |-> result]

\* check_access_allowed, and respond_file for a file that a reader gives, which is opened, or
\* for one in memory, which is sent at once
Request(login, inMemory) ==
  /\ Idle
  /\ CASE ~Allowed(login) -> job' = NoJob /\ answer' = Result(0, TRUE, "unauthorized")
       [] Allowed(login) /\ inMemory ->
            /\ job' = NoJob
            /\ answer' \in {Result(FileLength, TRUE, "ok"), Result(0, FALSE, "fail")}
       [] OTHER ->
            \/ job' = "open" /\ answer' = NoAnswer
            \/ job' = NoJob /\ answer' = Result(0, FALSE, "fail")
  /\ UNCHANGED <<hts_server, auth, wsvars, textvars>>

Sends(chunks, ended, result) ==
  /\ job' = IF result = "none" THEN "open" ELSE NoJob
  /\ answer' = Result(chunks, ended, result)
  /\ UNCHANGED <<hts_server, auth, wsvars, textvars>>

\* The loop of respond_file: the chunk that ends the answer is an empty one.
SendChunk ==
  /\ job = "open"
  /\ IF answer.chunks < FileLength THEN Sends(answer.chunks + 1, FALSE, "none")
     ELSE Sends(answer.chunks, TRUE, "ok")

SendFails == job = "open" /\ Sends(answer.chunks, FALSE, "fail")

\* The answer is ended as if it were whole.
ReadFails == job = "open" /\ Sends(answer.chunks, TRUE, "fail")
================================================================================
