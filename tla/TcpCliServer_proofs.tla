-------------------------- MODULE TcpCliServer_proofs --------------------------
(* Theorems about the command line server, for any number of descriptors,      *)
(* clients and rounds of writing, and whatever the two actors do to the fields *)
(* they share.                                                                 *)
EXTENDS TcpCliServer, TLAPS, WellFoundedInduction, FiniteSetTheorems

--------------------------------------------------------------------------------
(* The inductive invariant *)

\* The steps at which the server's task has looked at the listening sockets of the
\* set that select returned, and those at which an actor works on a connection.
Connections == {"handle", "getc", "close", "rm", "clear", "dec", "decStore", "zero",
                "unsubscribe"}
Accepting == {"accept", "add", "set", "cover", "inc", "incStore", "subscribe"}
Removing == {"close", "rm", "clear"}
Working == {"add", "set", "cover", "getc", "write"} \cup Removing

\* The listening sockets stay open, and one that select has returned has a client.
ListenersOpen ==
  /\ \A l \in Listeners : peer[l] = "listen" /\ backlog[l] <= connects
  /\ pc[Server] \in Accepting => \A l \in rfds \cap Listeners : backlog[l] > 0

\* No actor works on a listening socket.
ConnectionsOnly ==
  /\ pc[Server] \in Connections => rfds \cap Listeners = {}
  /\ pc[Publisher] \notin {"select", "selecting", "accept", "handle"}
  /\ \A a \in Actors : pc[a] \in Working => fd[a] \notin Listeners

\* What an actor has loaded of wait_fds is below nfds as well, but for the connection
\* that is being added.  What an actor is about to remove is: a publisher has met it
\* below nfds, and the server's task adds no connection meanwhile.
LoadsCovered ==
  /\ \A a \in Actors : /\ bits[a] \subseteq ((0 .. nfds - 1) \cup Adding) \ Listeners
                       /\ pc[a] = "clear" => fd[a] < nfds
  /\ pc[Publisher] \in {"write"} \cup Removing => fd[Publisher] < nfds

Inv == TypeOK /\ NfdsCovers /\ ListenersOpen /\ ConnectionsOnly /\ LoadsCovered

--------------------------------------------------------------------------------

\* Every non-empty set of descriptors has a lowest one.
LEMMA LeastIsLowest ==
  ASSUME NEW S \in SUBSET Fds, S # {}
  PROVE  Least(S) \in S
<1> DEFINE R == {ss \in Nat \X Nat : ss[1] < ss[2]}
<1>1. S \subseteq Nat
  BY ConstantsOK DEF Fds
<1>2. PICK m \in S : \A n \in S : ~ (<<n, m>> \in R)
  <2>1. R = OpToRel(<, Nat)
    BY DEF OpToRel
  <2>2. IsWellFoundedOn(R, Nat)
    BY <2>1, NatLessThanWellFounded
  <2> HIDE DEF R
  <2> QED
    BY <1>1, <2>2, WFMin
<1>3. ASSUME NEW n \in S PROVE m <= n
  <2>1. <<n, m>> \notin R
    BY <1>2
  <2>2. ~ (n < m)
    BY <1>1, <2>1
  <2> QED
    BY <1>1, <2>2
<1> QED
  BY <1>3 DEF Least

\* What is below a bound is below a greater one.
LEMMA IntervalGrows ==
  ASSUME NEW m \in Int, NEW n \in Int, m <= n
  PROVE  0 .. m - 1 \subseteq 0 .. n - 1
OBVIOUS

\* The initial states.
LEMMA InitInv == Init => Inv
<1> SUFFICES ASSUME Init PROVE Inv
  OBVIOUS
<1> USE ConstantsOK DEF Init, Fds, Actors
<1>1. nfds \in 1 .. Sockets
  OBVIOUS
<1>2. TypeOK
  <2>1. 0 \in Fds /\ nfds \in 0 .. Sockets
    BY <1>1
  <2>2. /\ pc \in [Actors -> Steps] /\ fd \in [Actors -> Fds]
        /\ bits \in [Actors -> SUBSET Fds] /\ number \in [Actors -> Int]
    BY <2>1 DEF Steps
  <2>3. /\ peer \in [Fds -> {"free", "listen", "up", "closed", "reset"}]
        /\ input \in [Fds -> BOOLEAN] /\ backlog \in [Listeners -> 0 .. MaxConnects]
    OBVIOUS
  <2>4. subscribed \in BOOLEAN /\ selected \in BOOLEAN /\ meddled \in BOOLEAN
    BY Zenon
  <2>5. /\ wait_fds \subseteq Fds \ Listeners /\ cconn_count \in Int
        /\ rfds \subseteq Fds /\ top \in 0 .. Sockets
        /\ i \in 0 .. Sockets /\ count \in 0 .. Sockets
    BY <2>1
  <2>6. /\ connects \in 0 .. MaxConnects /\ inputs \in 0 .. MaxInputs /\ writes \in 0 .. MaxWrites
        /\ unread \subseteq Fds /\ owed \subseteq Fds
    OBVIOUS
  <2> HIDE DEF Init
  <2> QED
    BY <2>1, <2>2, <2>3, <2>4, <2>5, <2>6 DEF TypeOK
<1>3. NfdsCovers
  BY <1>1 DEF NfdsCovers
<1> QED
  BY <1>2, <1>3 DEF Inv, ListenersOpen, ConnectionsOnly, LoadsCovered, Accepting, Connections,
     Working, Removing, Adding

\* The steps of the clients.
LEMMA ClientsKeepInv ==
  ASSUME Inv, Clients
  PROVE  Inv'
<1> USE ConstantsOK DEF Inv, table, net, loads, locals, bounds, history, Fds
<1>1. CASE \E l \in Listeners : Connect(l)
  <2> PICK l \in Listeners : Connect(l)
    BY <1>1
  <2>1. backlog' \in [Listeners -> 0 .. MaxConnects] /\ connects' \in 0 .. MaxConnects
    BY DEF Connect, TypeOK, ListenersOpen
  <2>2. \A m \in Listeners : backlog'[m] <= connects' /\ backlog'[m] >= backlog[m]
    BY DEF Connect, TypeOK, ListenersOpen
  <2>3. TypeOK'
    BY <2>1 DEF Connect, TypeOK
  <2>4. ListenersOpen'
    BY <2>1, <2>2 DEF Connect, TypeOK, ListenersOpen
  <2> QED
    BY <2>3, <2>4 DEF Connect, NfdsCovers, ConnectionsOnly, LoadsCovered, Adding
<1>2. CASE \E f \in Fds : Send(f)
  BY <1>2 DEF Send, TypeOK, NfdsCovers, ListenersOpen, ConnectionsOnly, LoadsCovered, Adding
<1>3. CASE \E f \in Fds : Leave(f)
  <2> PICK f \in Fds : Leave(f)
    BY <1>3
  <2>1. TypeOK'
    BY DEF Leave, TypeOK
  <2>2. ListenersOpen'
    BY DEF Leave, TypeOK, ListenersOpen
  <2> QED
    BY <2>1, <2>2 DEF Leave, NfdsCovers, ConnectionsOnly, LoadsCovered, Adding
<1> QED
  BY <1>1, <1>2, <1>3 DEF Clients

\* What an actor goes on with.
LEMMA GoType ==
  ASSUME TypeOK, NEW a \in Actors, NEW step \in Steps, Go(a, step)
  PROVE  pc' \in [Actors -> Steps]
BY DEF Go, TypeOK

\* Removing a connection, by either actor.
LEMMA RemoveKeepsInv ==
  ASSUME Inv, NEW a \in Actors, Remove(a) \/ LoadCount(a)
  PROVE  Inv'
<1> USE ConstantsOK DEF Inv, table, net, loads, locals, bounds, history, Fds, Actors
<1>1. CASE Close(a)
  <2>1. PICK step \in {"rm", IF a = Server THEN "handle" ELSE "next"} : pc' = [pc EXCEPT ![a] = step]
    BY <1>1 DEF Close, Go, Back
  <2>2. pc' \in [Actors -> Steps]
    BY <2>1 DEF TypeOK, Steps
  <2>3. TypeOK'
    BY <1>1, <2>2 DEF Close, TypeOK, LoadsCovered
  <2>4. NfdsCovers' /\ LoadsCovered'
    BY <1>1, <2>1 DEF Close, TypeOK, NfdsCovers, LoadsCovered, Adding, Removing
  <2>5. ListenersOpen'
    BY <1>1, <2>1 DEF Close, TypeOK, ListenersOpen, ConnectionsOnly, Accepting, Working, Removing
  <2>6. ConnectionsOnly'
    BY <1>1, <2>1 DEF Close, TypeOK, ConnectionsOnly, Connections, Working, Removing
  <2> QED
    BY <2>3, <2>4, <2>5, <2>6
<1>2. CASE LoadBits(a)
  <2>1. PICK step \in {"clear", IF a = Server THEN "handle" ELSE "next"} : pc' = [pc EXCEPT ![a] = step]
    BY <1>2 DEF LoadBits, Go, Back
  <2>2. pc' \in [Actors -> Steps]
    BY <2>1 DEF TypeOK, Steps
  <2>3. TypeOK'
    BY <1>2, <2>2 DEF LoadBits, TypeOK, LoadsCovered
  <2>a. wait_fds \subseteq ((0 .. nfds - 1) \cup Adding) \ Listeners
    BY DEF TypeOK, NfdsCovers
  <2>b. step = "clear" => fd[a] \in wait_fds
    BY <1>2, <2>1 DEF LoadBits, Go, Back, TypeOK
  <2>c. step = "clear" => fd[a] < nfds
    <3>1. CASE a = Publisher
      BY <1>2, <3>1 DEF LoadBits, LoadsCovered, Removing
    <3>2. CASE a = Server
      <4>1. Adding = {}
        BY <1>2, <3>2 DEF LoadBits, Adding
      <4> QED
        BY <2>a, <2>b, <4>1 DEF TypeOK
    <3> QED
      BY <3>1, <3>2
  <2>d. Adding' = Adding
    BY <1>2, <2>1 DEF LoadBits, Adding, TypeOK
  <2>e. NfdsCovers'
    BY <1>2, <2>d DEF LoadBits, NfdsCovers
  <2>g. LoadsCovered'
    <3>1. bits' = bits \/ bits' = [bits EXCEPT ![a] = wait_fds]
      BY <1>2 DEF LoadBits
    <3>2. \A b \in Actors : bits'[b] \subseteq ((0 .. nfds' - 1) \cup Adding') \ Listeners
      BY <1>2, <2>a, <2>d, <3>1 DEF LoadBits, LoadsCovered, TypeOK
    <3>3. \A b \in Actors : pc'[b] = "clear" => fd'[b] < nfds'
      BY <1>2, <2>1, <2>c DEF LoadBits, LoadsCovered, TypeOK
    <3>4. pc'[Publisher] \in {"write"} \cup Removing => fd'[Publisher] < nfds'
      BY <1>2, <2>1, <2>c DEF LoadBits, LoadsCovered, Removing, TypeOK
    <3> QED
      BY <3>2, <3>3, <3>4 DEF LoadsCovered
  <2>4. NfdsCovers' /\ LoadsCovered'
    BY <2>e, <2>g
  <2>5. ListenersOpen'
    BY <1>2, <2>1 DEF LoadBits, TypeOK, ListenersOpen, ConnectionsOnly, Accepting, Working, Removing
  <2>6. ConnectionsOnly'
    BY <1>2, <2>1 DEF LoadBits, TypeOK, ConnectionsOnly, Connections, Working, Removing
  <2> QED
    BY <2>3, <2>4, <2>5, <2>6
<1>3. CASE Clear(a)
  <2>1. PICK step \in {"dec"} : pc' = [pc EXCEPT ![a] = step]
    BY <1>3 DEF Clear, Go, Back
  <2>2. pc' \in [Actors -> Steps]
    BY <2>1 DEF TypeOK, Steps
  <2>3. TypeOK'
    BY <1>3, <2>2 DEF Clear, TypeOK, LoadsCovered
  <2>a. nfds' = nfds
    BY <1>3 DEF Clear, TypeOK, LoadsCovered
  <2>b. bits' = [bits EXCEPT ![a] = {}] /\ wait_fds' = bits[a] \ {fd[a]} /\ fd' = fd
    BY <1>3 DEF Clear
  <2>e. Adding' = Adding
    BY <1>3, <2>1, <2>b DEF Clear, Adding, TypeOK
  <2>c. NfdsCovers'
    BY <2>a, <2>b, <2>e DEF NfdsCovers, LoadsCovered
  <2>d. LoadsCovered'
    BY <2>1, <2>a, <2>b, <2>e DEF TypeOK, LoadsCovered, Removing
  <2>4. NfdsCovers' /\ LoadsCovered'
    BY <2>c, <2>d
  <2>5. ListenersOpen'
    BY <1>3, <2>1 DEF Clear, TypeOK, ListenersOpen, ConnectionsOnly, Accepting, Working, Removing
  <2>6. ConnectionsOnly'
    BY <1>3, <2>1 DEF Clear, TypeOK, ConnectionsOnly, Connections, Working, Removing
  <2> QED
    BY <2>3, <2>4, <2>5, <2>6
<1>4. CASE LoadCount(a)
  <2>1. PICK step \in {IF pc[a] = "inc" THEN "incStore" ELSE "decStore"} : pc' = [pc EXCEPT ![a] = step]
    BY <1>4 DEF LoadCount, Go, Back
  <2>2. pc' \in [Actors -> Steps]
    BY <2>1 DEF TypeOK, Steps
  <2>3. TypeOK'
    BY <1>4, <2>2 DEF LoadCount, TypeOK, LoadsCovered
  <2>4. NfdsCovers' /\ LoadsCovered'
    BY <1>4, <2>1 DEF LoadCount, TypeOK, NfdsCovers, LoadsCovered, Adding, Removing
  <2>5. ListenersOpen'
    BY <1>4, <2>1 DEF LoadCount, TypeOK, ListenersOpen, ConnectionsOnly, Accepting, Working, Removing
  <2>6. ConnectionsOnly'
    BY <1>4, <2>1 DEF LoadCount, TypeOK, ConnectionsOnly, Connections, Working, Removing
  <2> QED
    BY <2>3, <2>4, <2>5, <2>6
<1>5. CASE Decrement(a)
  <2>1. PICK step \in {"zero", IF a = Server THEN "handle" ELSE "next"} : pc' = [pc EXCEPT ![a] = step]
    BY <1>5 DEF Decrement, Go, Back
  <2>2. pc' \in [Actors -> Steps]
    BY <2>1 DEF TypeOK, Steps
  <2>3. TypeOK'
    BY <1>5, <2>2 DEF Decrement, TypeOK, LoadsCovered
  <2>4. NfdsCovers' /\ LoadsCovered'
    BY <1>5, <2>1 DEF Decrement, TypeOK, NfdsCovers, LoadsCovered, Adding, Removing
  <2>5. ListenersOpen'
    BY <1>5, <2>1 DEF Decrement, TypeOK, ListenersOpen, ConnectionsOnly, Accepting, Working, Removing
  <2>6. ConnectionsOnly'
    BY <1>5, <2>1 DEF Decrement, TypeOK, ConnectionsOnly, Connections, Working, Removing
  <2> QED
    BY <2>3, <2>4, <2>5, <2>6
<1>6. CASE SetZero(a)
  <2>1. PICK step \in {"unsubscribe"} : pc' = [pc EXCEPT ![a] = step]
    BY <1>6 DEF SetZero, Go, Back
  <2>2. pc' \in [Actors -> Steps]
    BY <2>1 DEF TypeOK, Steps
  <2>3. TypeOK'
    BY <1>6, <2>2 DEF SetZero, TypeOK, LoadsCovered
  <2>4. NfdsCovers' /\ LoadsCovered'
    BY <1>6, <2>1 DEF SetZero, TypeOK, NfdsCovers, LoadsCovered, Adding, Removing
  <2>5. ListenersOpen'
    BY <1>6, <2>1 DEF SetZero, TypeOK, ListenersOpen, ConnectionsOnly, Accepting, Working, Removing
  <2>6. ConnectionsOnly'
    BY <1>6, <2>1 DEF SetZero, TypeOK, ConnectionsOnly, Connections, Working, Removing
  <2> QED
    BY <2>3, <2>4, <2>5, <2>6
<1>7. CASE Unsubscribe(a)
  <2>1. PICK step \in {IF a = Server THEN "handle" ELSE "next"} : pc' = [pc EXCEPT ![a] = step]
    BY <1>7 DEF Unsubscribe, Go, Back
  <2>2. pc' \in [Actors -> Steps]
    BY <2>1 DEF TypeOK, Steps
  <2>3. TypeOK'
    BY <1>7, <2>2 DEF Unsubscribe, TypeOK, LoadsCovered
  <2>4. NfdsCovers' /\ LoadsCovered'
    BY <1>7, <2>1 DEF Unsubscribe, TypeOK, NfdsCovers, LoadsCovered, Adding, Removing
  <2>5. ListenersOpen'
    BY <1>7, <2>1 DEF Unsubscribe, TypeOK, ListenersOpen, ConnectionsOnly, Accepting, Working, Removing
  <2>6. ConnectionsOnly'
    BY <1>7, <2>1 DEF Unsubscribe, TypeOK, ConnectionsOnly, Connections, Working, Removing
  <2> QED
    BY <2>3, <2>4, <2>5, <2>6
<1> QED
  BY <1>1, <1>2, <1>3, <1>4, <1>5, <1>6, <1>7 DEF Remove

\* The steps of the server's task.
LEMMA ServerKeepsInv ==
  ASSUME Inv, ServerStep
  PROVE  Inv'
<1> USE ConstantsOK DEF Inv, table, net, loads, locals, bounds, history, Fds, Actors
<1>1. CASE Select
  <2>1. pc' = [pc EXCEPT ![Server] = "selecting"]
    BY <1>1 DEF Select, Go
  <2>2. pc' \in [Actors -> Steps]
    BY <2>1 DEF TypeOK, Steps
  <2>3. TypeOK'
    BY <1>1, <2>2 DEF Select, TypeOK, LoadsCovered, NfdsCovers, Greater
  <2>4. NfdsCovers' /\ LoadsCovered'
    BY <1>1, <2>1 DEF Select, TypeOK, NfdsCovers, LoadsCovered, Adding, Removing
  <2>5. ListenersOpen'
    BY <1>1, <2>1 DEF Select, TypeOK, ListenersOpen, ConnectionsOnly, Accepting, Readable
  <2>6. ConnectionsOnly'
    BY <1>1, <2>1, <2>3 DEF Select, TypeOK, ListenersOpen, ConnectionsOnly, Connections, Working, Removing
  <2> QED
    BY <2>3, <2>4, <2>5, <2>6
<1>2. CASE SelectFails
  <2>1. pc' = [pc EXCEPT ![Server] = "select"]
    BY <1>2 DEF SelectFails, Go
  <2>2. pc' \in [Actors -> Steps]
    BY <2>1 DEF TypeOK, Steps
  <2>3. TypeOK'
    BY <1>2, <2>2 DEF SelectFails, TypeOK, LoadsCovered, NfdsCovers, Greater
  <2>4. NfdsCovers' /\ LoadsCovered'
    BY <1>2, <2>1 DEF SelectFails, TypeOK, NfdsCovers, LoadsCovered, Adding, Removing
  <2>5. ListenersOpen'
    BY <1>2, <2>1 DEF SelectFails, TypeOK, ListenersOpen, ConnectionsOnly, Accepting, Readable
  <2>6. ConnectionsOnly'
    BY <1>2, <2>1, <2>3 DEF SelectFails, TypeOK, ListenersOpen, ConnectionsOnly, Connections, Working, Removing
  <2> QED
    BY <2>3, <2>4, <2>5, <2>6
<1>3. CASE SelectReturns
  <2>1. pc' = [pc EXCEPT ![Server] = "accept"]
    BY <1>3 DEF SelectReturns, Go
  <2>2. pc' \in [Actors -> Steps]
    BY <2>1 DEF TypeOK, Steps
  <2>a. rfds' \in SUBSET Fds /\ top' \in 0 .. Sockets
    <3>1. rfds' = {x \in rfds : x < top /\ Readable(x)} /\ top' = 0
      BY <1>3 DEF SelectReturns
    <3>2. rfds' \subseteq rfds
      BY <3>1
    <3>3. rfds \subseteq Fds
      BY DEF TypeOK
    <3>4. 0 \in 0 .. Sockets
      OBVIOUS
    <3> QED
      BY <3>1, <3>2, <3>3, <3>4
  <2>3. TypeOK'
    BY <1>3, <2>2, <2>a DEF SelectReturns, TypeOK
  <2>4. NfdsCovers' /\ LoadsCovered'
    BY <1>3, <2>1 DEF SelectReturns, TypeOK, NfdsCovers, LoadsCovered, Adding, Removing
  <2>5. ListenersOpen'
    BY <1>3, <2>1 DEF SelectReturns, TypeOK, ListenersOpen, ConnectionsOnly, Accepting, Readable
  <2>6. ConnectionsOnly'
    BY <1>3, <2>1, <2>3 DEF SelectReturns, TypeOK, ListenersOpen, ConnectionsOnly, Connections, Working, Removing
  <2> QED
    BY <2>3, <2>4, <2>5, <2>6
<1>4. CASE Accept
  <2>1. pc' = pc \/ pc' = [pc EXCEPT ![Server] = "add"]
    BY <1>4 DEF Accept, Go
  <2>2. pc' \in [Actors -> Steps]
    BY <2>1 DEF TypeOK, Steps
  <2> DEFINE l == Least(rfds \cap Listeners)
             f == Least(Free)
  <2>a. l \in rfds \cap Listeners /\ backlog[l] > 0
    <3>1. l \in rfds \cap Listeners
      BY <1>4, LeastIsLowest DEF Accept
    <3> QED
      BY <1>4, <3>1 DEF Accept, ListenersOpen, Accepting
  <2>b. Free # {} => f \in Fds /\ peer[f] = "free"
    <3>1. Free \subseteq Fds
      BY DEF Free
    <3>2. Free # {} => f \in Free
      BY <3>1, LeastIsLowest
    <3> QED
      BY <3>2 DEF Free
  <2>c. Free # {} => f \notin Listeners
    BY <2>b DEF ListenersOpen
  <2>d. /\ rfds' = rfds \ {l}
        /\ backlog' = [backlog EXCEPT ![l] = @ - 1]
        /\ \/ peer' = peer /\ fd' = fd
           \/ Free # {} /\ peer' = [peer EXCEPT ![f] = "up"] /\ fd' = [fd EXCEPT ![Server] = f]
        /\ unread' \subseteq unread
    BY <1>4 DEF Accept
  <2> HIDE DEF l, f
  <2>e. /\ backlog' \in [Listeners -> 0 .. MaxConnects]
        /\ \A m \in Listeners : backlog'[m] <= backlog[m]
        /\ \A m \in Listeners \ {l} : backlog'[m] = backlog[m]
    BY <2>a, <2>d DEF TypeOK
  <2>g. /\ peer' \in [Fds -> {"free", "listen", "up", "closed", "reset"}]
        /\ fd' \in [Actors -> Fds]
        /\ \A m \in Listeners : peer'[m] = peer[m]
    BY <2>b, <2>c, <2>d DEF TypeOK, ListenersOpen
  <2>h. UNCHANGED <<table, input, bits, number, top, selected, i, count, bounds, meddled, owed>>
    BY <1>4 DEF Accept
  <2>3. TypeOK'
    BY <2>2, <2>d, <2>e, <2>g, <2>h DEF TypeOK
  <2>4. NfdsCovers' /\ LoadsCovered'
    BY <1>4, <2>1 DEF Accept, TypeOK, NfdsCovers, LoadsCovered, Adding, Removing
  <2>5. ListenersOpen'
    <3>1. \A m \in rfds' \cap Listeners : backlog'[m] > 0
      BY <1>4, <2>d, <2>e DEF Accept, ListenersOpen, Accepting, TypeOK
    <3>2. \A m \in Listeners : peer'[m] = "listen" /\ backlog'[m] <= connects'
      BY <2>e, <2>g, <2>h DEF ListenersOpen, TypeOK
    <3> QED
      BY <3>1, <3>2 DEF ListenersOpen
  <2>6. ConnectionsOnly'
    <3>1. pc[Server] = "accept" /\ (pc' = pc \/ Free # {})
      BY <1>4 DEF Accept
    <3>2. pc'[Server] \in {"accept", "add"} /\ pc'[Publisher] = pc[Publisher]
      BY <2>1, <3>1 DEF TypeOK
    <3>3. pc'[Server] \in Working => fd'[Server] \notin Listeners
      BY <1>4, <2>c, <3>1 DEF Accept, Go, TypeOK, Working, Removing, f
    <3>4. fd'[Publisher] = fd[Publisher]
      BY <2>d DEF TypeOK
    <3> QED
      BY <3>2, <3>3, <3>4 DEF ConnectionsOnly, Connections
  <2> QED
    BY <2>3, <2>4, <2>5, <2>6
<1>5. CASE Accepted
  <2>1. pc' = [pc EXCEPT ![Server] = "handle"]
    BY <1>5 DEF Accepted, Go
  <2>2. pc' \in [Actors -> Steps]
    BY <2>1 DEF TypeOK, Steps
  <2>3. TypeOK'
    BY <1>5, <2>2 DEF Accepted, TypeOK, LoadsCovered, NfdsCovers, Greater
  <2>4. NfdsCovers' /\ LoadsCovered'
    BY <1>5, <2>1 DEF Accepted, TypeOK, NfdsCovers, LoadsCovered, Adding, Removing
  <2>5. ListenersOpen'
    BY <1>5, <2>1 DEF Accepted, TypeOK, ListenersOpen, ConnectionsOnly, Accepting, Readable
  <2>6. ConnectionsOnly'
    BY <1>5, <2>1, <2>3 DEF Accepted, TypeOK, ListenersOpen, ConnectionsOnly, Connections, Working, Removing
  <2> QED
    BY <2>3, <2>4, <2>5, <2>6
<1>6. CASE AddLoad
  <2>1. pc' = [pc EXCEPT ![Server] = "set"]
    BY <1>6 DEF AddLoad, Go
  <2>2. pc' \in [Actors -> Steps]
    BY <2>1 DEF TypeOK, Steps
  <2>3. TypeOK'
    BY <1>6, <2>2 DEF AddLoad, TypeOK, LoadsCovered, NfdsCovers, Greater
  <2>4. NfdsCovers' /\ LoadsCovered'
    BY <1>6, <2>1 DEF AddLoad, TypeOK, NfdsCovers, LoadsCovered, Adding, Removing
  <2>5. ListenersOpen'
    BY <1>6, <2>1 DEF AddLoad, TypeOK, ListenersOpen, ConnectionsOnly, Accepting, Readable
  <2>6. ConnectionsOnly'
    BY <1>6, <2>1, <2>3 DEF AddLoad, TypeOK, ListenersOpen, ConnectionsOnly, Connections, Working, Removing
  <2> QED
    BY <2>3, <2>4, <2>5, <2>6
<1>7. CASE AddStore
  <2>1. pc' = [pc EXCEPT ![Server] = "cover"]
    BY <1>7 DEF AddStore, Go
  <2>2. pc' \in [Actors -> Steps]
    BY <2>1 DEF TypeOK, Steps
  <2>a. pc[Server] = "set" /\ fd[Server] \in Fds \ Listeners
    BY <1>7 DEF AddStore, ConnectionsOnly, Working, TypeOK
  <2>b. Adding = {} /\ Adding' = {fd[Server]}
    BY <1>7, <2>1, <2>a DEF AddStore, Adding, TypeOK
  <2>c. /\ wait_fds' = bits[Server] \cup {fd[Server]}
        /\ bits' = [bits EXCEPT ![Server] = {}]
        /\ nfds' = nfds /\ fd' = fd
    BY <1>7 DEF AddStore
  <2>d. wait_fds' \ Adding' \subseteq (0 .. nfds - 1) \ Listeners
    BY <2>b, <2>c DEF LoadsCovered
  <2>e. wait_fds' \subseteq Fds \ Listeners /\ bits' \in [Actors -> SUBSET Fds]
    BY <2>a, <2>b, <2>c, <2>d DEF TypeOK
  <2>g. owed' \subseteq Fds
    BY <1>7 DEF AddStore, TypeOK
  <2>3. TypeOK'
    BY <1>7, <2>2, <2>e, <2>g DEF AddStore, TypeOK
  <2>4. NfdsCovers' /\ LoadsCovered'
    <3>1. NfdsCovers'
      BY <2>c, <2>d DEF NfdsCovers
    <3>2. \A a \in Actors : bits'[a] \subseteq ((0 .. nfds' - 1) \cup Adding') \ Listeners
      BY <2>b, <2>c DEF LoadsCovered, TypeOK
    <3>3. \A a \in Actors : pc'[a] = "clear" => fd'[a] < nfds'
      BY <2>1, <2>c DEF LoadsCovered, TypeOK
    <3>4. pc'[Publisher] \in {"write"} \cup Removing => fd'[Publisher] < nfds'
      BY <2>1, <2>c DEF LoadsCovered, TypeOK
    <3> QED
      BY <3>1, <3>2, <3>3, <3>4 DEF LoadsCovered
  <2>5. ListenersOpen'
    BY <1>7, <2>1 DEF AddStore, TypeOK, ListenersOpen, ConnectionsOnly, Accepting, Readable
  <2>6. ConnectionsOnly'
    BY <1>7, <2>1, <2>3 DEF AddStore, TypeOK, ListenersOpen, ConnectionsOnly, Connections, Working, Removing
  <2> QED
    BY <2>3, <2>4, <2>5, <2>6
<1>8. CASE AddCover
  <2>1. pc' = [pc EXCEPT ![Server] = "inc"]
    BY <1>8 DEF AddCover, Go
  <2>2. pc' \in [Actors -> Steps]
    BY <2>1 DEF TypeOK, Steps
  <2>a. fd[Server] \in Fds \ Listeners /\ Adding = {fd[Server]} /\ Adding' = {}
    BY <1>8, <2>1 DEF AddCover, ConnectionsOnly, Working, Adding, TypeOK
  <2>b. /\ nfds' \in 0 .. Sockets /\ nfds' >= nfds /\ fd[Server] < nfds'
    BY <1>8, <2>a DEF AddCover, Greater, TypeOK
  <2>c. wait_fds' = wait_fds /\ bits' = bits /\ fd' = fd
    BY <1>8 DEF AddCover
  <2>d. (0 .. nfds - 1) \cup Adding \subseteq 0 .. nfds' - 1
    <3>1. nfds \in Int /\ nfds' \in Int /\ nfds <= nfds'
      BY <2>b DEF TypeOK
    <3>2. 0 .. nfds - 1 \subseteq 0 .. nfds' - 1
      BY <3>1, IntervalGrows
    <3>3. fd[Server] \in 0 .. nfds' - 1
      BY <2>a, <2>b
    <3> QED
      BY <2>a, <3>2, <3>3
  <2>3. TypeOK'
    BY <1>8, <2>2, <2>b DEF AddCover, TypeOK
  <2>4. NfdsCovers' /\ LoadsCovered'
    <3>1. NfdsCovers'
      BY <2>a, <2>c, <2>d DEF NfdsCovers
    <3>2. \A a \in Actors : bits'[a] \subseteq ((0 .. nfds' - 1) \cup Adding') \ Listeners
      BY <2>c, <2>d DEF LoadsCovered, TypeOK
    <3>3. \A a \in Actors : pc'[a] = "clear" => fd'[a] < nfds'
      BY <2>1, <2>b, <2>c DEF LoadsCovered, TypeOK
    <3>4. pc'[Publisher] \in {"write"} \cup Removing => fd'[Publisher] < nfds'
      BY <2>1, <2>b, <2>c DEF LoadsCovered, TypeOK
    <3> QED
      BY <3>1, <3>2, <3>3, <3>4 DEF LoadsCovered
  <2>5. ListenersOpen'
    BY <1>8, <2>1 DEF AddCover, TypeOK, ListenersOpen, ConnectionsOnly, Accepting, Readable
  <2>6. ConnectionsOnly'
    BY <1>8, <2>1, <2>3 DEF AddCover, TypeOK, ListenersOpen, ConnectionsOnly, Connections, Working, Removing
  <2> QED
    BY <2>3, <2>4, <2>5, <2>6
<1>9. CASE Increment
  <2>1. PICK step \in {"subscribe", "accept"} : pc' = [pc EXCEPT ![Server] = step]
    BY <1>9 DEF Increment, Go
  <2>2. pc' \in [Actors -> Steps]
    BY <2>1 DEF TypeOK, Steps
  <2>3. TypeOK'
    BY <1>9, <2>2 DEF Increment, TypeOK, LoadsCovered, NfdsCovers, Greater
  <2>4. NfdsCovers' /\ LoadsCovered'
    BY <1>9, <2>1 DEF Increment, TypeOK, NfdsCovers, LoadsCovered, Adding, Removing
  <2>5. ListenersOpen'
    BY <1>9, <2>1 DEF Increment, TypeOK, ListenersOpen, ConnectionsOnly, Accepting, Readable
  <2>6. ConnectionsOnly'
    BY <1>9, <2>1, <2>3 DEF Increment, TypeOK, ListenersOpen, ConnectionsOnly, Connections, Working, Removing
  <2> QED
    BY <2>3, <2>4, <2>5, <2>6
<1>10. CASE Subscribe
  <2>1. pc' = [pc EXCEPT ![Server] = "accept"]
    BY <1>10 DEF Subscribe, Go
  <2>2. pc' \in [Actors -> Steps]
    BY <2>1 DEF TypeOK, Steps
  <2>3. TypeOK'
    BY <1>10, <2>2 DEF Subscribe, TypeOK, LoadsCovered, NfdsCovers, Greater
  <2>4. NfdsCovers' /\ LoadsCovered'
    BY <1>10, <2>1 DEF Subscribe, TypeOK, NfdsCovers, LoadsCovered, Adding, Removing
  <2>5. ListenersOpen'
    BY <1>10, <2>1 DEF Subscribe, TypeOK, ListenersOpen, ConnectionsOnly, Accepting, Readable
  <2>6. ConnectionsOnly'
    BY <1>10, <2>1, <2>3 DEF Subscribe, TypeOK, ListenersOpen, ConnectionsOnly, Connections, Working, Removing
  <2> QED
    BY <2>3, <2>4, <2>5, <2>6
<1>11. CASE Handle
  <2>1. pc' = [pc EXCEPT ![Server] = "getc"]
    BY <1>11 DEF Handle, Go
  <2>2. pc' \in [Actors -> Steps]
    BY <2>1 DEF TypeOK, Steps
  <2>a. Least(rfds) \in rfds
    BY <1>11, LeastIsLowest DEF Handle, TypeOK
  <2>b. rfds' \subseteq rfds /\ fd' = [fd EXCEPT ![Server] = Least(rfds)]
    BY <1>11 DEF Handle
  <2>c. selected' \in BOOLEAN
    BY <1>11, Zenon DEF Handle
  <2>3. TypeOK'
    BY <1>11, <2>2, <2>a, <2>b, <2>c DEF Handle, TypeOK
  <2>4. NfdsCovers' /\ LoadsCovered'
    BY <1>11, <2>1 DEF Handle, TypeOK, NfdsCovers, LoadsCovered, Adding, Removing
  <2>5. ListenersOpen'
    BY <1>11, <2>1 DEF Handle, TypeOK, ListenersOpen, ConnectionsOnly, Accepting, Readable
  <2>6. ConnectionsOnly'
    <3>1. rfds \cap Listeners = {}
      BY <1>11 DEF Handle, ConnectionsOnly, Connections
    <3> QED
      BY <2>1, <2>a, <2>b, <3>1 DEF TypeOK, ConnectionsOnly, Working, Removing
  <2> QED
    BY <2>3, <2>4, <2>5, <2>6
<1>12. CASE Handled
  <2>1. pc' = [pc EXCEPT ![Server] = "select"]
    BY <1>12 DEF Handled, Go
  <2>2. pc' \in [Actors -> Steps]
    BY <2>1 DEF TypeOK, Steps
  <2>3. TypeOK'
    BY <1>12, <2>2 DEF Handled, TypeOK, LoadsCovered, NfdsCovers, Greater
  <2>4. NfdsCovers' /\ LoadsCovered'
    BY <1>12, <2>1 DEF Handled, TypeOK, NfdsCovers, LoadsCovered, Adding, Removing
  <2>5. ListenersOpen'
    BY <1>12, <2>1 DEF Handled, TypeOK, ListenersOpen, ConnectionsOnly, Accepting, Readable
  <2>6. ConnectionsOnly'
    BY <1>12, <2>1, <2>3 DEF Handled, TypeOK, ListenersOpen, ConnectionsOnly, Connections, Working, Removing
  <2> QED
    BY <2>3, <2>4, <2>5, <2>6
<1>13. CASE GetcEnd
  <2>1. PICK step \in {"close", "handle"} : pc' = [pc EXCEPT ![Server] = step]
    BY <1>13 DEF GetcEnd, Go
  <2>2. pc' \in [Actors -> Steps]
    BY <2>1 DEF TypeOK, Steps
  <2>3. TypeOK'
    BY <1>13, <2>2 DEF GetcEnd, TypeOK, LoadsCovered, NfdsCovers, Greater
  <2>4. NfdsCovers' /\ LoadsCovered'
    BY <1>13, <2>1 DEF GetcEnd, TypeOK, NfdsCovers, LoadsCovered, Adding, Removing
  <2>5. ListenersOpen'
    BY <1>13, <2>1 DEF GetcEnd, TypeOK, ListenersOpen, ConnectionsOnly, Accepting, Readable
  <2>6. ConnectionsOnly'
    BY <1>13, <2>1, <2>3 DEF GetcEnd, TypeOK, ListenersOpen, ConnectionsOnly, Connections, Working, Removing
  <2> QED
    BY <2>3, <2>4, <2>5, <2>6
<1>14. CASE GetcFails
  <2>1. pc' = [pc EXCEPT ![Server] = "rm"]
    BY <1>14 DEF GetcFails, Go
  <2>2. pc' \in [Actors -> Steps]
    BY <2>1 DEF TypeOK, Steps
  <2>3. TypeOK'
    BY <1>14, <2>2 DEF GetcFails, TypeOK, LoadsCovered, NfdsCovers, Greater
  <2>4. NfdsCovers' /\ LoadsCovered'
    BY <1>14, <2>1 DEF GetcFails, TypeOK, NfdsCovers, LoadsCovered, Adding, Removing
  <2>5. ListenersOpen'
    BY <1>14, <2>1 DEF GetcFails, TypeOK, ListenersOpen, ConnectionsOnly, Accepting, Readable
  <2>6. ConnectionsOnly'
    BY <1>14, <2>1, <2>3 DEF GetcFails, TypeOK, ListenersOpen, ConnectionsOnly, Connections, Working, Removing
  <2> QED
    BY <2>3, <2>4, <2>5, <2>6
<1>15. CASE GetcReads
  <2>1. PICK step \in {"handle", "getc"} : pc' = [pc EXCEPT ![Server] = step]
    BY <1>15 DEF GetcReads, Go
  <2>2. pc' \in [Actors -> Steps]
    BY <2>1 DEF TypeOK, Steps
  <2>3. TypeOK'
    BY <1>15, <2>2 DEF GetcReads, TypeOK, LoadsCovered, NfdsCovers, Greater
  <2>4. NfdsCovers' /\ LoadsCovered'
    BY <1>15, <2>1 DEF GetcReads, TypeOK, NfdsCovers, LoadsCovered, Adding, Removing
  <2>5. ListenersOpen'
    BY <1>15, <2>1 DEF GetcReads, TypeOK, ListenersOpen, ConnectionsOnly, Accepting, Readable
  <2>6. ConnectionsOnly'
    BY <1>15, <2>1, <2>3 DEF GetcReads, TypeOK, ListenersOpen, ConnectionsOnly, Connections, Working, Removing
  <2> QED
    BY <2>3, <2>4, <2>5, <2>6
<1>16. CASE LoadCount(Server) \/ Remove(Server)
  BY <1>16, RemoveKeepsInv
<1> QED
  BY <1>1, <1>2, <1>3, <1>4, <1>5, <1>6, <1>7, <1>9, <1>10, <1>11, <1>12, <1>13, <1>14, <1>15, <1>16, <1>8 DEF ServerStep

\* The steps of a task that publishes.
LEMMA PublisherKeepsInv ==
  ASSUME Inv, PublisherStep
  PROVE  Inv'
<1> USE ConstantsOK DEF Inv, table, net, loads, locals, bounds, history, Fds, Actors
<1>1. CASE Publish
  <2>1. pc' = [pc EXCEPT ![Publisher] = "called"]
    BY <1>1 DEF Publish, Go
  <2>2. pc' \in [Actors -> Steps]
    BY <2>1 DEF TypeOK, Steps
  <2>3. TypeOK'
    BY <1>1, <2>2 DEF Publish, TypeOK, LoadsCovered, NfdsCovers, Greater
  <2>4. NfdsCovers' /\ LoadsCovered'
    BY <1>1, <2>1 DEF Publish, TypeOK, NfdsCovers, LoadsCovered, Adding, Removing
  <2>5. ListenersOpen'
    BY <1>1, <2>1 DEF Publish, TypeOK, ListenersOpen, ConnectionsOnly, Accepting, Readable
  <2>6. ConnectionsOnly'
    BY <1>1, <2>1, <2>3 DEF Publish, TypeOK, ListenersOpen, ConnectionsOnly, Connections, Working, Removing
  <2> QED
    BY <2>3, <2>4, <2>5, <2>6
<1>2. CASE WriteAll
  <2>1. pc' = [pc EXCEPT ![Publisher] = "next"]
    BY <1>2 DEF WriteAll, Go
  <2>2. pc' \in [Actors -> Steps]
    BY <2>1 DEF TypeOK, Steps
  <2>3. TypeOK'
    BY <1>2, <2>2 DEF WriteAll, TypeOK, LoadsCovered, NfdsCovers, Greater
  <2>4. NfdsCovers' /\ LoadsCovered'
    BY <1>2, <2>1 DEF WriteAll, TypeOK, NfdsCovers, LoadsCovered, Adding, Removing
  <2>5. ListenersOpen'
    BY <1>2, <2>1 DEF WriteAll, TypeOK, ListenersOpen, ConnectionsOnly, Accepting, Readable
  <2>6. ConnectionsOnly'
    BY <1>2, <2>1, <2>3 DEF WriteAll, TypeOK, ListenersOpen, ConnectionsOnly, Connections, Working, Removing
  <2> QED
    BY <2>3, <2>4, <2>5, <2>6
<1>3. CASE Visit
  <2>1. pc' = pc \/ pc' = [pc EXCEPT ![Publisher] = "write"]
    BY <1>3 DEF Visit, Go
  <2>2. pc' \in [Actors -> Steps]
    BY <2>1 DEF TypeOK, Steps
  <2>a. i \in wait_fds => i \in Fds
    BY DEF TypeOK
  <2>b. /\ i' \in 0 .. Sockets /\ count' \in 0 .. Sockets
    BY <1>3 DEF Visit, TypeOK
  <2>c. fd' \in [Actors -> Fds] /\ owed' \subseteq Fds
    BY <1>3, <2>a DEF Visit, TypeOK
  <2>3. TypeOK'
    BY <1>3, <2>2, <2>b, <2>c DEF Visit, TypeOK
  <2>4. NfdsCovers' /\ LoadsCovered'
    BY <1>3, <2>1 DEF Visit, TypeOK, NfdsCovers, LoadsCovered, Adding, Removing
  <2>5. ListenersOpen'
    BY <1>3, <2>1 DEF Visit, TypeOK, ListenersOpen, ConnectionsOnly, Accepting, Readable
  <2>6. ConnectionsOnly'
    BY <1>3, <2>1, <2>3 DEF Visit, TypeOK, ListenersOpen, ConnectionsOnly, Connections, Working, Removing
  <2> QED
    BY <2>3, <2>4, <2>5, <2>6
<1>4. CASE AllWritten
  <2>1. PICK step \in {"idle", "called"} : pc' = [pc EXCEPT ![Publisher] = step]
    BY <1>4 DEF AllWritten, Go
  <2>2. pc' \in [Actors -> Steps]
    BY <2>1 DEF TypeOK, Steps
  <2>3. TypeOK'
    BY <1>4, <2>2 DEF AllWritten, TypeOK, LoadsCovered, NfdsCovers, Greater
  <2>4. NfdsCovers' /\ LoadsCovered'
    BY <1>4, <2>1 DEF AllWritten, TypeOK, NfdsCovers, LoadsCovered, Adding, Removing
  <2>5. ListenersOpen'
    BY <1>4, <2>1 DEF AllWritten, TypeOK, ListenersOpen, ConnectionsOnly, Accepting, Readable
  <2>6. ConnectionsOnly'
    BY <1>4, <2>1, <2>3 DEF AllWritten, TypeOK, ListenersOpen, ConnectionsOnly, Connections, Working, Removing
  <2> QED
    BY <2>3, <2>4, <2>5, <2>6
<1>5. CASE Write
  <2>1. PICK step \in {"close", "next"} : pc' = [pc EXCEPT ![Publisher] = step]
    BY <1>5 DEF Write, Go
  <2>2. pc' \in [Actors -> Steps]
    BY <2>1 DEF TypeOK, Steps
  <2>3. TypeOK'
    BY <1>5, <2>2 DEF Write, TypeOK, LoadsCovered, NfdsCovers, Greater
  <2>4. NfdsCovers' /\ LoadsCovered'
    BY <1>5, <2>1 DEF Write, TypeOK, NfdsCovers, LoadsCovered, Adding, Removing
  <2>5. ListenersOpen'
    BY <1>5, <2>1 DEF Write, TypeOK, ListenersOpen, ConnectionsOnly, Accepting, Readable
  <2>6. ConnectionsOnly'
    BY <1>5, <2>1, <2>3 DEF Write, TypeOK, ListenersOpen, ConnectionsOnly, Connections, Working, Removing
  <2> QED
    BY <2>3, <2>4, <2>5, <2>6
<1>6. CASE LoadCount(Publisher) \/ Remove(Publisher)
  BY <1>6, RemoveKeepsInv
<1> QED
  BY <1>1, <1>2, <1>3, <1>4, <1>5, <1>6 DEF PublisherStep

--------------------------------------------------------------------------------
(* What follows for every behaviour *)

\* Every step keeps the inductive invariant.
LEMMA NextInv == Inv /\ [Next]_vars => Inv'
<1> SUFFICES ASSUME Inv, [Next]_vars PROVE Inv'
  OBVIOUS
<1>1. CASE ServerStep
  BY <1>1, ServerKeepsInv
<1>2. CASE PublisherStep
  BY <1>2, PublisherKeepsInv
<1>3. CASE Clients
  BY <1>3, ClientsKeepInv
<1>4. CASE UNCHANGED vars
  BY <1>4 DEF vars, table, net, loads, locals, bounds, history, Inv, TypeOK, NfdsCovers,
     ListenersOpen, ConnectionsOnly, LoadsCovered, Adding
<1> QED
  BY <1>1, <1>2, <1>3, <1>4 DEF Next

\* The inductive invariant holds in all behaviours.
THEOREM InvCorrect == Spec => []Inv
BY InitInv, NextInv, PTL DEF Spec

\* Every variable keeps its type, whichever loads and stores of the two actors
\* overlap in add_fd and rm_fd.
THEOREM TypeCorrect == Spec => []TypeOK
BY InvCorrect, PTL DEF Inv

\* The bound nfds that select and foreach_fd are given covers every connection in
\* wait_fds, but the one that add_fd has just put there, and the listening sockets.
THEOREM SelectSeesAll == Spec => []NfdsCovers
BY InvCorrect, PTL DEF Inv

\* The server's task closes or gives up a connection only when its client is gone,
\* although descriptors are closed by a publisher and used again behind its back.
THEOREM LivingAreSpared == Spec => []ServerSparesTheLiving
<1>1. Init => ServerSparesTheLiving
  BY ConstantsOK DEF Init, Actors, ServerSparesTheLiving
<1>2. Inv /\ ServerSparesTheLiving /\ [Next]_vars => ServerSparesTheLiving'
  <2> SUFFICES ASSUME Inv, ServerSparesTheLiving, [Next]_vars
               PROVE  ServerSparesTheLiving'
    OBVIOUS
  <2> USE ConstantsOK DEF table, net, loads, locals, bounds, history, Actors, Go, Back
  <2>1. TypeOK
    BY DEF Inv
  \* Removing, by either actor: a connection that is closed is free afterwards.
  <2>2. ASSUME NEW a \in Actors, Remove(a) \/ LoadCount(a)
        PROVE  ServerSparesTheLiving'
    <3>1. \A f \in Fds : peer'[f] = "up" => peer[f] = "up"
      BY <2>1, <2>2 DEF Remove, LoadCount, Close, LoadBits, Clear, Decrement, SetZero,
         Unsubscribe, TypeOK
    <3>2. fd' = fd
      BY <2>2 DEF Remove, LoadCount, Close, LoadBits, Clear, Decrement, SetZero, Unsubscribe
    <3>3. \/ pc'[Server] \notin {"close", "rm", "clear"}
          \/ pc[Server] \in {"close", "rm", "clear"}
      BY <2>1, <2>2 DEF Remove, LoadCount, Close, LoadBits, Clear, Decrement, SetZero,
         Unsubscribe, TypeOK
    <3> QED
      BY <2>1, <3>1, <3>2, <3>3 DEF ServerSparesTheLiving, TypeOK
  \* Reading: what makes the server give a connection up.
  <2>3. CASE GetcEnd
    BY <2>1, <2>3 DEF GetcEnd, Ended, Empty, ServerSparesTheLiving, TypeOK
  <2>4. CASE GetcFails
    BY <2>1, <2>4 DEF GetcFails, Failed, ServerSparesTheLiving, TypeOK
  <2>5. CASE Clients
    BY <2>1, <2>5 DEF Clients, Connect, Send, Leave, ServerSparesTheLiving, TypeOK
  \* The others leave the server's task at a step where it gives nothing up, or are
  \* steps of the publisher that leave the sockets and the server's task alone.
  <2>6. ASSUME \/ Select \/ SelectFails \/ SelectReturns \/ Accept \/ Accepted \/ AddLoad
               \/ AddStore \/ AddCover \/ Increment \/ Subscribe \/ Handle \/ Handled
               \/ GetcReads
        PROVE  ServerSparesTheLiving'
    <3>1. pc'[Server] \notin {"close", "rm", "clear"}
      BY <2>1, <2>6 DEF Select, SelectFails, SelectReturns, Accept, Accepted, AddLoad, AddStore,
         AddCover, Increment, Subscribe, Handle, Handled, GetcReads, TypeOK
    <3> QED
      BY <3>1 DEF ServerSparesTheLiving
  <2>7. ASSUME Publish \/ WriteAll \/ Visit \/ AllWritten \/ Write
        PROVE  ServerSparesTheLiving'
    <3>1. pc'[Server] = pc[Server] /\ fd'[Server] = fd[Server] /\ peer' = peer
      BY <2>1, <2>7 DEF Publish, WriteAll, Visit, AllWritten, Write, TypeOK
    <3> QED
      BY <3>1 DEF ServerSparesTheLiving
  <2>8. CASE UNCHANGED vars
    BY <2>8 DEF vars, ServerSparesTheLiving
  <2> QED
    BY <2>2, <2>3, <2>4, <2>5, <2>6, <2>7, <2>8 DEF Next, ServerStep, PublisherStep
<1> QED
  BY <1>1, <1>2, InvCorrect, PTL DEF Spec

--------------------------------------------------------------------------------
(* A round of writing reaches everybody *)

\* The connections still to be reached are in the set, below nfds, ahead of the loop's
\* index, and within its count; between two rounds there are none.
RoundInv ==
  /\ owed \subseteq wait_fds
  /\ \A f \in owed : i <= f /\ f < i + count /\ f < nfds
  /\ NoClientMissed

\* Steps that change nothing of the round but take connections out of the set.
LEMMA RoundKept ==
  ASSUME Inv, RoundInv, i' = i, count' = count, owed' \subseteq owed, owed' \subseteq wait_fds',
         nfds' \in Int, nfds' >= nfds,
         pc'[Publisher] \in {"idle", "called"} => pc[Publisher] \in {"idle", "called"}
  PROVE  RoundInv'
<1>1. \A f \in owed' : f < nfds'
  BY ConstantsOK DEF Inv, TypeOK, RoundInv, Fds
<1> QED
  BY <1>1 DEF RoundInv, NoClientMissed

\* A connection that is waited for during a whole round of writing is written to,
\* however the set changes behind and in front of the index, unless it is just being
\* added when the round begins.
THEOREM NobodyIsLeftOut == Spec => []NoClientMissed
<1>1. Init => RoundInv
  BY DEF Init, RoundInv, NoClientMissed
<1>2. Inv /\ RoundInv /\ [Next]_vars => RoundInv'
  <2> SUFFICES ASSUME Inv, RoundInv, [Next]_vars
               PROVE  RoundInv'
    OBVIOUS
  <2> USE ConstantsOK DEF table, net, loads, locals, bounds, history, Actors, Go, Back
  <2>1. TypeOK
    BY DEF Inv
  <2>2. ASSUME NEW a \in Actors, Remove(a) \/ LoadCount(a)
        PROVE  RoundInv'
    <3>1. i' = i /\ count' = count
      BY <2>2 DEF Remove, LoadCount, Close, LoadBits, Clear, Decrement, SetZero, Unsubscribe
    <3>2. owed' \subseteq owed /\ owed' \subseteq wait_fds'
      BY <2>2 DEF Remove, LoadCount, Close, LoadBits, Clear, Decrement, SetZero, Unsubscribe,
         RoundInv
    <3>3. pc'[Publisher] \in {"idle", "called"} => pc[Publisher] \in {"idle", "called"}
      BY <2>1, <2>2 DEF Remove, LoadCount, Close, LoadBits, Clear, Decrement, SetZero,
         Unsubscribe, TypeOK
    <3>4. nfds' \in Int /\ nfds' >= nfds
      <4>1. CASE Clear(a)
        <5>1. fd[a] \in Int /\ nfds \in Int /\ fd[a] < nfds
          BY <2>1, <4>1 DEF Clear, Inv, LoadsCovered, TypeOK, Fds
        <5> QED
          BY <4>1, <5>1 DEF Clear
      <4>2. CASE ~Clear(a)
        BY <2>1, <2>2, <4>2 DEF Remove, LoadCount, Close, LoadBits, Decrement, SetZero,
           Unsubscribe, TypeOK
      <4> QED
        BY <4>1, <4>2
    <3> QED
      BY <3>1, <3>2, <3>3, <3>4, RoundKept
  <2>3. ASSUME \/ Clients
               \/ Select \/ SelectFails \/ SelectReturns \/ Accept \/ Accepted \/ AddLoad
               \/ AddStore \/ AddCover \/ Increment \/ Subscribe \/ Handle \/ Handled
               \/ GetcEnd \/ GetcFails \/ GetcReads
        PROVE  RoundInv'
    <3>1. i' = i /\ count' = count
      BY <2>3 DEF Clients, Connect, Send, Leave, Select, SelectFails, SelectReturns, Accept,
         Accepted, AddLoad, AddStore, AddCover, Increment, Subscribe, Handle, Handled, GetcEnd,
         GetcFails, GetcReads
    <3>2. owed' \subseteq owed /\ owed' \subseteq wait_fds'
      BY <2>3 DEF Clients, Connect, Send, Leave, Select, SelectFails, SelectReturns, Accept,
         Accepted, AddLoad, AddStore, AddCover, Increment, Subscribe, Handle, Handled, GetcEnd,
         GetcFails, GetcReads, RoundInv
    <3>3. pc'[Publisher] = pc[Publisher]
      BY <2>1, <2>3 DEF Clients, Connect, Send, Leave, Select, SelectFails, SelectReturns, Accept,
         Accepted, AddLoad, AddStore, AddCover, Increment, Subscribe, Handle, Handled, GetcEnd,
         GetcFails, GetcReads, TypeOK
    <3>4. nfds' \in Int /\ nfds' >= nfds
      BY <2>1, <2>3 DEF Clients, Connect, Send, Leave, Select, SelectFails, SelectReturns, Accept,
         Accepted, AddLoad, AddStore, AddCover, Greater, Increment, Subscribe, Handle, Handled,
         GetcEnd, GetcFails, GetcReads, TypeOK, Fds
    <3> QED
      BY <3>1, <3>2, <3>3, <3>4, RoundKept
  <2>4. CASE Publish
    <3>1. pc[Publisher] = "idle"
      BY <2>4 DEF Publish
    <3> QED
      BY <2>1, <2>4, <3>1, RoundKept DEF Publish, RoundInv, TypeOK
  \* The round begins: everybody is below nfds, which is the count.
  <2>5. CASE WriteAll
    <3>1. /\ owed' = wait_fds \ Adding /\ wait_fds' = wait_fds
          /\ i' = 0 /\ count' = nfds /\ nfds' = nfds
      BY <2>5 DEF WriteAll
    <3>2. \A f \in wait_fds \ Adding : 0 <= f /\ f < 0 + nfds /\ f < nfds
      BY <2>1 DEF Inv, NfdsCovers, TypeOK
    <3>3. pc'[Publisher] = "next"
      BY <2>1, <2>5 DEF WriteAll, TypeOK
    <3> QED
      BY <3>1, <3>2, <3>3 DEF RoundInv, NoClientMissed
  \* One round of the loop: only the connection at the index is behind it now.
  <2>6. CASE Visit
    <3>1. wait_fds' = wait_fds /\ i' = i + 1 /\ nfds' = nfds
      BY <2>6 DEF Visit
    <3>2. pc'[Publisher] \notin {"idle", "called"}
      BY <2>1, <2>6 DEF Visit, TypeOK
    <3>3. /\ owed' \subseteq owed \ {i}
          /\ count' = count - 1 \/ count' = count
      BY <2>6 DEF Visit, RoundInv
    <3>4. \A f \in owed' : i + 1 <= f /\ f < i + 1 + count' /\ f < nfds
      BY <2>1, <3>3 DEF RoundInv, TypeOK, Fds
    <3> QED
      BY <3>1, <3>2, <3>3, <3>4 DEF RoundInv, NoClientMissed
  \* The loop ends: nobody can be left within the count, or below nfds.
  <2>7. CASE AllWritten
    <3>1. count = 0 \/ i >= nfds
      BY <2>7 DEF AllWritten
    <3>2. \A f \in owed : f < nfds /\ i <= f /\ f < i + count
      BY <2>1 DEF TypeOK, RoundInv
    <3>3. owed = {}
      BY <2>1, <3>1, <3>2 DEF TypeOK, Fds
    <3> QED
      BY <2>7, <3>3 DEF AllWritten, RoundInv, NoClientMissed
  <2>8. CASE Write
    <3>1. pc'[Publisher] \notin {"idle", "called"}
      BY <2>1, <2>8 DEF Write, TypeOK
    <3> QED
      BY <2>1, <2>8, <3>1, RoundKept DEF Write, RoundInv, TypeOK
  <2>9. CASE UNCHANGED vars
    BY <2>9 DEF vars, RoundInv, NoClientMissed
  <2> QED
    BY <2>2, <2>3, <2>4, <2>5, <2>6, <2>7, <2>8, <2>9 DEF Next, ServerStep, PublisherStep
<1> QED
  BY <1>1, <1>2, InvCorrect, PTL DEF Spec, RoundInv

--------------------------------------------------------------------------------
(* The fields agree as long as no publisher closes a connection *)

\* The sockets of the connections that have not been given up.
Connected == {g \in Fds \ Listeners : peer[g] # "free"} \ unread

\* At every step of the server's task: what it has still to look at is waited for, what
\* is waited for is connected but for the connection that is being added or removed,
\* and what it has loaded is not stale.
SetsAgree ==
  LET s == pc[Server]
      f == fd[Server]
  IN
  /\ s # "select" => rfds \subseteq wait_fds \cup Listeners
  /\ s \in {"getc", "close", "rm", "clear"} => f \in wait_fds /\ f \notin rfds
  /\ s \in {"add", "set"} => f \notin wait_fds /\ Connected = wait_fds \cup {f}
  /\ s \in {"rm", "clear"} => f \notin Connected /\ wait_fds = Connected \cup {f}
  /\ s \notin {"add", "set", "rm", "clear"} => wait_fds = Connected
  /\ s \in {"set", "clear"} => bits[Server] = wait_fds
  /\ s \in {"cover", "inc", "incStore"} => f \in wait_fds

\* At every step, how far the count and the subscription are behind the set.
CountAgrees ==
  LET s == pc[Server]
      f == fd[Server]
  IN
  /\ s \in {"cover", "inc", "incStore"} =>
       cconn_count = Cardinality(wait_fds) - 1 /\ (subscribed <=> wait_fds # {f})
  /\ s \in {"dec", "decStore"} => cconn_count = Cardinality(wait_fds) + 1 /\ subscribed
  /\ s \notin {"cover", "inc", "incStore", "dec", "decStore"} => cconn_count = Cardinality(wait_fds)
  /\ s \in {"incStore", "decStore"} => number[Server] = cconn_count
  /\ s = "subscribe" => wait_fds # {}
  /\ s \in {"zero", "unsubscribe"} => wait_fds = {}
  /\ s \notin {"cover", "inc", "incStore", "subscribe", "dec", "decStore", "zero", "unsubscribe"} =>
       (subscribed <=> wait_fds # {})

\* A publisher that has closed no connection has changed no field.
AgreeInv ==
  ~meddled => /\ pc[Publisher] \in {"idle", "called", "next", "write", "close"}
              /\ SetsAgree
              /\ CountAgrees

\* A set of descriptors with and without one of them.
LEMMA Counting ==
  ASSUME NEW S \in SUBSET Fds, NEW f \in Fds
  PROVE  /\ Cardinality(S) \in Nat
         /\ Cardinality(S) = 0 <=> S = {}
         /\ f \notin S => Cardinality(S \cup {f}) = Cardinality(S) + 1
         /\ f \in S => Cardinality(S \ {f}) = Cardinality(S) - 1
<1>1. IsFiniteSet(Fds)
  BY ConstantsOK, FS_Interval DEF Fds
<1>2. IsFiniteSet(S)
  BY <1>1, FS_Subset
<1>3. Cardinality(S) \in Nat /\ (Cardinality(S) = 0 <=> S = {})
  BY <1>2, FS_CardinalityType, FS_EmptySet
<1>4. f \notin S => Cardinality(S \cup {f}) = Cardinality(S) + 1
  BY <1>2, FS_AddElement
<1>5. f \in S => Cardinality(S \ {f}) = Cardinality(S) - 1
  BY <1>2, FS_RemoveElement
<1> QED
  BY <1>3, <1>4, <1>5


\* The steps of the server's task.
LEMMA ServerKeepsAgree ==
  ASSUME Inv, AgreeInv, ~meddled, ServerStep
  PROVE  SetsAgree' /\ CountAgrees'
<1> USE ConstantsOK DEF table, net, loads, locals, bounds, history, Actors, Go, Back
<1>1. TypeOK
  BY DEF Inv
<1>2. SetsAgree /\ CountAgrees
  BY DEF AgreeInv
<1>3. wait_fds \in SUBSET Fds /\ fd[Server] \in Fds
  BY <1>1 DEF TypeOK
<1>4. /\ Cardinality(wait_fds) \in Nat
      /\ Cardinality(wait_fds) = 0 <=> wait_fds = {}
      /\ fd[Server] \notin wait_fds =>
           Cardinality(wait_fds \cup {fd[Server]}) = Cardinality(wait_fds) + 1
      /\ fd[Server] \in wait_fds =>
           Cardinality(wait_fds \ {fd[Server]}) = Cardinality(wait_fds) - 1
  BY <1>3, Counting
<1>5. CASE Select
  <2>1. SetsAgree'
    BY <1>1, <1>2, <1>5 DEF Select, SetsAgree, Connected, TypeOK
  <2>2. CountAgrees'
    BY <1>1, <1>2, <1>4, <1>5 DEF Select, SetsAgree, CountAgrees, TypeOK
  <2> QED
    BY <2>1, <2>2
<1>6. CASE SelectFails
  <2>1. SetsAgree'
    BY <1>1, <1>2, <1>6 DEF SelectFails, SetsAgree, Connected, TypeOK
  <2>2. CountAgrees'
    BY <1>1, <1>2, <1>4, <1>6 DEF SelectFails, SetsAgree, CountAgrees, TypeOK
  <2> QED
    BY <2>1, <2>2
<1>7. CASE SelectReturns
  <2>1. SetsAgree'
    BY <1>1, <1>2, <1>7 DEF SelectReturns, Readable, SetsAgree, Connected, TypeOK
  <2>2. CountAgrees'
    BY <1>1, <1>2, <1>4, <1>7 DEF SelectReturns, Readable, SetsAgree, CountAgrees, TypeOK
  <2> QED
    BY <2>1, <2>2
<1>8. CASE Accept
  <2> DEFINE l == Least(rfds \cap Listeners)
             f == Least(Free)
  <2>a. Free # {} => f \in Fds /\ peer[f] = "free"
    <3>1. Free \in SUBSET Fds
      BY DEF Free
    <3> QED
      BY <3>1, LeastIsLowest DEF Free
  <2>b. Free # {} => f \notin Listeners
    BY <2>a DEF Inv, ListenersOpen
  <2>c. /\ pc[Server] = "accept" /\ rfds' = rfds \ {l}
        /\ \/ UNCHANGED <<peer, fd, pc, unread>>
           \/ /\ Free # {}
              /\ peer' = [peer EXCEPT ![f] = "up"]
              /\ fd' = [fd EXCEPT ![Server] = f]
              /\ pc' = [pc EXCEPT ![Server] = "add"]
              /\ unread' = unread \ {f}
    BY <1>8, Zenon DEF Accept
  <2>d. UNCHANGED <<table, bits, number>>
    BY <1>8 DEF Accept
  <2> HIDE DEF l, f
  <2>1. SetsAgree'
    <3>1. CASE UNCHANGED <<peer, fd, pc, unread>>
      BY <1>1, <1>2, <2>c, <2>d, <3>1 DEF SetsAgree, Connected, TypeOK
    <3>2. CASE /\ Free # {}
               /\ peer' = [peer EXCEPT ![f] = "up"]
               /\ fd' = [fd EXCEPT ![Server] = f]
               /\ pc' = [pc EXCEPT ![Server] = "add"]
               /\ unread' = unread \ {f}
      <4>1. Connected' = Connected \cup {f} /\ f \notin Connected
        BY <1>1, <2>a, <2>b, <3>2 DEF Connected, TypeOK
      <4>2. pc'[Server] = "add" /\ fd'[Server] = f
        BY <1>1, <3>2 DEF TypeOK
      <4>3. wait_fds = Connected /\ rfds \subseteq wait_fds \cup Listeners
        BY <1>2, <2>c DEF SetsAgree
      <4> QED
        BY <2>c, <2>d, <4>1, <4>2, <4>3 DEF SetsAgree
    <3> QED
      BY <2>c, <3>1, <3>2
  <2>2. CountAgrees'
    BY <1>1, <1>2, <1>4, <1>8 DEF Accept, SetsAgree, CountAgrees, TypeOK
  <2> QED
    BY <2>1, <2>2
<1>9. CASE Accepted
  <2>1. SetsAgree'
    BY <1>1, <1>2, <1>9 DEF Accepted, SetsAgree, Connected, TypeOK
  <2>2. CountAgrees'
    BY <1>1, <1>2, <1>4, <1>9 DEF Accepted, SetsAgree, CountAgrees, TypeOK
  <2> QED
    BY <2>1, <2>2
<1>10. CASE AddLoad
  <2>1. SetsAgree'
    BY <1>1, <1>2, <1>10 DEF AddLoad, SetsAgree, Connected, TypeOK
  <2>2. CountAgrees'
    BY <1>1, <1>2, <1>4, <1>10 DEF AddLoad, SetsAgree, CountAgrees, TypeOK
  <2> QED
    BY <2>1, <2>2
<1>11. CASE AddStore
  <2>1. SetsAgree'
    BY <1>1, <1>2, <1>11 DEF AddStore, SetsAgree, Connected, TypeOK
  <2>2. CountAgrees'
    BY <1>1, <1>2, <1>4, <1>11 DEF AddStore, SetsAgree, CountAgrees, TypeOK
  <2> QED
    BY <2>1, <2>2
<1>12. CASE AddCover
  <2>1. SetsAgree'
    BY <1>1, <1>2, <1>12 DEF AddCover, SetsAgree, Connected, TypeOK
  <2>2. CountAgrees'
    BY <1>1, <1>2, <1>4, <1>12 DEF AddCover, SetsAgree, CountAgrees, TypeOK
  <2> QED
    BY <2>1, <2>2
<1>13. CASE Increment
  <2>1. SetsAgree'
    BY <1>1, <1>2, <1>13 DEF Increment, SetsAgree, Connected, TypeOK
  <2>a. fd[Server] \in wait_fds
    BY <1>2, <1>13 DEF Increment, SetsAgree
  <2>b. Cardinality(wait_fds) = 1 <=> wait_fds = {fd[Server]}
    <3>1. Cardinality(wait_fds \ {fd[Server]}) = 0 <=> wait_fds \ {fd[Server]} = {}
      BY <1>3, Counting
    <3> QED
      BY <1>4, <2>a, <3>1
  <2>2. CountAgrees'
    BY <1>1, <1>2, <1>4, <1>13, <2>a, <2>b DEF Increment, SetsAgree, CountAgrees, TypeOK
  <2> QED
    BY <2>1, <2>2
<1>14. CASE Subscribe
  <2>1. SetsAgree'
    BY <1>1, <1>2, <1>14 DEF Subscribe, SetsAgree, Connected, TypeOK
  <2>2. CountAgrees'
    BY <1>1, <1>2, <1>4, <1>14 DEF Subscribe, SetsAgree, CountAgrees, TypeOK
  <2> QED
    BY <2>1, <2>2
<1>15. CASE Handle
  <2>a. Least(rfds) \in rfds \ Listeners
    <3>1. rfds \in SUBSET Fds /\ rfds # {} /\ rfds \cap Listeners = {}
      BY <1>1, <1>15 DEF Handle, TypeOK, Inv, ConnectionsOnly, Connections
    <3> QED
      BY <3>1, LeastIsLowest
  <2>1. SetsAgree'
    BY <1>1, <1>2, <1>15, <2>a DEF Handle, SetsAgree, Connected, TypeOK
  <2>2. CountAgrees'
    BY <1>1, <1>2, <1>4, <1>15 DEF Handle, SetsAgree, CountAgrees, TypeOK
  <2> QED
    BY <2>1, <2>2
<1>16. CASE Handled
  <2>1. SetsAgree'
    BY <1>1, <1>2, <1>16 DEF Handled, SetsAgree, Connected, TypeOK
  <2>2. CountAgrees'
    BY <1>1, <1>2, <1>4, <1>16 DEF Handled, SetsAgree, CountAgrees, TypeOK
  <2> QED
    BY <2>1, <2>2
<1>17. CASE GetcEnd
  <2>1. SetsAgree'
    BY <1>1, <1>2, <1>17 DEF GetcEnd, Ended, Empty, SetsAgree, Connected, TypeOK
  <2>2. CountAgrees'
    BY <1>1, <1>2, <1>4, <1>17 DEF GetcEnd, Ended, Empty, SetsAgree, CountAgrees, TypeOK
  <2> QED
    BY <2>1, <2>2
<1>18. CASE GetcFails
  <2>1. SetsAgree'
    BY <1>1, <1>2, <1>18 DEF GetcFails, Failed, SetsAgree, Connected, TypeOK
  <2>2. CountAgrees'
    BY <1>1, <1>2, <1>4, <1>18 DEF GetcFails, Failed, SetsAgree, CountAgrees, TypeOK
  <2> QED
    BY <2>1, <2>2
<1>19. CASE GetcReads
  <2>1. SetsAgree'
    BY <1>1, <1>2, <1>19 DEF GetcReads, SetsAgree, Connected, TypeOK
  <2>2. CountAgrees'
    BY <1>1, <1>2, <1>4, <1>19 DEF GetcReads, SetsAgree, CountAgrees, TypeOK
  <2> QED
    BY <2>1, <2>2
<1>20. CASE LoadCount(Server)
  <2>1. SetsAgree'
    BY <1>1, <1>2, <1>20 DEF LoadCount, SetsAgree, Connected, TypeOK
  <2>2. CountAgrees'
    BY <1>1, <1>2, <1>4, <1>20 DEF LoadCount, SetsAgree, CountAgrees, TypeOK
  <2> QED
    BY <2>1, <2>2
<1>21. CASE Close(Server)
  <2>1. SetsAgree'
    BY <1>1, <1>2, <1>21 DEF Close, SetsAgree, Connected, TypeOK
  <2>2. CountAgrees'
    BY <1>1, <1>2, <1>4, <1>21 DEF Close, SetsAgree, CountAgrees, TypeOK
  <2> QED
    BY <2>1, <2>2
<1>22. CASE LoadBits(Server)
  <2>1. SetsAgree'
    BY <1>1, <1>2, <1>22 DEF LoadBits, SetsAgree, Connected, TypeOK
  <2>2. CountAgrees'
    BY <1>1, <1>2, <1>4, <1>22 DEF LoadBits, SetsAgree, CountAgrees, TypeOK
  <2> QED
    BY <2>1, <2>2
<1>23. CASE Clear(Server)
  <2>1. SetsAgree'
    BY <1>1, <1>2, <1>23 DEF Clear, SetsAgree, Connected, TypeOK
  <2>2. CountAgrees'
    BY <1>1, <1>2, <1>4, <1>23 DEF Clear, SetsAgree, CountAgrees, TypeOK
  <2> QED
    BY <2>1, <2>2
<1>24. CASE Decrement(Server)
  <2>1. SetsAgree'
    BY <1>1, <1>2, <1>24 DEF Decrement, SetsAgree, Connected, TypeOK
  <2>2. CountAgrees'
    BY <1>1, <1>2, <1>4, <1>24 DEF Decrement, SetsAgree, CountAgrees, TypeOK
  <2> QED
    BY <2>1, <2>2
<1>25. CASE SetZero(Server)
  <2>1. SetsAgree'
    BY <1>1, <1>2, <1>25 DEF SetZero, SetsAgree, Connected, TypeOK
  <2>2. CountAgrees'
    BY <1>1, <1>2, <1>4, <1>25 DEF SetZero, SetsAgree, CountAgrees, TypeOK
  <2> QED
    BY <2>1, <2>2
<1>26. CASE Unsubscribe(Server)
  <2>1. SetsAgree'
    BY <1>1, <1>2, <1>26 DEF Unsubscribe, SetsAgree, Connected, TypeOK
  <2>2. CountAgrees'
    BY <1>1, <1>2, <1>4, <1>26 DEF Unsubscribe, SetsAgree, CountAgrees, TypeOK
  <2> QED
    BY <2>1, <2>2
<1> QED
  BY <1>5, <1>6, <1>7, <1>8, <1>9, <1>10, <1>11, <1>13, <1>14, <1>15, <1>16, <1>17, <1>18, <1>19, <1>20, <1>21, <1>22, <1>23, <1>24, <1>25, <1>26, <1>12 DEF ServerStep, Remove

\* As long as no publisher closes a connection its steps leave the fields alone, and
\* those of the clients do not open or close a socket.
LEMMA OthersKeepAgree ==
  ASSUME Inv, AgreeInv, ~meddled', PublisherStep \/ Clients
  PROVE  AgreeInv'
<1> USE ConstantsOK DEF table, net, loads, locals, bounds, history, Actors, Go, Back
<1>1. TypeOK
  BY DEF Inv
<1>2. meddled' = FALSE /\ ~meddled
  BY <1>1 DEF PublisherStep, Publish, WriteAll, Visit, AllWritten, Write, LoadCount, Remove, Close,
     LoadBits, Clear, Decrement, SetZero, Unsubscribe, Clients, Connect, Send, Leave, TypeOK
<1>3. /\ pc[Publisher] \in {"idle", "called", "next", "write", "close"}
      /\ SetsAgree /\ CountAgrees
  BY <1>2 DEF AgreeInv
<1>4. CASE Clients
  <2>1. UNCHANGED <<table, pc, loads, rfds, unread>>
    BY <1>4 DEF Clients, Connect, Send, Leave
  <2>2. \A g \in Fds : peer'[g] = "free" <=> peer[g] = "free"
    BY <1>1, <1>4 DEF Clients, Connect, Send, Leave, TypeOK
  <2>3. Connected' = Connected
    BY <2>1, <2>2 DEF Connected
  <2> QED
    BY <1>3, <2>1, <2>3 DEF AgreeInv, SetsAgree, CountAgrees
<1>5. CASE PublisherStep
  <2>1. UNCHANGED <<table, peer, unread, rfds>>
    BY <1>2, <1>3, <1>5 DEF PublisherStep, Publish, WriteAll, Visit, AllWritten, Write, LoadCount,
       Remove, Close, LoadBits, Clear, Decrement, SetZero, Unsubscribe
  <2>2. pc'[Publisher] \in {"idle", "called", "next", "write", "close"}
    BY <1>1, <1>2, <1>3, <1>5 DEF PublisherStep, Publish, WriteAll, Visit, AllWritten, Write,
       LoadCount, Remove, Close, LoadBits, Clear, Decrement, SetZero, Unsubscribe, TypeOK
  <2>3. /\ pc'[Server] = pc[Server] /\ fd'[Server] = fd[Server]
        /\ bits'[Server] = bits[Server] /\ number'[Server] = number[Server]
    BY <1>1, <1>2, <1>3, <1>5 DEF PublisherStep, Publish, WriteAll, Visit, AllWritten, Write,
       LoadCount, Remove, Close, LoadBits, Clear, Decrement, SetZero, Unsubscribe, TypeOK
  <2> QED
    BY <1>3, <2>1, <2>2, <2>3 DEF AgreeInv, SetsAgree, CountAgrees, Connected
<1> QED
  BY <1>4, <1>5

\* As long as no publisher has closed a connection, the count, the subscription, the
\* set that select is given and the open sockets agree between two changes that the
\* server's task makes, whatever the clients do and the publishers write meanwhile.
THEOREM FieldsStayInStep == Spec => []FieldsAgree
<1>1. Init => AgreeInv
  <2> SUFFICES ASSUME Init PROVE AgreeInv
    OBVIOUS
  <2>1. pc[Server] = "select" /\ pc[Publisher] = "idle" /\ fd[Server] = 0
    BY ConstantsOK DEF Init, Actors
  <2>2. wait_fds = {} /\ Connected = {} /\ ~subscribed
    BY DEF Init, Connected
  <2>3. cconn_count = Cardinality(wait_fds)
    BY <2>2, FS_EmptySet DEF Init
  <2> QED
    BY <2>1, <2>2, <2>3 DEF AgreeInv, SetsAgree, CountAgrees
<1>2. Inv /\ AgreeInv /\ [Next]_vars => AgreeInv'
  <2> SUFFICES ASSUME Inv, AgreeInv, [Next]_vars, ~meddled'
               PROVE  AgreeInv'
    BY DEF AgreeInv
  <2> USE ConstantsOK DEF table, net, loads, locals, bounds, history, Actors, Go, Back
  <2>1. CASE ServerStep
    <3>1. TypeOK
      BY DEF Inv
    <3>2. ~meddled
      BY <2>1, <3>1 DEF ServerStep, Select, SelectFails, SelectReturns, Accept, Accepted, AddLoad,
         AddStore, AddCover, Increment, Subscribe, Handle, Handled, GetcEnd, GetcFails, GetcReads,
         LoadCount, Remove, Close, LoadBits, Clear, Decrement, SetZero, Unsubscribe, TypeOK
    <3>3. pc'[Publisher] = pc[Publisher]
      BY <2>1, <3>1 DEF ServerStep, Select, SelectFails, SelectReturns, Accept, Accepted, AddLoad,
         AddStore, AddCover, Increment, Subscribe, Handle, Handled, GetcEnd, GetcFails, GetcReads,
         LoadCount, Remove, Close, LoadBits, Clear, Decrement, SetZero, Unsubscribe, TypeOK
    <3>4. SetsAgree' /\ CountAgrees'
      BY <2>1, <3>2, ServerKeepsAgree
    <3> QED
      BY <3>2, <3>3, <3>4 DEF AgreeInv
  <2>2. CASE PublisherStep \/ Clients
    BY <2>2, OthersKeepAgree
  <2>3. CASE UNCHANGED vars
    BY <2>3 DEF vars, AgreeInv, SetsAgree, CountAgrees, Connected
  <2> QED
    BY <2>1, <2>2, <2>3 DEF Next
<1>3. TypeOK /\ AgreeInv => FieldsAgree
  <2> SUFFICES ASSUME TypeOK, AgreeInv, ~meddled,
                      pc[Server] \in {"select", "selecting", "accept", "handle", "getc", "close"}
               PROVE  /\ cconn_count = Cardinality(wait_fds)
                      /\ subscribed = (wait_fds # {})
                      /\ wait_fds = {f \in Fds \ Listeners : peer[f] # "free"} \ unread
    BY DEF FieldsAgree
  <2>1. cconn_count = Cardinality(wait_fds) /\ (subscribed <=> wait_fds # {})
    BY DEF AgreeInv, CountAgrees
  <2>2. subscribed = (wait_fds # {})
    BY <2>1, Zenon DEF TypeOK
  <2>3. wait_fds = Connected
    BY DEF AgreeInv, SetsAgree
  <2> QED
    BY <2>1, <2>2, <2>3 DEF Connected
<1> QED
  BY <1>1, <1>2, <1>3, InvCorrect, PTL DEF Spec, Inv
================================================================================
