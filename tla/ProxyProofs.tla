----------------------------- MODULE ProxyProofs -----------------------------
(***************************************************************************)
(* The proxy for any number of clients, servers and descriptors: who owns  *)
(* a descriptor, that the semaphores exclude, that a thread connects where *)
(* its client asked it to, and that an answer is in the log before it is   *)
(* sent.                                                                   *)
(*                                                                         *)
(* The invariant follows a descriptor on its way: from the struct that     *)
(* Accept fills, through argsp and the new thread, to the thread's         *)
(* fd_client (Handed), and while it is served (Owned); and a line from     *)
(* buf through stdio to the log file (Said).                               *)
(***************************************************************************)
EXTENDS Proxy, NatLemmas, SequenceTheorems, FiniteSetTheorems, TLAPS

Names    == Hosts \cup {NONE}
Requests == [what : {"request"}, host : Hosts, client : Clients]
Answers  == [what : {"answer"}, host : Names, client : Clients]
Messages == Requests \cup Answers \cup {Warning}
Entries  == [addr : Clients, line : Answers]
Servers  == [peer : {"server", "closed"}, name : Names]
Places   == {"none", "start", "read", "connect", "connecting", "forward", "log", "flush",
             "reply", "done"}

Typed ==
  /\ exited \in BOOLEAN /\ argsp \in Structs \cup {NONE} /\ arrived \subseteq Clients
  /\ args \in [Structs -> Arguments \cup {NONE}]
  /\ file \in [Fds -> Connections \cup {NONE}]
  /\ lines \in 0 .. MaxLines /\ got \in [Clients -> SUBSET Messages]
  /\ pc \in [Threads -> Places]
  /\ fd_client \in [Threads -> Fds \cup {-1}] /\ fd_server \in [Threads -> Fds \cup {-1}]
  /\ sock \in [Threads -> Clients \cup {NONE}] /\ buf \in [Threads -> Messages \cup {NONE}]
  /\ hostent \in Names /\ mutex_sem \in {0, 1}
  /\ mutex_log \in {0, 1} /\ stdio \in Seq(Entries) /\ logfile \in Seq(Entries)

\* A connection on its way to its thread: each struct has one reader to come,
\* and each names a descriptor of its own.
Handed ==
  /\ argsp # NONE => args[argsp] # NONE
  /\ \A t \in Threads : pc[t] = "start" =>
       /\ sock[t] \in Structs /\ sock[t] # argsp /\ args[sock[t]] # NONE
       /\ fd_server[t] = -1
  /\ \A t \in Threads : pc[t] = "none" => fd_server[t] = -1
  /\ \A t, u \in Threads : pc[t] = "start" /\ pc[u] = "start" /\ sock[t] = sock[u] => t = u
  /\ \A k \in Structs : args[k] # NONE => file[args[k].fd] = Client(args[k].addr)
  /\ \A k, j \in Structs :
       args[k] # NONE /\ args[j] # NONE /\ args[k].fd = args[j].fd => k = j

\* The descriptors of a thread.
Owned ==
  /\ \A t \in Serving :
       /\ sock[t] \in Clients /\ fd_client[t] \in Fds
       /\ file[fd_client[t]] = Client(sock[t])
       /\ fd_server[t] # -1 => file[fd_server[t]] \in Servers
       /\ pc[t] \in {"connecting", "forward"} => fd_server[t] # -1
  /\ \A t, u \in Serving : t # u =>
       /\ fd_client[t] # fd_client[u] /\ fd_client[t] # fd_server[u]
       /\ fd_server[t] # -1 => fd_server[t] # fd_server[u]
  /\ \A t \in Serving, k \in Structs : args[k] # NONE =>
       args[k].fd # fd_client[t] /\ args[k].fd # fd_server[t]

Asking(t)  == \E h \in Hosts : buf[t] = Request(h, sock[t])
Telling(t) == \E h \in Names : buf[t] = Answer(h, sock[t])

Logged(c, m) == m.what = "answer" => /\ m.client = c
                                     /\ [addr |-> c, line |-> m] \in ToSet(logfile)

Said ==
  /\ \A t \in Threads :
       /\ pc[t] \in {"connect", "connecting", "forward"} => Asking(t)
       /\ pc[t] = "connecting" /\ ~exited => buf[t].host = hostent
       /\ pc[t] \in {"log", "flush"} => Telling(t)
       /\ pc[t] = "flush" => stdio = <<[addr |-> sock[t], line |-> buf[t]]>>
       /\ pc[t] = "reply" => buf[t] \in Messages /\ Logged(sock[t], buf[t])
  /\ LoggedBeforeAnswered

Excluding ==
  /\ \A t, u \in Threads : pc[t] = "connecting" /\ pc[u] = "connecting" => t = u
  /\ \A t, u \in Threads : pc[t] = "flush" /\ pc[u] = "flush" => t = u
  /\ ~exited => (mutex_sem = 0 <=> \E t \in Threads : pc[t] = "connecting")
  /\ mutex_log = 0 <=> \E t \in Threads : pc[t] = "flush"
  /\ mutex_log = 1 => stdio = <<>>

PInv == Typed /\ Handed /\ Owned /\ Said /\ Excluding

-----------------------------------------------------------------------------
LEMMA LowestFree ==
  ASSUME FreeFds # {}
  PROVE  Lowest \in Fds /\ file[Lowest] = NONE
<1>1. FreeFds \in SUBSET Nat
  BY ProxyAssumption DEF FreeFds
<1>2. \E f \in FreeFds : \A g \in FreeFds : f <= g
  BY <1>1, LeastNatural
<1>3. Lowest \in FreeFds
  BY <1>2 DEF Lowest
<1> QED
  BY <1>3 DEF FreeFds

\* A connection is not NONE, and a client's is not a server's.
LEMMA Kinds ==
  /\ \A c \in Clients : Client(c) \in Connections /\ Client(c) # NONE /\ Client(c) \notin Servers
  /\ \A h \in Names : Server(h) \in Servers
  /\ \A s \in Servers : s \in Connections /\ s # NONE /\ [s EXCEPT !.peer = "closed"] \in Servers
  /\ \A c, d \in Clients : Client(c) = Client(d) => c = d
  /\ \A c \in Clients : Client(c).name = c
<1>1. \A c \in Clients : Client(c) \in Connections /\ Client(c).peer = "client" /\ Client(c).name = c
  BY DEF Client, Connections
<1>2. \A s \in Servers : s \in Connections /\ s.peer # "client"
                         /\ [s EXCEPT !.peer = "closed"] \in Servers
  BY DEF Servers, Connections, Names
<1>3. \A h \in Names : Server(h) \in Servers
  BY DEF Server, Servers
<1> QED
  BY <1>1, <1>2, <1>3, ProxyAssumption

LEMMA InitPInv == Init => PInv
<1> SUFFICES ASSUME Init PROVE PInv
  OBVIOUS
<1> USE DEF Init
<1>1. Typed
  <2>1. <<>> \in Seq(Entries) /\ 0 \in 0 .. MaxLines /\ "none" \in Places
    BY ProxyAssumption DEF Places
  <2> QED
    BY <2>1 DEF Typed, Names
<1>2. Handed
  BY DEF Handed
<1>3. Owned
  BY DEF Owned, Serving
<1>4. Said
  BY DEF Said, LoggedBeforeAnswered
<1>5. Excluding
  BY DEF Excluding
<1> QED
  BY <1>1, <1>2, <1>3, <1>4, <1>5 DEF PInv

-----------------------------------------------------------------------------
(* main.                                                                   *)

LEMMA AcceptKept ==
  ASSUME PInv, NEW c \in Clients, NEW k \in Structs, Accept(c, k)
  PROVE  PInv'
<1> USE DEF PInv
<1>1. CASE FreeFds = {}
  <2>1. exited' = TRUE /\ UNCHANGED <<mainvars, args, file, lines, got, pc, locals, connvars, logvars>>
    BY <1>1 DEF Accept, mainvars
  <2> USE <2>1 DEF mainvars, locals, connvars, logvars
  <2>2. Typed' /\ Handed' /\ Owned' /\ Excluding'
    BY DEF Typed, Handed, Owned, Serving, Excluding
  <2>3. Said'
    BY DEF Said, LoggedBeforeAnswered, Asking, Telling, Logged
  <2> QED
    BY <2>2, <2>3
<1>2. CASE FreeFds # {}
  <2> DEFINE f == Lowest
  <2>1. f \in Fds /\ file[f] = NONE
    BY <1>2, LowestFree
  <2> HIDE DEF f
  <2>2. /\ file' = [file EXCEPT ![f] = Client(c)]
        /\ args' = [args EXCEPT ![k] = [fd |-> f, addr |-> c]]
        /\ argsp' = k /\ arrived' = arrived \cup {c} /\ UNCHANGED exited
        /\ argsp = NONE /\ args[k] = NONE
        /\ UNCHANGED <<lines, got, pc, locals, connvars, logvars>>
    BY <1>2 DEF Accept, f
  <2>3. /\ [fd |-> f, addr |-> c] \in Arguments /\ [fd |-> f, addr |-> c] # NONE
        /\ [fd |-> f, addr |-> c].fd = f /\ [fd |-> f, addr |-> c].addr = c
    BY <2>1, ProxyAssumption DEF Arguments
  <2>4. /\ args'[k] = [fd |-> f, addr |-> c]
        /\ \A j \in Structs : j # k => args'[j] = args[j]
        /\ file'[f] = Client(c)
        /\ \A g \in Fds : g # f => file'[g] = file[g]
    BY <2>1, <2>2 DEF Typed
  <2>5. Typed'
    BY <2>1, <2>2, <2>3, Kinds DEF Typed, locals, connvars, logvars
  <2>6. \A j \in Structs : args[j] # NONE => args[j].fd \in Fds /\ args[j].addr \in Clients /\ args[j].fd # f
    BY <2>1, Kinds DEF Typed, Handed, Arguments
  <2>7. Handed'
    <3> UNCHANGED <<pc, sock, fd_server>>
      BY <2>2 DEF locals
    <3> QED
      BY <2>2, <2>3, <2>4, <2>6, ProxyAssumption DEF Handed, Structs
  <2>8. \A t \in Serving : /\ fd_client[t] # f /\ fd_server[t] # f
                           /\ fd_server[t] \in Fds \cup {-1} /\ t \in Threads
    <3> SUFFICES ASSUME NEW t \in Serving
                 PROVE  /\ fd_client[t] # f /\ fd_server[t] # f
                        /\ fd_server[t] \in Fds \cup {-1} /\ t \in Threads
      OBVIOUS
    <3>1. t \in Threads /\ f # -1
      BY <2>1, ProxyAssumption DEF Serving
    <3>2. /\ file[fd_client[t]] = Client(sock[t]) /\ sock[t] \in Clients
          /\ fd_server[t] # -1 => file[fd_server[t]] \in Servers
      BY DEF Owned
    <3> QED
      BY <2>1, <3>1, <3>2, Kinds DEF Typed
  <2>9. Owned'
    <3> UNCHANGED <<pc, fd_client, fd_server, sock>> /\ Serving' = Serving
      BY <2>2 DEF locals, Serving
    <3> QED
      BY <2>3, <2>4, <2>8 DEF Owned
  <2>10. Said'
    BY <2>2 DEF Said, LoggedBeforeAnswered, Asking, Telling, Logged, locals, connvars, logvars
  <2>11. Excluding'
    BY <2>2 DEF Excluding, connvars, logvars
  <2> QED
    BY <2>5, <2>7, <2>9, <2>10, <2>11
<1> QED
  BY <1>1, <1>2

LEMMA CreateKept ==
  ASSUME PInv, NEW t \in Threads, Create(t)
  PROVE  PInv'
<1> USE DEF PInv
<1>1. /\ argsp # NONE /\ pc[t] = "none" /\ argsp' = NONE
      /\ pc' = [pc EXCEPT ![t] = "start"] /\ sock' = [sock EXCEPT ![t] = argsp]
      /\ UNCHANGED <<exited, args, file, arrived, lines, got, fd_client, fd_server, buf,
                     hostent, mutex_sem, mutex_log, stdio, logfile>>
  BY DEF Create, Go, connvars, logvars
<1>2. argsp \in Structs
  BY <1>1 DEF Typed
<1>3. /\ pc'[t] = "start" /\ sock'[t] = argsp
      /\ \A u \in Threads : u # t => pc'[u] = pc[u] /\ sock'[u] = sock[u]
  BY <1>1 DEF Typed
<1>4. Typed'
  BY <1>1, <1>2 DEF Typed, Places, Structs
<1>5. Handed'
  <2>1. \A u \in Threads : pc'[u] = "start" =>
           /\ sock'[u] \in Structs /\ sock'[u] # NONE /\ args[sock'[u]] # NONE
           /\ fd_server[u] = -1
    BY <1>1, <1>2, <1>3, ProxyAssumption DEF Handed, Structs
  <2>2. \A u, v \in Threads : pc'[u] = "start" /\ pc'[v] = "start" /\ sock'[u] = sock'[v]
          => u = v
    BY <1>1, <1>3 DEF Handed
  <2> QED
    BY <1>1, <1>3, <2>1, <2>2 DEF Handed
<1>6. Owned'
  <2>1. Serving' = Serving /\ \A u \in Serving : u # t
    BY <1>1, <1>3 DEF Serving
  <2>2. \A u \in Serving : u \in Threads /\ sock'[u] = sock[u] /\ pc'[u] = pc[u]
    BY <1>3, <2>1 DEF Serving
  <2> QED
    BY <1>1, <2>1, <2>2 DEF Owned
<1>7. Said'
  <2>1. LoggedBeforeAnswered'
    BY <1>1 DEF Said, LoggedBeforeAnswered
  <2>2. \A u \in Threads :
          /\ pc'[u] \in {"connect", "connecting", "forward", "log", "flush", "reply"}
          => u # t
    BY <1>3
  <2> QED
    BY <1>1, <1>3, <2>1, <2>2 DEF Said, Asking, Telling, Logged
<1>8. Excluding'
  BY <1>1, <1>3 DEF Excluding
<1> QED
  BY <1>4, <1>5, <1>6, <1>7, <1>8

-----------------------------------------------------------------------------
(* process_request.                                                        *)

LEMMA StartKept ==
  ASSUME PInv, NEW t \in Threads, Start(t)
  PROVE  PInv'
<1> USE DEF PInv
<1> DEFINE k == sock[t]
<1>1. /\ pc[t] = "start" /\ k \in Structs /\ k # argsp /\ args[k] # NONE /\ fd_server[t] = -1
      /\ args[k] \in Arguments /\ args[k].fd \in Fds /\ args[k].addr \in Clients
  BY DEF Start, At, Handed, Typed, Arguments
<1>2. /\ fd_client' = [fd_client EXCEPT ![t] = args[k].fd]
      /\ sock' = [sock EXCEPT ![t] = args[k].addr]
      /\ args' = [args EXCEPT ![k] = NONE]
      /\ pc' = [pc EXCEPT ![t] = "read"]
      /\ UNCHANGED <<exited, argsp, arrived, file, lines, got, fd_server, buf, hostent,
                     mutex_sem, mutex_log, stdio, logfile>>
  BY DEF Start, Go, mainvars, connvars, logvars
<1>3. /\ pc'[t] = "read" /\ sock'[t] = args[k].addr /\ fd_client'[t] = args[k].fd
      /\ args'[k] = NONE
      /\ \A u \in Threads : u # t => /\ pc'[u] = pc[u] /\ sock'[u] = sock[u]
                                     /\ fd_client'[u] = fd_client[u]
      /\ \A j \in Structs : j # k => args'[j] = args[j]
  BY <1>1, <1>2 DEF Typed
<1>4. Typed'
  BY <1>1, <1>2 DEF Typed, Places
<1>5. Handed'
  <2>1. argsp' # NONE => args'[argsp'] # NONE
    BY <1>1, <1>2, <1>3 DEF Handed, Typed
  <2>2. \A u \in Threads : pc'[u] = "start" =>
          /\ u # t /\ sock'[u] \in Structs /\ sock'[u] # k /\ sock'[u] # argsp
          /\ args'[sock'[u]] # NONE /\ fd_server'[u] = -1
    BY <1>1, <1>2, <1>3 DEF Handed
  <2>3. \A j \in Structs : args'[j] # NONE => j # k /\ args'[j] = args[j]
    BY <1>3
  <2> QED
    BY <1>2, <1>3, <2>1, <2>2, <2>3 DEF Handed
<1>6. Owned'
  <2>1. \A u \in Serving' : u # t => u \in Serving /\ u \in Threads
    BY <1>3 DEF Serving
  <2>2. file[args[k].fd] = Client(args[k].addr)
    BY <1>1 DEF Handed
  <2>3. \A u \in Serving : fd_client[u] # args[k].fd /\ fd_server[u] # args[k].fd
    BY <1>1 DEF Owned
  <2>4. args[k].fd # -1
    BY <1>1, ProxyAssumption
  <2>5. ASSUME NEW u \in Serving'
        PROVE  /\ sock'[u] \in Clients /\ fd_client'[u] \in Fds
               /\ file'[fd_client'[u]] = Client(sock'[u])
               /\ fd_server'[u] # -1 => file'[fd_server'[u]] \in Servers
               /\ pc'[u] \in {"connecting", "forward"} => fd_server'[u] # -1
    BY <1>1, <1>2, <1>3, <2>1, <2>2 DEF Owned
  <2>6. ASSUME NEW u \in Serving', NEW v \in Serving', u # v
        PROVE  /\ fd_client'[u] # fd_client'[v] /\ fd_client'[u] # fd_server'[v]
               /\ fd_server'[u] # -1 => fd_server'[u] # fd_server'[v]
    <3>1. CASE u # t /\ v # t
      BY <1>2, <1>3, <2>1, <2>6, <3>1 DEF Owned
    <3>2. CASE u = t
      BY <1>1, <1>2, <1>3, <2>1, <2>3, <2>6, <3>2
    <3>3. CASE v = t
      <4>1. u \in Serving /\ fd_client[u] \in Fds /\ -1 \notin Fds
        BY <2>1, <2>6, <3>3, ProxyAssumption DEF Owned
      <4> QED
        BY <1>1, <1>2, <1>3, <2>1, <2>3, <2>6, <3>3, <4>1
    <3> QED
      BY <3>1, <3>2, <3>3
  <2>7. ASSUME NEW u \in Serving', NEW j \in Structs, args'[j] # NONE
        PROVE  args'[j].fd # fd_client'[u] /\ args'[j].fd # fd_server'[u]
    <3>1. j # k /\ args'[j] = args[j] /\ args[j] \in Arguments
      BY <1>3, <2>7 DEF Typed
    <3>2. args[j].fd # -1 /\ args[j].fd # args[k].fd
      BY <1>1, <2>7, <3>1, ProxyAssumption DEF Handed, Arguments
    <3> QED
      BY <1>1, <1>2, <1>3, <2>1, <2>7, <3>1, <3>2 DEF Owned
  <2> QED
    BY <2>5, <2>6, <2>7 DEF Owned
<1>7. Said'
  <2>1. LoggedBeforeAnswered'
    BY <1>2 DEF Said, LoggedBeforeAnswered
  <2>2. \A u \in Threads :
          pc'[u] \in {"connect", "connecting", "forward", "log", "flush", "reply"} => u # t
    BY <1>3
  <2> QED
    BY <1>2, <1>3, <2>1, <2>2 DEF Said, Asking, Telling, Logged
<1>8. Excluding'
  BY <1>1, <1>2, <1>3 DEF Excluding
<1> QED
  BY <1>4, <1>5, <1>6, <1>7, <1>8

\* A thread goes on with the same descriptors.
LEMMA GoesOn ==
  ASSUME PInv, NEW t \in Serving, NEW w \in Places \ {"none", "start"},
         pc' = [pc EXCEPT ![t] = w], w \in {"connecting", "forward"} => fd_server[t] # -1,
         UNCHANGED <<args, argsp, file, sock, fd_client, fd_server>>
  PROVE  Handed' /\ Owned'
<1> USE DEF PInv
<1>1. t \in Threads /\ pc[t] \notin {"none", "start"}
  BY DEF Serving
<1>2. pc'[t] = w /\ \A u \in Threads : u # t => pc'[u] = pc[u]
  BY <1>1 DEF Typed
<1>3. Handed'
  BY <1>1, <1>2 DEF Handed
<1>4. \A u \in Serving' : u \in Serving /\ (u # t => pc'[u] = pc[u])
  BY <1>1, <1>2 DEF Serving
<1>5. Owned'
  BY <1>2, <1>4 DEF Owned
<1> QED
  BY <1>3, <1>5

\* What the other threads and the log have is not disturbed by a step of t
\* that neither logs nor connects.
LEMMA SilentKept ==
  ASSUME PInv, NEW t \in Serving, NEW w \in {"read", "connect", "forward", "reply", "log", "done"},
         pc[t] \notin {"connecting", "flush"},
         pc' = [pc EXCEPT ![t] = w], NEW m \in Messages, buf' = [buf EXCEPT ![t] = m],
         w \in {"connect", "forward"} => \E h \in Hosts : m = Request(h, sock[t]),
         w = "log" => \E h \in Names : m = Answer(h, sock[t]),
         w = "reply" => Logged(sock[t], m),
         UNCHANGED <<exited, sock, got, hostent, mutex_sem, mutex_log, stdio, logfile>>
  PROVE  Said' /\ Excluding'
<1> USE DEF PInv
<1>1. t \in Threads
  BY DEF Serving
<1>2. /\ pc'[t] = w /\ buf'[t] = m
      /\ \A u \in Threads : u # t => pc'[u] = pc[u] /\ buf'[u] = buf[u]
  BY <1>1 DEF Typed
<1>3. LoggedBeforeAnswered'
  BY DEF Said, LoggedBeforeAnswered
<1>4. ASSUME NEW u \in Threads
      PROVE  /\ pc'[u] \in {"connect", "connecting", "forward"} => Asking(u)'
             /\ pc'[u] = "connecting" /\ ~exited' => buf'[u].host = hostent'
             /\ pc'[u] \in {"log", "flush"} => Telling(u)'
             /\ pc'[u] = "flush" => stdio' = <<[addr |-> sock'[u], line |-> buf'[u]]>>
             /\ pc'[u] = "reply" => buf'[u] \in Messages /\ Logged(sock[u], buf[u])'
  <2>1. CASE u = t
    BY <1>2, <2>1 DEF Asking, Telling, Logged
  <2>2. CASE u # t
    BY <1>2, <2>2 DEF Said, Asking, Telling, Logged
  <2> QED
    BY <2>1, <2>2
<1>5. Said'
  BY <1>3, <1>4 DEF Said
<1>6. Excluding'
  BY <1>1, <1>2 DEF Excluding
<1> QED
  BY <1>5, <1>6

LEMMA ReadKept ==
  ASSUME PInv, NEW t \in Threads, ReadShort(t) \/ \E h \in Hosts : ReadRequest(t, h)
  PROVE  PInv'
<1> USE DEF PInv
<1>1. /\ pc[t] = "read" /\ lines < MaxLines /\ lines' = lines + 1
      /\ UNCHANGED <<exited, argsp, arrived, args, got, file, fd_client, fd_server, sock, hostent,
                     mutex_sem, mutex_log, stdio, logfile>>
  BY DEF ReadShort, ReadRequest, ReadLine, At, mainvars, connvars, logvars
<1>2. /\ t \in Serving /\ sock[t] \in Clients
      /\ file[fd_client[t]].name = sock[t]
  BY <1>1, Kinds DEF Serving, Owned
<1>3. lines' \in 0 .. MaxLines
  BY <1>1, ProxyAssumption DEF Typed
<1>4. CASE ReadShort(t)
  <2>1. buf' = [buf EXCEPT ![t] = Warning] /\ pc' = [pc EXCEPT ![t] = "reply"]
    BY <1>4 DEF ReadShort, Go
  <2>2. Warning \in Messages /\ Logged(sock[t], Warning)
    BY DEF Messages, Logged, Warning
  <2>3. Typed'
    BY <1>1, <1>3, <2>1, <2>2 DEF Typed, Places
  <2>4. Handed' /\ Owned'
    BY <1>1, <1>2, <2>1, GoesOn DEF Places
  <2>5. Said' /\ Excluding'
    BY <1>1, <1>2, <2>1, <2>2, SilentKept
  <2> QED
    BY <2>3, <2>4, <2>5
<1>5. ASSUME NEW h \in Hosts, ReadRequest(t, h)
      PROVE  PInv'
  <2> DEFINE m == Request(h, sock[t])
             w == IF fd_server[t] = -1 THEN "connect" ELSE "forward"
  <2>1. buf' = [buf EXCEPT ![t] = m] /\ pc' = [pc EXCEPT ![t] = w]
    BY <1>2, <1>5 DEF ReadRequest, Go
  <2>2. m \in Messages /\ w \in {"connect", "forward"}
    BY <1>2 DEF Messages, Requests, Request
  <2>3. Typed'
    BY <1>1, <1>3, <2>1, <2>2 DEF Typed, Places
  <2>4. Handed' /\ Owned'
    BY <1>1, <1>2, <2>1, GoesOn DEF Places
  <2>5. Said' /\ Excluding'
    <3> HIDE DEF w
    <3> QED
      BY <1>1, <1>2, <2>1, <2>2, SilentKept
  <2> QED
    BY <2>3, <2>4, <2>5
<1> QED
  BY <1>4, <1>5

LEMMA ResolveKept ==
  ASSUME PInv, NEW t \in Threads, Resolve(t)
  PROVE  PInv'
<1> USE DEF PInv
<1>1. /\ pc[t] = "connect" /\ ~exited /\ mutex_sem = 1 /\ mutex_sem' = 0 /\ t \in Serving
      /\ UNCHANGED <<argsp, arrived, args, lines, got, fd_client, sock, buf, mutex_log, stdio,
                     logfile>>
  BY DEF Resolve, ResolveLocked, At, Serving, mainvars, logvars
<1>2. CASE exited' = TRUE /\ UNCHANGED <<pc, file, fd_server, hostent>>
  <2>1. Typed' /\ Handed' /\ Excluding'
    BY <1>1, <1>2 DEF Typed, Handed, Excluding
  <2>2. Owned'
    BY <1>1, <1>2 DEF Owned, Serving
  <2>3. Said'
    BY <1>1, <1>2 DEF Said, LoggedBeforeAnswered, Asking, Telling, Logged
  <2> QED
    BY <2>1, <2>2, <2>3
<1>3. CASE ~(exited' = TRUE /\ UNCHANGED <<pc, file, fd_server, hostent>>)
  <2> DEFINE f == Lowest
  <2>1. /\ FreeFds # {} /\ hostent' = buf[t].host
        /\ file' = [file EXCEPT ![f] = Server(NONE)]
        /\ fd_server' = [fd_server EXCEPT ![t] = f]
        /\ pc' = [pc EXCEPT ![t] = "connecting"] /\ UNCHANGED exited
    BY <1>3 DEF Resolve, ResolveLocked, Go
  <2>2. f \in Fds /\ file[f] = NONE /\ f # -1
    BY <2>1, LowestFree, ProxyAssumption
  <2> HIDE DEF f
  <2>3. /\ pc'[t] = "connecting" /\ fd_server'[t] = f /\ file'[f] = Server(NONE)
        /\ \A u \in Threads : u # t => pc'[u] = pc[u] /\ fd_server'[u] = fd_server[u]
        /\ \A g \in Fds : g # f => file'[g] = file[g]
    BY <1>1, <2>1, <2>2 DEF Typed
  <2>4. Server(NONE) \in Servers /\ Server(NONE) \in Connections
    BY Kinds DEF Names
  <2>5. PICK h \in Hosts : buf[t] = Request(h, sock[t])
    BY <1>1 DEF Said, Asking
  <2>6. Typed'
    <3>1. buf[t].host \in Names
      BY <2>5 DEF Request, Names
    <3> QED
      BY <1>1, <2>1, <2>2, <2>4, <3>1 DEF Typed, Places
  <2>7. \A u \in Serving :
          /\ u \in Threads /\ sock[u] \in Clients /\ fd_client[u] \in Fds
          /\ fd_client[u] # f /\ fd_server[u] # f
    <3> SUFFICES ASSUME NEW u \in Serving
                 PROVE  /\ u \in Threads /\ sock[u] \in Clients /\ fd_client[u] \in Fds
                        /\ fd_client[u] # f /\ fd_server[u] # f
      OBVIOUS
    <3>1. /\ u \in Threads /\ sock[u] \in Clients /\ fd_client[u] \in Fds
          /\ file[fd_client[u]] = Client(sock[u])
          /\ fd_server[u] # -1 => file[fd_server[u]] \in Servers
      BY DEF Owned, Serving
    <3> QED
      BY <2>2, <3>1, Kinds
  <2>8. \A k \in Structs : args[k] # NONE => args[k].fd \in Fds /\ args[k].fd # f
    BY <2>2, Kinds DEF Typed, Handed, Arguments
  <2>9. Handed'
    BY <1>1, <2>3, <2>8 DEF Handed
  <2>10. Owned'
    <3>1. Serving' = Serving
      BY <1>1, <2>3 DEF Serving
    <3>2. ASSUME NEW u \in Serving
          PROVE  /\ sock[u] \in Clients /\ fd_client[u] \in Fds
                 /\ file'[fd_client[u]] = Client(sock[u])
                 /\ fd_server'[u] # -1 => file'[fd_server'[u]] \in Servers
                 /\ pc'[u] \in {"connecting", "forward"} => fd_server'[u] # -1
      <4>1. fd_server[u] \in Fds \cup {-1}
        BY <2>7 DEF Typed
      <4> QED
        BY <2>2, <2>3, <2>4, <2>7, <4>1 DEF Owned
    <3>3. ASSUME NEW u \in Serving, NEW v \in Serving, u # v
          PROVE  /\ fd_client[u] # fd_client[v] /\ fd_client[u] # fd_server'[v]
                 /\ fd_server'[u] # -1 => fd_server'[u] # fd_server'[v]
      BY <2>3, <2>7, <3>3 DEF Owned
    <3>4. ASSUME NEW u \in Serving, NEW k \in Structs, args[k] # NONE
          PROVE  args[k].fd # fd_client[u] /\ args[k].fd # fd_server'[u]
      BY <2>3, <2>7, <2>8, <3>4 DEF Owned
    <3> QED
      BY <1>1, <3>1, <3>2, <3>3, <3>4 DEF Owned
  <2>11. \A u \in Threads : pc[u] # "connecting"
    BY <1>1 DEF Excluding
  <2>12. Said'
    <3>1. LoggedBeforeAnswered'
      BY <1>1 DEF Said, LoggedBeforeAnswered
    <3>2. Asking(t)'
      BY <1>1, <2>5 DEF Asking
    <3> QED
      BY <1>1, <2>1, <2>3, <2>11, <3>1, <3>2 DEF Said, Asking, Telling, Logged
  <2>13. Excluding'
    BY <1>1, <2>1, <2>3, <2>11 DEF Excluding
  <2> QED
    BY <2>6, <2>9, <2>10, <2>12, <2>13
<1> QED
  BY <1>2, <1>3

\* The server's descriptor of a thread comes to stand for another server.
LEMMA ServerKept ==
  ASSUME PInv, NEW t \in Serving, NEW w \in {"forward", "reply"}, NEW s \in Servers,
         fd_server[t] # -1, file' = [file EXCEPT ![fd_server[t]] = s],
         pc' = [pc EXCEPT ![t] = w],
         UNCHANGED <<args, argsp, sock, fd_client, fd_server>>
  PROVE  Handed' /\ Owned' /\ file' \in [Fds -> Connections \cup {NONE}]
<1> USE DEF PInv
<1> DEFINE f == fd_server[t]
<1>1. t \in Threads /\ pc[t] \notin {"none", "start"} /\ f \in Fds /\ file[f] \in Servers
  BY DEF Serving, Typed, Owned
<1>2. /\ pc'[t] = w /\ \A u \in Threads : u # t => pc'[u] = pc[u]
      /\ file'[f] = s /\ \A g \in Fds : g # f => file'[g] = file[g]
  BY <1>1 DEF Typed
<1>3. \A k \in Structs : args[k] # NONE => args[k].fd \in Fds /\ args[k].fd # f
  BY <1>1 DEF Typed, Owned, Arguments
<1>4. \A u \in Serving : sock[u] \in Clients /\ fd_client[u] \in Fds /\ fd_client[u] # f
  BY <1>1, Kinds DEF Owned
<1>5. \A u \in Serving : fd_server[u] # -1 => fd_server[u] \in Fds
  BY DEF Typed, Serving
<1>6. Serving' = Serving
  BY <1>1, <1>2 DEF Serving
<1>7. Handed'
  BY <1>1, <1>2, <1>3 DEF Handed
<1>8. Owned'
  <2>1. ASSUME NEW u \in Serving
        PROVE  /\ file'[fd_client[u]] = Client(sock[u])
               /\ fd_server[u] # -1 => file'[fd_server[u]] \in Servers
               /\ pc'[u] \in {"connecting", "forward"} => fd_server[u] # -1
    <3>1. u \in Threads
      BY DEF Serving
    <3> QED
      BY <1>2, <1>4, <1>5, <3>1 DEF Owned
  <2> QED
    BY <1>4, <1>6, <2>1 DEF Owned
<1>9. file' \in [Fds -> Connections \cup {NONE}]
  BY <1>1, Kinds DEF Typed
<1> QED
  BY <1>7, <1>8, <1>9

LEMMA ConnectKept ==
  ASSUME PInv, NEW t \in Threads, Connect(t)
  PROVE  PInv'
<1> USE DEF PInv
<1>1. /\ pc[t] = "connecting" /\ ~exited /\ t \in Serving /\ fd_server[t] # -1
      /\ UNCHANGED <<argsp, arrived, args, lines, got, fd_client, fd_server, sock, buf, hostent,
                     mutex_log, stdio, logfile>>
  BY DEF Connect, At, Serving, Owned, mainvars, locals, logvars
<1>2. CASE exited' = TRUE /\ UNCHANGED <<file, mutex_sem, pc>>
  <2>1. Typed' /\ Handed' /\ Excluding'
    BY <1>1, <1>2 DEF Typed, Handed, Excluding
  <2>2. Owned'
    BY <1>1, <1>2 DEF Owned, Serving
  <2>3. Said'
    BY <1>1, <1>2 DEF Said, LoggedBeforeAnswered, Asking, Telling, Logged
  <2> QED
    BY <2>1, <2>2, <2>3
<1>3. CASE ~(exited' = TRUE /\ UNCHANGED <<file, mutex_sem, pc>>)
  <2>1. /\ file' = [file EXCEPT ![fd_server[t]] = Server(hostent)]
        /\ mutex_sem' = 1 /\ pc' = [pc EXCEPT ![t] = "forward"] /\ UNCHANGED exited
    BY <1>3 DEF Connect, Go
  <2>2. Server(hostent) \in Servers
    BY Kinds DEF Typed
  <2>3. Handed' /\ Owned' /\ file' \in [Fds -> Connections \cup {NONE}]
    BY <1>1, <2>1, <2>2, ServerKept
  <2>4. Typed'
    BY <1>1, <2>1, <2>3 DEF Typed, Places
  <2>5. pc'[t] = "forward" /\ \A u \in Threads : u # t => pc'[u] = pc[u] /\ pc[u] # "connecting"
    BY <1>1, <2>1 DEF Typed, Excluding
  <2>6. Said'
    <3>1. LoggedBeforeAnswered'
      BY <1>1 DEF Said, LoggedBeforeAnswered
    <3> QED
      BY <1>1, <2>5, <3>1 DEF Said, Asking, Telling, Logged
  <2>7. Excluding'
    BY <1>1, <2>1, <2>5 DEF Excluding
  <2> QED
    BY <2>3, <2>4, <2>6, <2>7
<1> QED
  BY <1>2, <1>3

LEMMA ExchangeKept ==
  ASSUME PInv, NEW t \in Threads, Exchange(t)
  PROVE  PInv'
<1> USE DEF PInv
<1>1. /\ pc[t] = "forward" /\ t \in Serving /\ fd_server[t] # -1
      /\ fd_server[t] \in Fds /\ file[fd_server[t]] \in Servers /\ sock[t] \in Clients
      /\ UNCHANGED <<exited, argsp, arrived, args, lines, got, fd_client, fd_server, sock, hostent,
                     mutex_sem, mutex_log, stdio, logfile>>
  BY DEF Exchange, At, Serving, Owned, Typed, mainvars, connvars, logvars
<1>2. PICK h \in Hosts : buf[t] = Request(h, sock[t])
  BY <1>1 DEF Said, Asking
<1>3. buf[t].client = sock[t] /\ buf[t].what = "request"
  BY <1>2 DEF Request
<1>4. CASE buf' = [buf EXCEPT ![t] = Answer(file[fd_server[t]].name, buf[t].client)]
           /\ pc' = [pc EXCEPT ![t] = "log"] /\ UNCHANGED file
  <2> DEFINE n == file[fd_server[t]].name
             m == Answer(n, sock[t])
  <2>1. n \in Names
    BY <1>1 DEF Servers
  <2>2. m \in Messages
    BY <1>1, <2>1 DEF Messages, Answers, Answer
  <2>3. buf' = [buf EXCEPT ![t] = m]
    BY <1>3, <1>4
  <2>4. Typed'
    BY <1>1, <1>4, <2>2, <2>3 DEF Typed, Places
  <2>5. Handed' /\ Owned'
    BY <1>1, <1>4, GoesOn DEF Places
  <2>6. \E x \in Names : m = Answer(x, sock[t])
    BY <2>1
  <2>7. Said' /\ Excluding'
    <3> HIDE DEF m
    <3> QED
      BY <1>1, <1>4, <2>2, <2>3, <2>6, SilentKept
  <2> QED
    BY <2>4, <2>5, <2>7
<1>5. CASE file' = [file EXCEPT ![fd_server[t]].peer = "closed"]
           /\ pc' = [pc EXCEPT ![t] = "reply"] /\ UNCHANGED buf
  <2> DEFINE s == [file[fd_server[t]] EXCEPT !.peer = "closed"]
  <2>1. s \in Servers
    BY <1>1, Kinds
  <2>2. file' = [file EXCEPT ![fd_server[t]] = s]
    BY <1>5
  <2>3. Handed' /\ Owned' /\ file' \in [Fds -> Connections \cup {NONE}]
    <3> HIDE DEF s
    <3> QED
      BY <1>1, <1>5, <2>1, <2>2, ServerKept
  <2>4. Typed'
    BY <1>1, <1>5, <2>3 DEF Typed, Places
  <2>5. buf' = [buf EXCEPT ![t] = buf[t]] /\ buf[t] \in Messages /\ Logged(sock[t], buf[t])
    BY <1>1, <1>2, <1>3, <1>5 DEF Typed, Logged, Messages, Requests, Request
  <2>6. Said' /\ Excluding'
    BY <1>1, <1>5, <2>5, SilentKept
  <2> QED
    BY <2>3, <2>4, <2>6
<1> QED
  BY <1>4, <1>5 DEF Exchange, Go

LEMMA LogGrows ==
  ASSUME NEW s \in Seq(Entries), NEW e \in Entries
  PROVE  /\ s \o <<e>> \in Seq(Entries)
         /\ \A x \in ToSet(s) : x \in ToSet(s \o <<e>>)
         /\ e \in ToSet(s \o <<e>>)
<1>1. Len(s) \in Nat /\ DOMAIN s = 1 .. Len(s)
  BY LenProperties
<1>2. <<e>> \in Seq(Entries) /\ Len(<<e>>) = 1 /\ <<e>>[1] = e
  OBVIOUS
<1>3. /\ s \o <<e>> \in Seq(Entries) /\ Len(s \o <<e>>) = Len(s) + 1
      /\ \A i \in 1 .. Len(s) : (s \o <<e>>)[i] = s[i]
      /\ (s \o <<e>>)[Len(s) + 1] = e
  BY <1>1, <1>2, ConcatProperties
<1>4. DOMAIN (s \o <<e>>) = 1 .. Len(s) + 1
  BY <1>3, LenProperties
<1> QED
  BY <1>1, <1>3, <1>4 DEF ToSet

LEMMA LogLineKept ==
  ASSUME PInv, NEW t \in Threads, LogLine(t)
  PROVE  PInv'
<1> USE DEF PInv
<1> DEFINE e == [addr |-> sock[t], line |-> buf[t]]
<1>1. /\ pc[t] = "log" /\ t \in Serving /\ sock[t] \in Clients /\ mutex_log = 1
      /\ mutex_log' = 0 /\ pc' = [pc EXCEPT ![t] = "flush"] /\ stdio' = Append(stdio, e)
      /\ UNCHANGED <<exited, argsp, arrived, args, file, lines, got, fd_client, fd_server, sock,
                     buf, hostent, mutex_sem, logfile>>
  BY DEF LogLine, At, Go, Serving, Owned, mainvars, locals, connvars
<1>2. stdio' = <<e>>
  BY <1>1 DEF Excluding
<1>3. e \in Entries
  <2>1. PICK h \in Names : buf[t] = Answer(h, sock[t])
    BY <1>1 DEF Said, Telling
  <2> QED
    BY <1>1, <2>1 DEF Answer, Answers, Entries
<1> HIDE DEF e
<1>4. Typed'
  <2>1. <<e>> \in Seq(Entries)
    BY <1>3
  <2> QED
    BY <1>1, <1>2, <2>1 DEF Typed, Places
<1>5. Handed' /\ Owned'
  BY <1>1, GoesOn DEF Places
<1>6. /\ pc'[t] = "flush"
      /\ \A u \in Threads : u # t => pc'[u] = pc[u] /\ pc[u] # "flush"
  BY <1>1 DEF Typed, Excluding
<1>7. Said'
  <2>1. LoggedBeforeAnswered'
    BY <1>1 DEF Said, LoggedBeforeAnswered
  <2>2. stdio' = <<[addr |-> sock'[t], line |-> buf'[t]]>>
    BY <1>1, <1>2 DEF e
  <2> QED
    BY <1>1, <1>6, <2>1, <2>2 DEF Said, Asking, Telling, Logged
<1>8. Excluding'
  BY <1>1, <1>6 DEF Excluding
<1> QED
  BY <1>4, <1>5, <1>7, <1>8

LEMMA FlushKept ==
  ASSUME PInv, NEW t \in Threads, Flush(t)
  PROVE  PInv'
<1> USE DEF PInv
<1> DEFINE e == [addr |-> sock[t], line |-> buf[t]]
<1>1. /\ pc[t] = "flush" /\ t \in Serving /\ sock[t] \in Clients
      /\ mutex_log' = 1 /\ pc' = [pc EXCEPT ![t] = "reply"]
      /\ logfile' = logfile \o stdio /\ stdio' = <<>>
      /\ UNCHANGED <<exited, argsp, arrived, args, file, lines, got, fd_client, fd_server, sock,
                     buf, hostent, mutex_sem>>
  BY DEF Flush, At, Go, Serving, Owned, mainvars, locals, connvars
<1>2. logfile' = logfile \o <<e>>
  BY <1>1 DEF Said
<1>3. PICK h \in Names : buf[t] = Answer(h, sock[t])
  BY <1>1 DEF Said, Telling
<1>4. e \in Entries /\ buf[t].client = sock[t]
  BY <1>1, <1>3 DEF Answer, Answers, Entries
<1>11. buf[t] \in Messages
  BY <1>1, <1>3 DEF Answer, Answers, Messages
<1> HIDE DEF e
<1>5. /\ logfile' \in Seq(Entries) /\ e \in ToSet(logfile')
      /\ \A x \in ToSet(logfile) : x \in ToSet(logfile')
  BY <1>2, <1>4, LogGrows DEF Typed
<1>6. Typed'
  BY <1>1, <1>5 DEF Typed, Places
<1>7. Handed' /\ Owned'
  BY <1>1, GoesOn DEF Places
<1>8. /\ pc'[t] = "reply"
      /\ \A u \in Threads : u # t => pc'[u] = pc[u] /\ pc[u] # "flush"
  BY <1>1 DEF Typed, Excluding
<1>9. Said'
  <2>1. LoggedBeforeAnswered'
    BY <1>1, <1>5 DEF Said, LoggedBeforeAnswered
  <2>2. Logged(sock[t], buf[t])'
    BY <1>1, <1>4, <1>5 DEF Logged, e
  <2>3. \A u \in Threads : pc[u] = "reply" => Logged(sock[u], buf[u])'
    BY <1>1, <1>5 DEF Said, Logged
  <2> QED
    BY <1>1, <1>8, <1>11, <2>1, <2>2, <2>3 DEF Said, Asking, Telling
<1>10. Excluding'
  BY <1>1, <1>8 DEF Excluding
<1> QED
  BY <1>6, <1>7, <1>9, <1>10

LEMMA ReplyKept ==
  ASSUME PInv, NEW t \in Threads, Reply(t)
  PROVE  PInv'
<1> USE DEF PInv
<1>1. /\ pc[t] = "reply" /\ t \in Serving /\ sock[t] \in Clients
      /\ file[fd_client[t]].name = sock[t]
  BY Kinds DEF Reply, At, Serving, Owned
<1>2. /\ got' = [got EXCEPT ![sock[t]] = got[sock[t]] \cup {buf[t]}]
      /\ pc' = [pc EXCEPT ![t] = "read"]
      /\ UNCHANGED <<exited, argsp, arrived, args, file, lines, fd_client, fd_server, sock,
                     buf, hostent, mutex_sem, mutex_log, stdio, logfile>>
  BY <1>1 DEF Reply, Go, mainvars, locals, connvars, logvars
<1>3. buf[t] \in Messages /\ Logged(sock[t], buf[t])
  BY <1>1 DEF Said
<1>4. Typed'
  BY <1>1, <1>2, <1>3 DEF Typed, Places
<1>5. Handed' /\ Owned'
  BY <1>1, <1>2, GoesOn DEF Places
<1>6. pc'[t] = "read" /\ \A u \in Threads : u # t => pc'[u] = pc[u]
  BY <1>2 DEF Typed
<1>7. Said'
  <2>1. \A c \in Clients : \A m \in got'[c] : Logged(c, m)
    <3>1. \A c \in Clients : \A m \in got[c] : Logged(c, m)
      BY DEF Said, LoggedBeforeAnswered, Logged
    <3>2. \A c \in Clients : got'[c] = IF c = sock[t] THEN got[c] \cup {buf[t]} ELSE got[c]
      BY <1>1, <1>2 DEF Typed
    <3> QED
      BY <1>3, <3>1, <3>2
  <2>2. LoggedBeforeAnswered'
    BY <1>2, <2>1 DEF LoggedBeforeAnswered, Logged
  <2> QED
    BY <1>2, <1>6, <2>2 DEF Said, Asking, Telling, Logged
<1>8. Excluding'
  BY <1>1, <1>2, <1>6 DEF Excluding
<1> QED
  BY <1>4, <1>5, <1>7, <1>8

LEMMA FinishKept ==
  ASSUME PInv, NEW t \in Threads, Finish(t)
  PROVE  PInv'
<1> USE DEF PInv
<1> DEFINE Mine == {fd_client[t], fd_server[t]}
<1>1. /\ pc[t] = "read" /\ t \in Serving /\ pc' = [pc EXCEPT ![t] = "done"]
      /\ UNCHANGED <<exited, argsp, arrived, args, lines, got, fd_client, fd_server, sock,
                     buf, hostent, mutex_sem, mutex_log, stdio, logfile>>
  BY DEF Finish, At, Go, Serving, mainvars, locals, connvars, logvars
<1>2. pc'[t] = "done" /\ \A u \in Threads : u # t => pc'[u] = pc[u]
  BY <1>1 DEF Typed
<1>3. file' \in [Fds -> Connections \cup {NONE}]
  BY DEF Finish, Typed
<1>4. Typed'
  BY <1>1, <1>3 DEF Typed, Places
<1>5. ASSUME fd_server[t] = -1 PROVE Handed' /\ Owned'
  <2>1. UNCHANGED file
    BY <1>5 DEF Finish
  <2> QED
    BY <1>1, <2>1, GoesOn DEF Places
<1>6. ASSUME fd_server[t] # -1 PROVE Handed' /\ Owned'
  <2>1. \A g \in Fds : g \notin Mine => file'[g] = file[g]
    BY <1>6 DEF Finish
  <2>2. \A k \in Structs : args[k] # NONE => args[k].fd \in Fds /\ args[k].fd \notin Mine
    BY <1>1 DEF Typed, Owned, Arguments
  <2>3. \A u \in Serving' : u \in Serving /\ u # t /\ u \in Threads /\ pc'[u] = pc[u]
    BY <1>2 DEF Serving
  <2>4. Handed'
    BY <1>1, <1>2, <2>1, <2>2 DEF Handed
  <2>5. \A u \in Serving' :
          /\ fd_client[u] \in Fds /\ fd_client[u] \notin Mine
          /\ fd_server[u] # -1 => fd_server[u] \in Fds /\ fd_server[u] \notin Mine
    BY <1>1, <2>3 DEF Owned, Typed
  <2> HIDE DEF Mine
  <2>6. \A u \in Serving' : file'[fd_client[u]] = file[fd_client[u]]
                            /\ (fd_server[u] # -1 => file'[fd_server[u]] = file[fd_server[u]])
    BY <2>1, <2>5
  <2>7. Owned'
    BY <1>1, <2>3, <2>6 DEF Owned
  <2> QED
    BY <2>4, <2>7
<1>7. Said' /\ Excluding'
  <2>1. LoggedBeforeAnswered'
    BY <1>1 DEF Said, LoggedBeforeAnswered
  <2>2. Said'
    BY <1>1, <1>2, <2>1 DEF Said, Asking, Telling, Logged
  <2> QED
    BY <1>1, <1>2, <2>2 DEF Excluding
<1> QED
  BY <1>4, <1>5, <1>6, <1>7

-----------------------------------------------------------------------------
LEMMA NextPInv == PInv /\ [Next]_xvars => PInv'
<1> SUFFICES ASSUME PInv, [Next]_xvars PROVE PInv'
  OBVIOUS
<1>1. ASSUME NEW c \in Clients, NEW k \in Structs, Accept(c, k) PROVE PInv'
  BY <1>1, AcceptKept
<1>2. ASSUME NEW t \in Threads, Create(t) PROVE PInv'
  BY <1>2, CreateKept
<1>3. ASSUME NEW t \in Threads, Thread(t) PROVE PInv'
  BY <1>3, StartKept, ReadKept, ResolveKept, ConnectKept, ExchangeKept, LogLineKept,
     FlushKept, ReplyKept, FinishKept DEF Thread
<1>4. CASE UNCHANGED xvars
  <2> USE <1>4 DEF xvars, mainvars, locals, connvars, logvars
  <2>1. Typed' /\ Handed' /\ Excluding'
    BY DEF PInv, Typed, Handed, Excluding
  <2>2. Owned'
    BY DEF PInv, Owned, Serving
  <2>3. Said'
    BY DEF PInv, Said, LoggedBeforeAnswered, Asking, Telling, Logged
  <2> QED
    BY <2>1, <2>2, <2>3 DEF PInv
<1> QED
  BY <1>1, <1>2, <1>3, <1>4 DEF Next

LEMMA OneInside ==
  ASSUME PInv
  PROVE  TypeOK
<1>1. ASSUME NEW where \in {"connecting", "flush"}, NEW m \in {0, 1},
             \A t, u \in Threads : pc[t] = where /\ pc[u] = where => t = u,
             m = 0 <=> \E t \in Threads : pc[t] = where
      PROVE  m + Cardinality(Holding(where)) = 1
  <2>1. CASE m = 0
    <3>1. PICK t \in Threads : pc[t] = where
      BY <1>1, <2>1
    <3>2. Holding(where) = {t}
      BY <1>1, <3>1 DEF Holding
    <3>3. Cardinality(Holding(where)) = 1
      BY <3>2, FS_Singleton
    <3> QED
      BY <2>1, <3>3
  <2>2. CASE m = 1
    <3>1. Holding(where) = {}
      BY <1>1, <2>2 DEF Holding
    <3> QED
      BY <2>2, <3>1, FS_EmptySet
  <2> QED
    BY <2>1, <2>2
<1>2. ~exited => mutex_sem + Cardinality(Holding("connecting")) = 1
  BY <1>1 DEF PInv, Excluding, Typed
<1>3. mutex_log + Cardinality(Holding("flush")) = 1
  BY <1>1 DEF PInv, Excluding, Typed
<1>4. Len(stdio) = 1 - mutex_log
  <2>1. CASE mutex_log = 1
    BY <2>1 DEF PInv, Excluding
  <2>2. CASE mutex_log = 0
    <3>1. PICK t \in Threads : pc[t] = "flush"
      BY <2>2 DEF PInv, Excluding
    <3>2. stdio = <<[addr |-> sock[t], line |-> buf[t]]>>
      BY <3>1 DEF PInv, Said
    <3> QED
      BY <2>2, <3>2
  <2> QED
    BY <2>1, <2>2 DEF PInv, Typed
<1> QED
  BY <1>2, <1>3, <1>4 DEF PInv, Typed, Places, TypeOK

LEMMA OwnedOnly ==
  ASSUME PInv
  PROVE  DescriptorsOwned
<1>1. ASSUME NEW t \in Serving
      PROVE  /\ file[fd_client[t]] = Client(sock[t])
             /\ fd_server[t] # -1 => file[fd_server[t]].peer \in {"server", "closed"}
  BY DEF PInv, Owned, Servers
<1>2. ASSUME NEW t \in Serving, NEW u \in Serving, t # u
      PROVE  {fd_client[t], fd_server[t]} \cap {fd_client[u], fd_server[u]} \subseteq {-1}
  BY <1>2 DEF PInv, Owned
<1> QED
  BY <1>1, <1>2 DEF DescriptorsOwned

\* Every reachable state of the proxy is type-correct; each semaphore is 0 just
\* when one thread is between P and V, and the log's buffer holds the line of
\* that thread (P and V of open_clientfd_ts and print_log).
THEOREM ProxyTypeCorrect == Spec => []TypeOK
BY InitPInv, NextPInv, OneInside, PTL DEF Spec

\* Whatever the order in which main accepts, threads start and descriptors are
\* used again, a thread serves its own connection, and no descriptor is used by
\* two threads (main, process_request).
THEOREM OwnDescriptors == Spec => []DescriptorsOwned
BY InitPInv, NextPInv, OwnedOnly, PTL DEF Spec

\* An answer that a client has received is in the log file, under the client's
\* address, and answers a request of this client (print_log, process_request).
THEOREM AnswersLogged == Spec => []LoggedBeforeAnswered
<1>1. PInv => LoggedBeforeAnswered
  BY DEF PInv, Said
<1> QED
  BY <1>1, InitPInv, NextPInv, PTL DEF Spec

\* A thread connects to the host that its client named, although the address
\* comes from memory that all threads share (open_clientfd_ts).
THEOREM OwnHost == Spec => ConnectsToOwnHost
<1> DEFINE A == \A t \in Threads :
                  Connect(t) /\ ~exited' => file'[fd_server[t]] = Server(buf[t].host)
<1>1. ASSUME PInv, NEW t \in Threads, Connect(t), ~exited'
      PROVE  file'[fd_server[t]] = Server(buf[t].host)
  <2>1. /\ pc[t] = "connecting" /\ ~exited /\ t \in Serving
        /\ file' = [file EXCEPT ![fd_server[t]] = Server(hostent)]
    BY <1>1 DEF Connect, At, Serving
  <2>2. fd_server[t] \in Fds /\ buf[t].host = hostent
    BY <1>1, <2>1 DEF PInv, Owned, Typed, Said
  <2> QED
    BY <1>1, <2>1, <2>2 DEF PInv, Typed
<1>2. PInv /\ [Next]_xvars => [A]_xvars
  BY <1>1
<1> HIDE DEF A
<1>3. Spec => [][A]_xvars
  BY <1>2, InitPInv, NextPInv, PTL DEF Spec
<1> QED
  BY <1>3 DEF ConnectsToOwnHost, A
=============================================================================
