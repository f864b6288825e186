------------------------------- MODULE Proxy -------------------------------
(***************************************************************************)
(* proxylab/proxy.c: main accepts connections and starts a thread for      *)
(* each; a thread forwards its client's requests "host port content" to    *)
(* the server that the first of them names, logs the answers and sends     *)
(* them back.  The threads share the table of descriptors, the result of   *)
(* gethostbyname (static in libc), the log and the life of the process.    *)
(*                                                                         *)
(* Steps are split where another thread can see or change what is shared.  *)
(***************************************************************************)
EXTENDS Integers, Sequences, SequencesExt, FiniteSets

CONSTANTS
  Clients,   \* the connections that clients make, in their order
  Hosts,     \* the servers they name
  Fds,       \* descriptors that are free when main starts to accept
  MaxLines,  \* lines that the clients send, in all (bound)
  Refused,   \* may a server refuse or be unknown?
  NONE

Structs == Clients   \* memory for an argument of each thread
Threads == Clients   \* the threads, in the order of their creation

\* What a descriptor is connected to, and what main hands to a thread.
Connections == [peer : {"client", "server", "closed"}, name : Clients \cup Hosts \cup {NONE}]
Arguments   == [fd : Fds, addr : Clients]

ASSUME ProxyAssumption ==
  /\ Clients \subseteq Nat /\ Fds \subseteq Nat
  /\ MaxLines \in Nat /\ Refused \in BOOLEAN
  /\ NONE \notin Clients /\ NONE \notin Connections /\ NONE \notin Arguments

VARIABLES
  exited,     \* an error wrapper of csapp.c has ended the process
  argsp,      \* main: the struct that Accept has filled, or NONE
  args,       \* the argument structs in memory: [fd, addr], NONE when free
  file,       \* what each open descriptor is connected to
  arrived,    \* the clients that have been accepted
  lines,      \* how many lines the clients have sent
  got,        \* what a client has received
  pc,         \* where a thread is
  fd_client, fd_server, sock, buf,   \* its locals
  hostent,    \* libc's static result of gethostbyname
  mutex_sem, mutex_log,
  stdio, logfile   \* file_log: what its buffer and the file hold

mainvars == <<argsp, arrived>>
locals   == <<fd_client, fd_server, sock, buf>>
logvars  == <<mutex_log, stdio, logfile>>
connvars == <<hostent, mutex_sem>>
xvars == <<exited, mainvars, args, file, lines, got, pc, locals, connvars, logvars>>

Client(c)  == [peer |-> "client", name |-> c]
Server(h)  == [peer |-> "server", name |-> h]
Request(h, c) == [what |-> "request", host |-> h, client |-> c]
Answer(h, c)  == [what |-> "answer", host |-> h, client |-> c]
Warning       == [what |-> "warning"]

FreeFds == {f \in Fds : file[f] = NONE}
Lowest == CHOOSE f \in FreeFds : \A g \in FreeFds : f <= g

Init ==
  /\ exited = FALSE /\ argsp = NONE /\ arrived = {}
  /\ args = [k \in Structs |-> NONE]
  /\ file = [f \in Fds |-> NONE]
  /\ lines = 0 /\ got = [c \in Clients |-> {}]
  /\ pc = [t \in Threads |-> "none"]
  /\ fd_client = [t \in Threads |-> -1] /\ fd_server = [t \in Threads |-> -1]
  /\ sock = [t \in Threads |-> NONE] /\ buf = [t \in Threads |-> NONE]
  /\ hostent = NONE /\ mutex_sem = 1
  /\ mutex_log = 1 /\ stdio = <<>> /\ logfile = <<>>

Go(t, where) == pc' = [pc EXCEPT ![t] = where]
At(t, where) == ~exited /\ pc[t] = where

-----------------------------------------------------------------------------
(* main.                                                                   *)

\* Malloc, and Accept of a connection of c, which gets the lowest descriptor;
\* with none free accept fails, and the wrapper ends the process.
Accept(c, k) ==
  /\ ~exited /\ argsp = NONE /\ c \notin arrived
  /\ \A d \in Clients : d < c => d \in arrived
  /\ args[k] = NONE
  /\ IF FreeFds = {}
       THEN exited' = TRUE /\ UNCHANGED <<args, file, argsp, arrived>>
       ELSE /\ file' = [file EXCEPT ![Lowest] = Client(c)]
            /\ args' = [args EXCEPT ![k] = [fd |-> Lowest, addr |-> c]]
            /\ argsp' = k
            /\ arrived' = arrived \cup {c}
            /\ UNCHANGED exited
  /\ UNCHANGED <<lines, got, pc, locals, connvars, logvars>>

\* The new thread will find its argument at argsp.
Create(t) ==
  /\ ~exited /\ argsp # NONE /\ pc[t] = "none"
  /\ \A u \in Threads : u < t => pc[u] # "none"
  /\ Go(t, "start")
  /\ sock' = [sock EXCEPT ![t] = argsp]   \* vargs, until it is read
  /\ argsp' = NONE
  /\ UNCHANGED <<exited, args, file, arrived, lines, got, fd_client, fd_server, buf,
                 connvars, logvars>>

-----------------------------------------------------------------------------
(* process_request.                                                        *)

\* The argument is copied and freed.
Start(t) ==
  LET k == sock[t]
  IN /\ At(t, "start")
     /\ fd_client' = [fd_client EXCEPT ![t] = args[k].fd]
     /\ sock' = [sock EXCEPT ![t] = args[k].addr]
     /\ args' = [args EXCEPT ![k] = NONE]
     /\ Go(t, "read")
     /\ UNCHANGED <<exited, mainvars, file, lines, got, fd_server, buf, connvars, logvars>>

\* Rio_readlineb_w has read a line from the client.
ReadLine(t) == /\ At(t, "read") /\ lines < MaxLines
               /\ lines' = lines + 1
               /\ UNCHANGED <<exited, mainvars, args, got, fd_client, fd_server, sock,
                              connvars, logvars>>

\* A request for host h; only the first one makes the thread connect.
ReadRequest(t, h) ==
  /\ ReadLine(t)
  /\ buf' = [buf EXCEPT ![t] = Request(h, file[fd_client[t]].name)]
  /\ Go(t, IF fd_server[t] = -1 THEN "connect" ELSE "forward")
  /\ UNCHANGED file

\* Mutant of ReadShort: the client is closed, as the lines do that are
\* commented out.
ReadShortClosing(t) ==
  /\ ReadLine(t)
  /\ buf' = [buf EXCEPT ![t] = Warning]
  /\ file' = [file EXCEPT ![fd_client[t]] = NONE]
  /\ Go(t, "reply")

\* A line of fewer than three words is answered with a warning.
ReadShort(t) ==
  /\ ReadLine(t)
  /\ buf' = [buf EXCEPT ![t] = Warning]
  /\ Go(t, "reply")
  /\ UNCHANGED file

\* open_clientfd_ts takes the semaphore; open_clientfd makes a socket and asks
\* for the address.
ResolveLocked(t) ==
  /\ At(t, "connect")
  /\ IF FreeFds = {}
       THEN exited' = TRUE /\ UNCHANGED <<pc, file, fd_server, hostent>>
       ELSE \/ /\ hostent' = buf[t].host
               /\ file' = [file EXCEPT ![Lowest] = Server(NONE)]
               /\ fd_server' = [fd_server EXCEPT ![t] = Lowest]
               /\ Go(t, "connecting")
               /\ UNCHANGED exited
            \/ Refused /\ exited' = TRUE /\ UNCHANGED <<pc, file, fd_server, hostent>>
  /\ UNCHANGED <<mainvars, args, lines, got, fd_client, sock, buf, logvars>>

\* Mutant of Resolve: open_clientfd is called without the semaphore.
ResolveUnlocked(t) == ResolveLocked(t) /\ UNCHANGED mutex_sem

Resolve(t) == mutex_sem = 1 /\ mutex_sem' = 0 /\ ResolveLocked(t)

\* connect to the address in libc's static memory; V.
Connect(t) ==
  /\ At(t, "connecting")
  /\ \/ /\ file' = [file EXCEPT ![fd_server[t]] = Server(hostent)]
        /\ mutex_sem' = 1
        /\ Go(t, "forward")
        /\ UNCHANGED exited
     \/ Refused /\ exited' = TRUE /\ UNCHANGED <<file, mutex_sem, pc>>
  /\ UNCHANGED <<mainvars, args, lines, got, locals, hostent, logvars>>

\* The line goes to the server, which answers, or closes the connection: then
\* buf still holds the request, and that is sent back.
Exchange(t) ==
  /\ At(t, "forward")
  /\ \/ /\ file[fd_server[t]].peer = "server"
        /\ buf' = [buf EXCEPT ![t] = Answer(file[fd_server[t]].name, @.client)]
        /\ Go(t, "log")
        /\ UNCHANGED file
     \/ /\ file' = [file EXCEPT ![fd_server[t]].peer = "closed"]
        /\ Go(t, "reply")
        /\ UNCHANGED buf
  /\ UNCHANGED <<exited, mainvars, args, lines, got, fd_client, fd_server, sock,
                 connvars, logvars>>

\* deal_log_format and, in print_log, P and fprintf.
LogLine(t) ==
  /\ At(t, "log")
  /\ mutex_log = 1 /\ mutex_log' = 0
  /\ stdio' = Append(stdio, [addr |-> sock[t], line |-> buf[t]])
  /\ Go(t, "flush")
  /\ UNCHANGED <<exited, mainvars, args, file, lines, got, locals, connvars, logfile>>

\* Mutant of Flush: the semaphore is not given back.
FlushKeeping(t) ==
  /\ At(t, "flush")
  /\ logfile' = logfile \o stdio
  /\ stdio' = <<>>
  /\ Go(t, "reply")
  /\ UNCHANGED <<exited, mainvars, args, file, lines, got, locals, connvars, mutex_log>>

\* Mutant of Flush: the line stays in stdio's buffer.
FlushNothing(t) ==
  /\ At(t, "flush")
  /\ mutex_log' = 1
  /\ Go(t, "reply")
  /\ UNCHANGED <<exited, mainvars, args, file, lines, got, locals, connvars, stdio, logfile>>

\* fflush and V.
Flush(t) ==
  /\ At(t, "flush")
  /\ logfile' = logfile \o stdio
  /\ stdio' = <<>>
  /\ mutex_log' = 1
  /\ Go(t, "reply")
  /\ UNCHANGED <<exited, mainvars, args, file, lines, got, locals, connvars>>

\* What buf holds, or a warning, goes to the client.
Reply(t) ==
  LET c == file[fd_client[t]].name
  IN /\ At(t, "reply")
     /\ got' = [got EXCEPT ![c] = @ \cup {buf[t]}]
     /\ Go(t, "read")
     /\ UNCHANGED <<exited, mainvars, args, file, lines, locals, connvars, logvars>>

\* The client closes.  The descriptors are closed if there is a server.
Finish(t) ==
  /\ At(t, "read")
  /\ file' = IF fd_server[t] = -1 THEN file
             ELSE [f \in Fds |-> IF f \in {fd_client[t], fd_server[t]} THEN NONE
                                 ELSE file[f]]
  /\ Go(t, "done")
  /\ UNCHANGED <<exited, mainvars, args, lines, got, locals, connvars, logvars>>

Thread(t) == \/ Start(t) \/ ReadShort(t) \/ Resolve(t) \/ Connect(t) \/ Exchange(t)
             \/ LogLine(t) \/ Flush(t) \/ Reply(t) \/ Finish(t)
             \/ \E h \in Hosts : ReadRequest(t, h)

Next == \/ \E c \in Clients, k \in Structs : Accept(c, k)
        \/ \E t \in Threads : Create(t) \/ Thread(t)

Spec == Init /\ [][Next]_xvars

\* The threads run, connect ends, and servers answer or close.  A semaphore is
\* taken a bounded number of times, so that weak fairness lets everybody in.
Works(t) == \/ Resolve(t) \/ Connect(t) \/ Exchange(t)
            \/ LogLine(t) \/ Flush(t) \/ Reply(t)

FairSpec == Spec /\ \A t \in Threads : WF_xvars(Works(t))

-----------------------------------------------------------------------------
Serving == {t \in Threads : pc[t] \notin {"none", "start", "done"}}
Holding(where) == {t \in Threads : pc[t] = where}

\* The semaphores are held by the thread that is inside, and stdio holds a
\* line of the thread inside only.
TypeOK ==
  /\ exited \in BOOLEAN /\ arrived \subseteq Clients
  /\ pc \in [Threads -> {"none", "start", "read", "connect", "connecting", "forward",
                         "log", "flush", "reply", "done"}]
  /\ lines \in 0 .. MaxLines
  /\ ~exited => mutex_sem + Cardinality(Holding("connecting")) = 1
  /\ mutex_log + Cardinality(Holding("flush")) = 1
  /\ Len(stdio) = 1 - mutex_log

\* A thread serves the connection that it was created for, which stays open
\* under its descriptor as long as the thread uses it, and no two threads use
\* the same descriptor, although main goes on accepting before the new thread
\* has read its argument and descriptors are used again at once.
DescriptorsOwned ==
  /\ \A t \in Serving :
       /\ file[fd_client[t]] = Client(sock[t])
       /\ fd_server[t] # -1 => file[fd_server[t]].peer \in {"server", "closed"}
  /\ \A t, u \in Serving :
       t # u => {fd_client[t], fd_server[t]} \cap {fd_client[u], fd_server[u]} \subseteq {-1}

\* A thread connects to the host that its own client named, although
\* gethostbyname answers in memory that all threads share.
ConnectsToOwnHost ==
  [][\A t \in Threads :
       Connect(t) /\ ~exited' => file'[fd_server[t]] = Server(buf[t].host)]_xvars

\* When a client has received an answer, the log file holds it under the
\* client's address, also if the process ends now; and the answer is one to
\* the client's own request.
LoggedBeforeAnswered ==
  \A c \in Clients : \A m \in got[c] :
    m.what = "answer" => /\ m.client = c
                         /\ [addr |-> c, line |-> m] \in ToSet(logfile)

\* Every request is answered, unless the process has ended: no thread waits
\* for ever for a semaphore.
RequestsAnswered ==
  \A t \in Threads : pc[t] \in {"connect", "forward"} ~> pc[t] = "read" \/ exited
=============================================================================
