-------------------------------- MODULE Echo --------------------------------
(***************************************************************************)
(* The echo server of proxylab (echoservert.c and echo.c: a thread per     *)
(* connection sends each line back in upper case) and its clients          *)
(* (echoclient.c), which send lines of their standard input and wait for   *)
(* the echo of each.  Both read and write with module Rio; any of them may *)
(* be killed, and an error ends the process it happens in.                 *)
(*                                                                         *)
(* What a socket holds has no limit here: write(2) does not block.         *)
(***************************************************************************)
EXTENDS Rio

CONSTANTS
  Conns,     \* the clients, each with its connection
  Letters,   \* the bytes of lines, in lower case, but for newlines and NULs
  MaxInput,  \* the longest standard input (bound)
  MAXLINE,   \* the size of the buffers, 8192 in the code
  Faults     \* may reads and main's calls fail, and clients be killed?

Upper == [b \in Letters \cup {"\n"} |-> IF b = "\n" THEN b ELSE "upper " \o b]

ASSUME EchoAssumption ==
  /\ Ends = Conns \X {"client", "server"}
  /\ Letters \subseteq Bytes \ {"\n", "NUL"}
  /\ \A b \in Letters : Upper[b] \in Bytes \ {"\n", "NUL"}
  /\ MAXLINE \in Nat /\ MAXLINE > 1 /\ MaxInput \in Nat /\ Faults \in BOOLEAN

VARIABLES
  up,      \* does the server process run?
  thread,  \* the server's side of a connection: "none", "backlog" until main
           \* accepts it, "echo" in its thread, then "done"
  client,  \* a client: "start", "prompt", "send", "receive" or "done"
  stdin,   \* what is left of its input
  line,    \* the string in its buf when Fgets has filled it
  shown    \* what it has printed after "echo:", for the last line

echovars == <<riovars, up, thread, client, stdin, line, shown>>
ends     == <<file, eof, rio, stream, taken>>

Near(c) == <<c, "client">>
Far(c)  == <<c, "server">>
Peer(e) == <<e[1], IF e[2] = "client" THEN "server" ELSE "client">>

Init == /\ RioInit
        /\ up = TRUE
        /\ thread = [c \in Conns |-> "none"] /\ client = [c \in Conns |-> "start"]
        /\ stdin \in [Conns -> BoundedSeq(Letters \cup {"\n", "NUL"}, MaxInput)]
        /\ line = [c \in Conns |-> <<>>] /\ shown = [c \in Conns |-> <<>>]

UpperCase(s) == [i \in DOMAIN s |-> IF s[i] \in DOMAIN Upper THEN Upper[s[i]] ELSE s[i]]

\* The bytes of a buffer before its first NUL.
CString(s) == LET nul == SelectInSeq(s, LAMBDA b : b = "NUL")
              IN IF nul = 0 THEN s ELSE SubSeq(s, 1, nul - 1)

\* upper_case stops at a NUL.
upper_case(s) == UpperCase(CString(s)) \o SubSeq(s, Len(CString(s)) + 1, Len(s))

\* Close, or the end of a process, of the ends in E.
Closing(E) == eof' = [e \in Ends |-> eof[e] \/ Peer(e) \in E]

Open(e) == IF e[2] = "client" THEN client[e[1]] \notin {"start", "done"}
                              ELSE up /\ thread[e[1]] = "echo"

\* An error wrapper or a signal ends the server, with all its threads.
ServerEnds == /\ up' = FALSE
              /\ Closing({Far(c) : c \in Conns})
              /\ UNCHANGED <<file, rio, call, stream, taken, thread, client, stdin, line, shown>>

ClientEnds(c) == /\ client' = [client EXCEPT ![c] = "done"]
                 /\ Closing({Near(c)})
                 /\ UNCHANGED <<file, rio, call, stream, taken, up, thread, stdin, line, shown>>

-----------------------------------------------------------------------------
(* echoservert.c and echo.c.                                               *)

\* open_clientfd: the client goes on, whether main has accepted it or not.
Connect(c) == /\ client[c] = "start" /\ up
              /\ client' = [client EXCEPT ![c] = "prompt"]
              /\ thread' = [thread EXCEPT ![c] = "backlog"]
              /\ UNCHANGED <<riovars, up, stdin, line, shown>>

\* One turn of main's loop: Accept, Gethostbyaddr and Pthread_create.
Accept(c) == /\ up /\ thread[c] = "backlog"
             /\ thread' = [thread EXCEPT ![c] = "echo"]
             /\ UNCHANGED <<riovars, up, client, stdin, line, shown>>

\* One of these calls fails, for any client, one that is not modelled included.
MainFails == up /\ Faults /\ ServerEnds

\* There is no server, or a call of open_clientfd fails: the client ends.
Refused(c) == client[c] = "start" /\ (~up \/ Faults) /\ ClientEnds(c)

Serving(c) == up /\ thread[c] = "echo"

EchoRead(c) == /\ Serving(c)
               /\ Read(Far(c), "line", MAXLINE)
               /\ UNCHANGED <<up, thread, client, stdin, line, shown>>

\* The buffer with the NUL that rio_readlineb puts behind the line.
Buffer(e) == Append(call[e].usrbuf, "NUL")

\* A line is sent back, as many bytes as rio_readlineb has returned.
EchoLine(c) ==
  LET r == call[Far(c)]
  IN /\ Serving(c)
     /\ r.pc = "returned" /\ r.ret > 0
     /\ call' = [call EXCEPT ![Far(c)] =
                   [NoCall EXCEPT !.pc = "write",
                                  !.out = SubSeq(upper_case(Buffer(Far(c))), 1, r.ret)]]
     /\ UNCHANGED <<ends, up, thread, client, stdin, line, shown>>

\* The client has closed: Close, and the thread ends.
EchoEnds(c) ==
  /\ Serving(c)
  /\ call[Far(c)].pc = "returned" /\ call[Far(c)].ret = 0
  /\ thread' = [thread EXCEPT ![c] = "done"]
  /\ Closing({Far(c)})
  /\ UNCHANGED <<file, rio, call, stream, taken, up, client, stdin, line, shown>>

\* Rio_readlineb: an error ends the process.
EchoFails(c) == Serving(c) /\ call[Far(c)].ret = -1 /\ ServerEnds

-----------------------------------------------------------------------------
(* echoclient.c.                                                           *)

\* Fgets: up to a newline, or as much as fits.
NextLine(s) ==
  LET nl == SelectInSeq(s, LAMBDA b : b = "\n")
      whole == IF nl = 0 THEN Len(s) ELSE nl
  IN SubSeq(s, 1, IF whole < MAXLINE THEN whole ELSE MAXLINE - 1)

\* Rio_writen of strlen(buf) bytes: what follows a NUL is not sent.
Prompt(c) ==
  LET l == NextLine(stdin[c])
  IN /\ client[c] = "prompt" /\ stdin[c] # <<>>
     /\ stdin' = [stdin EXCEPT ![c] = SubSeq(@, Len(l) + 1, Len(@))]
     /\ line' = [line EXCEPT ![c] = CString(l)]
     /\ call' = [call EXCEPT ![Near(c)] = [NoCall EXCEPT !.pc = "write", !.out = CString(l)]]
     /\ client' = [client EXCEPT ![c] = "send"]
     /\ UNCHANGED <<ends, up, thread, shown>>

\* The input ends: Close and exit.
ClientCloses(c) == client[c] = "prompt" /\ stdin[c] = <<>> /\ ClientEnds(c)

Sent(c) == /\ client[c] = "send" /\ Idle(Near(c))
           /\ Read(Near(c), "line", MAXLINE)
           /\ client' = [client EXCEPT ![c] = "receive"]
           /\ UNCHANGED <<up, thread, stdin, line, shown>>

\* Fputs of buf, which rio_readlineb leaves alone when the server has closed.
Show(c) ==
  LET r == call[Near(c)]
  IN /\ client[c] = "receive" /\ r.pc = "returned" /\ r.ret >= 0
     /\ shown' = [shown EXCEPT ![c] = IF r.ret = 0 THEN line[c]
                                      ELSE CString(Buffer(Near(c)))]
     /\ call' = [call EXCEPT ![Near(c)] = NoCall]
     /\ client' = [client EXCEPT ![c] = "prompt"]
     /\ UNCHANGED <<ends, up, thread, stdin, line>>

ClientFails(c) == client[c] = "receive" /\ call[Near(c)].ret = -1 /\ ClientEnds(c)

-----------------------------------------------------------------------------
(* Both sides.                                                             *)

Transfer(e) == /\ Open(e)
               /\ ReadStep(e) \/ (Write(e, Peer(e)) /\ ~eof[e])
               /\ UNCHANGED <<up, thread, client, stdin, line, shown>>

ReadError(e) == /\ Open(e) /\ Faults
                /\ ReadFails(e)
                /\ UNCHANGED <<up, thread, client, stdin, line, shown>>

WriteEnds(e) == /\ Open(e) /\ call[e].pc = "write" /\ call[e].out = <<>>
                /\ call' = [call EXCEPT ![e] = NoCall]
                /\ UNCHANGED <<ends, up, thread, client, stdin, line, shown>>

\* A write when the other side is gone is lost, or ends the process (SIGPIPE,
\* or the error wrapper).
WriteLost(e) == /\ Open(e) /\ call[e].pc = "write" /\ call[e].out # <<>> /\ eof[e]
                /\ call' = [call EXCEPT ![e].out = <<>>]
                /\ UNCHANGED <<ends, up, thread, client, stdin, line, shown>>

WriteKills(e) == /\ Open(e) /\ call[e].pc = "write" /\ call[e].out # <<>> /\ eof[e]
                 /\ IF e[2] = "server" THEN ServerEnds ELSE ClientEnds(e[1])

\* A client is killed by its user.
Kill(c) == Faults /\ client[c] \notin {"start", "done"} /\ ClientEnds(c)

Next == \/ \E c \in Conns : \/ Connect(c) \/ Accept(c) \/ Refused(c)
                            \/ EchoRead(c) \/ EchoLine(c) \/ EchoEnds(c) \/ EchoFails(c)
                            \/ Prompt(c) \/ ClientCloses(c) \/ Sent(c) \/ Show(c)
                            \/ ClientFails(c) \/ Kill(c)
        \/ \E e \in Ends : Transfer(e) \/ ReadError(e) \/ WriteEnds(e) \/ WriteLost(e) \/ WriteKills(e)
        \/ MainFails

Spec == Init /\ [][Next]_echovars

\* Both processes run, and the network delivers.  Nothing is assumed of users,
\* and no call has to fail.
Works(c) == \/ Accept(c) \/ EchoRead(c) \/ EchoLine(c) \/ EchoEnds(c) \/ EchoFails(c)
            \/ Sent(c) \/ Show(c) \/ ClientFails(c)

FairSpec == /\ Spec
            /\ \A c \in Conns : WF_echovars(Works(c))
            /\ \A e \in Ends : WF_echovars(Transfer(e) \/ WriteEnds(e) \/ WriteLost(e)
                                            \/ WriteKills(e))

-----------------------------------------------------------------------------
\* The bytes of s but for its NULs.
WithoutNuls(s) == FoldLeft(LAMBDA t, b : IF b = "NUL" THEN t ELSE Append(t, b), <<>>, s)

\* The echo is the client's own stream in upper case, in order, but for a NUL
\* behind each line that was cut off by MAXLINE or by the end of the stream;
\* all that a thread has taken is echoed before it reads on.
EchoesInOrder ==
  \A c \in Conns :
    LET echoed == stream[Near(c)]
        bytes  == WithoutNuls(echoed)
    IN /\ IsPrefix(bytes, UpperCase(taken[Far(c)]))
       /\ Serving(c) /\ Idle(Far(c)) /\ ~eof[Far(c)] => bytes = UpperCase(taken[Far(c)])
       /\ \A i \in DOMAIN echoed :
            echoed[i] = "NUL" => i > 1 /\ echoed[i - 1] \in {Upper[b] : b \in Letters}

\* What a client prints is the line it has just sent, in upper case, as long
\* as none has filled a buffer; when the server is gone, the line as it was or
\* a part of its echo.
EchoIsOwnLine ==
  \A c \in Conns :
    client[c] = "prompt" /\ "NUL" \notin ToSet(stream[Near(c)]) =>
      \/ shown[c] = UpperCase(line[c])
      \/ eof[Near(c)] /\ (shown[c] = line[c] \/ IsPrefix(shown[c], UpperCase(line[c])))

\* What the client has sent is no line for the server.
Unfinished(c) == line[c] = <<>> \/ (Last(line[c]) # "\n" /\ Len(line[c]) < MAXLINE - 1)

\* A client that waits for an echo gets something or learns that the server is
\* gone, unless a NUL or the end of its input cut the line off before its
\* newline: then both sides wait for each other.
EchoComes == \A c \in Conns :
  client[c] = "receive" ~> client[c] # "receive" \/ Unfinished(c)
=============================================================================
