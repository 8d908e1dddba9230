-------------------------------- MODULE Tcp --------------------------------
(***************************************************************************)
(* 09-TCP: a server that takes one connection at a time, reads once from   *)
(* it, prints what it has read and closes it, and clients that connect,    *)
(* send one line their user types and leave.                               *)
(*                                                                         *)
(* A byte is known by the client that sent it.  What a client has written  *)
(* arrives in pieces, and a read returns what has arrived.                 *)
(***************************************************************************)
EXTENDS Integers, Sequences, FiniteSets

CONSTANTS
  Clients,
  SIZE,        \* bytes of both buffers (1024 in the code)
  BACKLOG      \* argument of listen (5 in the code)

ASSUME TcpAssumption ==
  IsFiniteSet(Clients) /\ SIZE \in Nat \ {0, 1} /\ BACKLOG \in Nat

NoClient == "no client"
Junk == "junk"
Nul == "nul"

VARIABLES
  server,      \* "start", "accept", "read", "print" or "exited"
  new_fd,      \* the client whose connection was accepted
  backlog,     \* the clients whose connection was not accepted yet
  buffer,      \* the server's buffer
  nbytes,      \* what its read returned
  client,      \* per client: "start", "connected", "ended"
  wrote,       \* per client: bytes it has sent on its connection
  served,      \* the clients whose connection the server has closed
  garbage      \* a client has sent what was in its buffer before fgets

tcpVars == <<server, new_fd, backlog, buffer, nbytes, client, wrote, served, garbage>>

TcpInit ==
  /\ server = "start"
  /\ new_fd = NoClient
  /\ backlog = <<>>
  /\ buffer = [k \in 0 .. SIZE - 1 |-> Junk] /\ nbytes = 0
  /\ client = [c \in Clients |-> "start"]
  /\ wrote = [c \in Clients |-> 0]
  /\ served = {} /\ garbage = FALSE

-----------------------------------------------------------------------------
(* socket, bind and listen; the server exits if one of them fails.         *)
Listen ==
  /\ server = "start"
  /\ server' \in {"accept", "exited"}
  /\ UNCHANGED <<new_fd, backlog, buffer, nbytes, client, wrote, served, garbage>>

Accept ==
  /\ server = "accept" /\ backlog # <<>>
  /\ new_fd' = Head(backlog) /\ backlog' = Tail(backlog)
  /\ server' = "read"
  /\ UNCHANGED <<buffer, nbytes, client, wrote, served, garbage>>

(* Mutant: the buffer is printed as it is.                                 *)
TerminateNot(buf, n) == buf

(* buffer[nbytes] = '\0', which for n = SIZE is not in the buffer.         *)
Terminate(buf, n) == [k \in DOMAIN buf |-> IF k = n THEN Nul ELSE buf[k]]

(* The one read: it waits for bytes or for the client's end.               *)
ReadOnce ==
  /\ server = "read"
  /\ wrote[new_fd] > 0 \/ client[new_fd] = "ended"
  /\ \E n \in 0 .. SIZE :
       /\ n <= wrote[new_fd] /\ (wrote[new_fd] > 0 => n > 0)
       /\ nbytes' = n
       /\ buffer' = Terminate([k \in DOMAIN buffer |-> IF k < n THEN new_fd ELSE buffer[k]], n)
  /\ server' = "print"
  /\ UNCHANGED <<new_fd, backlog, client, wrote, served, garbage>>

(* An error of accept or of the read ends the server, for all who wait.    *)
ServerError ==
  /\ server \in {"accept", "read"}
  /\ server' = "exited"
  /\ UNCHANGED <<new_fd, backlog, buffer, nbytes, client, wrote, served, garbage>>

(* Mutant: the loop is missing.                                            *)
CloseNewFdOnce ==
  /\ server = "print" /\ server' = "done"
  /\ served' = served \cup {new_fd}
  /\ new_fd' = NoClient /\ wrote' = [wrote EXCEPT ![new_fd] = 0]
  /\ UNCHANGED <<backlog, buffer, nbytes, client, garbage>>

(* printf, and close(new_fd), which drops what was not read.               *)
CloseNewFd ==
  /\ server = "print" /\ server' = "accept"
  /\ served' = served \cup {new_fd}
  /\ new_fd' = NoClient /\ wrote' = [wrote EXCEPT ![new_fd] = 0]
  /\ UNCHANGED <<backlog, buffer, nbytes, client, garbage>>

-----------------------------------------------------------------------------
(* The arguments, gethostbyname and socket may fail, and connect does when *)
(* nobody listens.  With a full backlog it waits, and may give up.         *)
Connect(c) ==
  /\ client[c] = "start"
  /\ \/ /\ server \notin {"start", "exited"} /\ Len(backlog) <= BACKLOG
        /\ backlog' = Append(backlog, c)
        /\ client' = [client EXCEPT ![c] = "connected"]
     \/ client' = [client EXCEPT ![c] = "ended"] /\ UNCHANGED backlog
  /\ UNCHANGED <<server, new_fd, buffer, nbytes, wrote, served, garbage>>

(* What fgets(buffer, 1024, stdin) leaves in the buffer: a line, or the    *)
(* first bytes of one, and a final 0.                                      *)
LineLengths == 1 .. SIZE - 1

(* fgets and write.  At an end of file fgets leaves the buffer alone, and  *)
(* the strlen of what is in it, perhaps up to its end, is sent.            *)
SendLine(c) ==
  /\ client[c] = "connected"
  /\ \/ /\ wrote' \in {[wrote EXCEPT ![c] = n] : n \in LineLengths}
        /\ UNCHANGED garbage
     \/ /\ wrote' \in {[wrote EXCEPT ![c] = n] : n \in 0 .. SIZE}
        /\ garbage' = TRUE
  /\ client' = [client EXCEPT ![c] = "ended"]
  /\ UNCHANGED <<server, new_fd, backlog, buffer, nbytes, served>>

(* The client is killed before its user has typed a line.                  *)
ClientKilled(c) ==
  /\ client[c] = "connected"
  /\ client' = [client EXCEPT ![c] = "ended"]
  /\ UNCHANGED <<server, new_fd, backlog, buffer, nbytes, wrote, served, garbage>>

-----------------------------------------------------------------------------
ServerStep == Listen \/ Accept \/ ReadOnce \/ CloseNewFd

TcpNext ==
  \/ ServerStep \/ ServerError
  \/ \E c \in Clients : Connect(c) \/ SendLine(c) \/ ClientKilled(c)

(* The server runs on, and a user who was asked for a line types one.      *)
TcpSpec ==
  /\ TcpInit /\ [][TcpNext]_tcpVars
  /\ WF_tcpVars(ServerStep)
  /\ \A c \in Clients : WF_tcpVars(SendLine(c))

-----------------------------------------------------------------------------
TcpTypeOK ==
  /\ server \in {"start", "accept", "read", "print", "exited"}
  /\ new_fd \in Clients \cup {NoClient} /\ backlog \in Seq(Clients)
  /\ buffer \in [0 .. SIZE - 1 -> Clients \cup {Junk, Nul}] /\ nbytes \in 0 .. SIZE
  /\ client \in [Clients -> {"start", "connected", "ended"}]
  /\ wrote \in [Clients -> 0 .. SIZE]
  /\ served \subseteq Clients /\ garbage \in BOOLEAN

(* What the server prints is what it has read from this client: the 0 it   *)
(* puts behind it is in the buffer, because clients never send a full one, *)
(* and hides what a longer line of an earlier client has left there.  Not  *)
(* so when a client has met an end of file.                                *)
PrintedIsSent ==
  server = "print" /\ ~garbage =>
    \E k \in DOMAIN buffer :
      /\ buffer[k] = Nul /\ k = nbytes
      /\ \A j \in 0 .. k - 1 : buffer[j] = new_fd

(* A client whose connection was made is served, although the server       *)
(* serves one at a time and waits for its line, unless an error ends the   *)
(* server.                                                                 *)
EveryoneServed ==
  \A c \in Clients : client[c] = "connected" ~> c \in served \/ server = "exited"
=============================================================================
