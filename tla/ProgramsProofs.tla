--------------------------- MODULE ProgramsProofs ---------------------------
(***************************************************************************)
(* Proofs about the user programs, for any number of processes, runs and   *)
(* clients: Tcp, Signals, Pipe, SysVIpc and Fifo.                          *)
(***************************************************************************)
EXTENDS Fifo, Signals, SysVIpc, Pipe, Tcp, SequenceTheorems, FiniteSetTheorems, TLAPS

-----------------------------------------------------------------------------
(* 09-TCP.  No client that fgets has given a line fills the buffer, so the *)
(* final 0 has its place behind what was read.                             *)
LinesFit == ~garbage => \A c \in Clients : wrote[c] < SIZE

Printable ==
  server = "print" /\ ~garbage =>
    /\ nbytes < SIZE
    /\ buffer[nbytes] = Nul
    /\ \A j \in 0 .. nbytes - 1 : buffer[j] = new_fd

TcpInv ==
  /\ TcpTypeOK /\ LinesFit /\ Printable
  /\ server \in {"read", "print"} => new_fd \in Clients

LEMMA TcpInitial == TcpInit => TcpInv
<1> SUFFICES ASSUME TcpInit PROVE TcpInv
  OBVIOUS
<1>1. garbage \in BOOLEAN
  BY Zenon DEF TcpInit
<1>2. TcpTypeOK
  BY <1>1, TcpAssumption DEF TcpInit, TcpTypeOK
<1>3. LinesFit /\ Printable
  BY TcpAssumption DEF TcpInit, LinesFit, Printable
<1>4. QED
  BY <1>2, <1>3 DEF TcpInit, TcpInv

LEMMA TcpServer ==
  ASSUME TcpInv, Listen \/ Accept \/ ServerError
  PROVE  TcpInv'
<1> USE DEF TcpInv
<1>1. UNCHANGED <<buffer, nbytes, client, wrote, served, garbage>> /\ server' # "print"
  BY DEF Listen, Accept, ServerError
<1>2. CASE Accept
  <2>1. backlog \in Seq(Clients) /\ backlog # <<>>
    BY <1>2 DEF Accept, TcpTypeOK
  <2>2. Head(backlog) \in Clients /\ Tail(backlog) \in Seq(Clients)
    BY <2>1
  <2>3. QED
    BY <1>1, <1>2, <2>2 DEF Accept, TcpTypeOK, LinesFit, Printable
<1>3. CASE Listen \/ ServerError
  BY <1>1, <1>3 DEF Listen, ServerError, TcpTypeOK, LinesFit, Printable
<1>4. QED
  BY <1>2, <1>3

(* The read, and the 0 that is put behind what it returned.                *)
LEMMA TcpRead ==
  ASSUME TcpInv, ReadOnce
  PROVE  TcpInv'
<1> USE TcpAssumption DEF TcpInv
<1>1. /\ UNCHANGED <<new_fd, backlog, client, wrote, served, garbage>>
      /\ server' = "print" /\ new_fd \in Clients
  BY DEF ReadOnce
<1>2. PICK n \in 0 .. SIZE :
        /\ n <= wrote[new_fd] /\ nbytes' = n
        /\ buffer' = Terminate([k \in DOMAIN buffer |->
                                  IF k < n THEN new_fd ELSE buffer[k]], n)
  BY DEF ReadOnce
<1>3. buffer \in [0 .. SIZE - 1 -> Clients \cup {Junk, Nul}]
  BY DEF TcpTypeOK
<1>4. buffer' = [k \in 0 .. SIZE - 1 |->
                   IF k = n THEN Nul ELSE IF k < n THEN new_fd ELSE buffer[k]]
  BY <1>2, <1>3 DEF Terminate
<1>5. TcpTypeOK'
  BY <1>1, <1>2, <1>3, <1>4 DEF TcpTypeOK
<1>6. LinesFit'
  BY <1>1 DEF LinesFit
<1>7. Printable'
  <2>1. SUFFICES ASSUME ~garbage
                 PROVE  n < SIZE /\ buffer'[n] = Nul
                        /\ \A j \in 0 .. n - 1 : buffer'[j] = new_fd
    BY <1>1, <1>2 DEF Printable
  <2>2. wrote[new_fd] \in 0 .. SIZE /\ wrote[new_fd] < SIZE
    BY <1>1, <2>1 DEF LinesFit, TcpTypeOK
  <2>3. n < SIZE
    BY <1>2, <2>2
  <2>4. QED
    BY <1>4, <2>3
<1>8. QED
  BY <1>1, <1>5, <1>6, <1>7

LEMMA TcpClose ==
  ASSUME TcpInv, CloseNewFd
  PROVE  TcpInv'
<1> USE TcpAssumption DEF TcpInv
<1>1. TcpTypeOK'
  BY DEF CloseNewFd, TcpTypeOK
<1>2. LinesFit' /\ Printable'
  BY DEF CloseNewFd, TcpTypeOK, LinesFit, Printable
<1>3. QED
  BY <1>1, <1>2 DEF CloseNewFd

LEMMA TcpClient ==
  ASSUME TcpInv, NEW c \in Clients, Connect(c) \/ SendLine(c) \/ ClientKilled(c)
  PROVE  TcpInv'
<1> USE TcpAssumption DEF TcpInv
<1>1. CASE Connect(c)
  <2>1. Append(backlog, c) \in Seq(Clients)
    BY DEF TcpTypeOK
  <2>2. QED
    BY <1>1, <2>1 DEF Connect, TcpTypeOK, LinesFit, Printable
<1>2. CASE SendLine(c)
  <2>1. /\ UNCHANGED <<server, new_fd, backlog, buffer, nbytes, served>>
        /\ client' = [client EXCEPT ![c] = "ended"]
    BY <1>2 DEF SendLine
  <2>2. CASE garbage' = TRUE /\ wrote' \in {[wrote EXCEPT ![c] = n] : n \in 0 .. SIZE}
    <3>1. garbage' \in BOOLEAN /\ garbage'
      BY <2>2, Zenon
    <3>2. wrote' \in [Clients -> 0 .. SIZE]
      BY <2>2 DEF TcpTypeOK
    <3>3. QED
      BY <2>1, <3>1, <3>2 DEF TcpTypeOK, LinesFit, Printable
  <2>3. CASE UNCHANGED garbage /\ wrote' \in {[wrote EXCEPT ![c] = n] : n \in LineLengths}
    <3>1. PICK n \in 1 .. SIZE - 1 : wrote' = [wrote EXCEPT ![c] = n]
      BY <2>3 DEF LineLengths
    <3>2. wrote' \in [Clients -> 0 .. SIZE]
      BY <3>1 DEF TcpTypeOK
    <3>3. LinesFit'
      BY <2>3, <3>1 DEF TcpTypeOK, LinesFit
    <3>4. QED
      BY <2>1, <2>3, <3>2, <3>3 DEF TcpTypeOK, Printable
  <2>4. QED
    BY <1>2, <2>2, <2>3 DEF SendLine
<1>3. CASE ClientKilled(c)
  BY <1>3 DEF ClientKilled, TcpTypeOK, LinesFit, Printable
<1>4. QED
  BY <1>1, <1>2, <1>3

LEMMA TcpInvariant == TcpSpec => []TcpInv
<1>1. TcpInv /\ UNCHANGED tcpVars => TcpInv'
  BY DEF TcpInv, TcpTypeOK, LinesFit, Printable, tcpVars
<1>2. TcpInv /\ [TcpNext]_tcpVars => TcpInv'
  BY <1>1, TcpServer, TcpRead, TcpClose, TcpClient DEF TcpNext, ServerStep
<1>3. QED
  BY TcpInitial, <1>2, PTL DEF TcpSpec

(* The server prints what it has read from this client and nothing of an   *)
(* earlier one, for any size of the buffer, as long as every client has    *)
(* got a line from fgets: then the 0 never falls behind the buffer.        *)
THEOREM ServerPrintsWhatWasSent == TcpSpec => []PrintedIsSent
<1>1. ASSUME TcpInv, server = "print", ~garbage
      PROVE  \E k \in DOMAIN buffer :
               /\ buffer[k] = Nul /\ k = nbytes
               /\ \A j \in 0 .. k - 1 : buffer[j] = new_fd
  <2>1. nbytes \in DOMAIN buffer
    BY <1>1, TcpAssumption DEF TcpInv, TcpTypeOK, Printable
  <2>2. QED
    BY <1>1, <2>1 DEF TcpInv, Printable
<1>2. TcpInv => PrintedIsSent
  BY <1>1 DEF PrintedIsSent
<1>3. QED
  BY <1>2, TcpInvariant, PTL

-----------------------------------------------------------------------------
(* The signals.  Where a process of each kind can be, and what an app has  *)
(* given to write_pid.                                                     *)
SigPlaces ==
  \A p \in Tasks :
    /\ p \in Pausers => proc[p].at \in {"start", "before_pause", "pause", "exit"}
    /\ proc[p].at \in InKernel /\ p \in Apps => proc[p].found = p
    /\ proc[p].at \in {"rcu", "send"} => proc[p].found \in Tasks

(* A signal that was queued for an app is handled before its write returns *)
(* to user mode.                                                           *)
Received(q) == q.handled \/ (q.queued > 0 /\ q.at = "return")

SigKept == \A p \in Apps : proc[p].result = "ok" => Received(proc[p])

SigInv == SignalsTypeOK /\ SigPlaces /\ SigKept /\ misused \subseteq Shells

(* What the functions below do to the record of one process.               *)
Places == {"start", "open", "write", "find", "rcu", "send", "return", "exit", "oops",
           "before_pause", "pause"}

ProcState == [at : Places, handler : BOOLEAN, queued : 0 .. MaxQueued, handled : BOOLEAN,
              found : Tasks \cup {NoPid}, result : {"none", "ok", "error"}]

LEMMA SigTypes ==
  SignalsTypeOK <=> /\ task \in [Tasks -> {"alive", "zombie", "reaped", "freed"}]
                    /\ proc \in [Tasks -> ProcState]
                    /\ conf \in BOOLEAN /\ misused \subseteq Tasks
BY DEF SignalsTypeOK, ProcState, Places

LEMMA NewProcState == ASSUME NEW p \in Tasks PROVE NewProc(p) \in ProcState
<1>1. FALSE \in BOOLEAN /\ 0 \in 0 .. MaxQueued
  BY SignalsAssumption
<1>2. (IF p \in Shells THEN "open" ELSE "start") \in Places
  BY DEF Places
<1>3. QED
  BY <1>1, <1>2 DEF NewProc, ProcState

LEMMA SigInitial == SignalsInit => SigInv
<1> SUFFICES ASSUME SignalsInit PROVE SigInv
  OBVIOUS
<1>1. proc = [p \in Tasks |-> NewProc(p)] /\ misused = {}
  BY DEF SignalsInit
<1>2. conf \in BOOLEAN
  BY Zenon DEF SignalsInit
<1>3. SignalsTypeOK
  BY <1>1, <1>2, SigTypes, NewProcState DEF SignalsInit
<1>4. SigPlaces
  BY <1>1, SignalsAssumption DEF SigPlaces, NewProc, InKernel, Tasks
<1>5. SigKept
  BY <1>1 DEF SigKept, NewProc, Tasks
<1>6. QED
  BY <1>1, <1>3, <1>4, <1>5 DEF SigInv

(* A step that changes the record of one process to q.                     *)
LEMMA SigOne ==
  ASSUME SigInv, NEW p \in Tasks, NEW q \in ProcState,
         proc' = [proc EXCEPT ![p] = q],
         task' \in [Tasks -> {"alive", "zombie", "reaped", "freed"}],
         conf' = conf, misused' = misused,
         p \in Pausers => q.at \in {"start", "before_pause", "pause", "exit"},
         q.at \in InKernel /\ p \in Apps => q.found = p,
         q.at \in {"rcu", "send"} => q.found \in Tasks,
         p \in Apps /\ q.result = "ok" => Received(q)
  PROVE  SigInv'
<1>1. proc \in [Tasks -> ProcState] /\ conf \in BOOLEAN /\ misused \subseteq Tasks
  BY SigTypes DEF SigInv
<1>2. proc' \in [Tasks -> ProcState] /\ proc'[p] = q
      /\ \A s \in Tasks \ {p} : proc'[s] = proc[s]
  BY <1>1
<1>3. SignalsTypeOK'
  BY <1>1, <1>2 DEF SignalsTypeOK, ProcState, Places
<1>4. SigPlaces'
  BY <1>2 DEF SigInv, SigPlaces
<1>5. SigKept'
  BY <1>2 DEF SigInv, SigKept, Tasks
<1>6. QED
  BY <1>3, <1>4, <1>5 DEF SigInv

LEMMA SigModule ==
  ASSUME SigInv, KsigInit \/ KsigExit
  PROVE  SigInv'
<1>1. UNCHANGED <<task, misused>>
  BY DEF KsigInit, KsigExit
<1>2. conf' \in BOOLEAN
  BY Zenon DEF KsigInit, KsigExit
<1>3. proc \in [Tasks -> ProcState]
  BY SigTypes DEF SigInv
<1>4. CASE proc' = proc
  BY <1>1, <1>2, <1>4 DEF SigInv, SignalsTypeOK, SigPlaces, SigKept
<1>5. CASE KsigExit
  <2>1. ASSUME NEW p \in Tasks
        PROVE  /\ proc'[p] = proc[p] \/ (proc[p].at \in InKernel
                                           /\ proc'[p] = [proc[p] EXCEPT !.at = "oops"])
               /\ proc'[p] \in ProcState
    BY <1>3, <1>5 DEF KsigExit, ProcState, Places
  <2>2. proc' \in [Tasks -> ProcState]
    BY <1>5, <2>1 DEF KsigExit
  <2>3. SignalsTypeOK'
    BY <1>1, <1>2, <2>2 DEF SigInv, SignalsTypeOK, ProcState, Places
  <2>4. ASSUME NEW p \in Tasks
        PROVE  /\ proc'[p].found = proc[p].found /\ proc'[p].result = proc[p].result
               /\ proc'[p].queued = proc[p].queued /\ proc'[p].handled = proc[p].handled
               /\ proc'[p].at = proc[p].at
                    \/ (proc[p].at \in InKernel /\ proc'[p].at = "oops")
    BY <1>3, <2>1 DEF ProcState
  <2>5. SigPlaces'
    BY <2>4 DEF SigInv, SigPlaces, InKernel
  <2>6. SigKept'
    BY <2>4 DEF SigInv, SigKept, Received, InKernel, Tasks
  <2>7. QED
    BY <1>1, <2>3, <2>5, <2>6 DEF SigInv
<1>6. QED
  BY <1>4, <1>5 DEF KsigInit

(* The programs up to the write of a pid, and from its return on.          *)
LEMMA SigUser ==
  ASSUME SigInv, NEW p \in Tasks,
         \/ SigAction(p) \/ OpenConf(p) \/ WritePid(p) \/ FindTask(p)
         \/ RcuReadUnlock(p) \/ PidWritten(p) \/ Pause(p) \/ MainEnds(p)
  PROVE  SigInv'
<1>1. /\ proc \in [Tasks -> ProcState] /\ proc[p] \in ProcState
      /\ task \in [Tasks -> {"alive", "zombie", "reaped", "freed"}]
  BY SigTypes DEF SigInv
<1>2. /\ p \in Pausers => proc[p].at \in {"start", "before_pause", "pause", "exit"}
      /\ proc[p].at \in InKernel /\ p \in Apps => proc[p].found = p
      /\ proc[p].at \in {"rcu", "send"} => proc[p].found \in Tasks
      /\ p \in Apps /\ proc[p].result = "ok" => Received(proc[p])
      /\ p \in Apps /\ proc[p].result = "ok" /\ (proc[p].at # "return" \/ proc[p].queued = 0)
           => proc[p].handled
  BY DEF SigInv, SigPlaces, SigKept, Received
<1>3. CASE SigAction(p)
  <2> DEFINE q == [proc[p] EXCEPT !.handler = TRUE,
                                  !.at = IF p \in Apps THEN "open" ELSE "before_pause"]
  <2>1. proc' = [proc EXCEPT ![p] = q] /\ UNCHANGED <<task, conf, misused>>
    BY <1>3 DEF SigAction
  <2>2. TRUE \in BOOLEAN /\ (IF p \in Apps THEN "open" ELSE "before_pause") \in Places
    BY DEF Places
  <2>3. q \in ProcState /\ q.result = proc[p].result /\ q.queued = proc[p].queued
        /\ q.handled = proc[p].handled
        /\ q.at = IF p \in Apps THEN "open" ELSE "before_pause"
    BY <1>1, <2>2 DEF ProcState
  <2> HIDE DEF q
  <2>4. /\ p \in Pausers => q.at \in {"start", "before_pause", "pause", "exit"}
        /\ q.at \notin InKernel
        /\ p \in Apps /\ q.result = "ok" => Received(q)
    <3>1. p \in Pausers => p \notin Apps
      BY SignalsAssumption
    <3>2. proc[p].at # "return"
      BY <1>3 DEF SigAction, At
    <3>3. QED
      BY <1>2, <2>3, <3>1, <3>2 DEF InKernel, Received
  <2>5. QED
    BY <1>1, <2>1, <2>3, <2>4, SigOne DEF InKernel
(* main or write_pid goes on to l, with what the look-up is given.         *)
<1>4. ASSUME NEW l \in Places, NEW pid \in Tasks \cup {NoPid},
             proc' = [proc EXCEPT ![p].at = l, ![p].found = pid],
             UNCHANGED <<task, conf, misused>>,
             p \in Pausers => l = "pause",
             l \in InKernel /\ p \in Apps => pid = p,
             l \in {"rcu", "send"} => pid \in Tasks,
             proc[p].at # "return"
      PROVE  SigInv'
  <2> DEFINE q == [proc[p] EXCEPT !.at = l, !.found = pid]
  <2>1. q \in ProcState /\ q.at = l /\ q.found = pid /\ q.result = proc[p].result
        /\ q.queued = proc[p].queued /\ q.handled = proc[p].handled
    BY <1>1 DEF ProcState
  <2>2. proc' = [proc EXCEPT ![p] = q]
    BY <1>1, <1>4
  <2> HIDE DEF q
  <2>3. task' \in [Tasks -> {"alive", "zombie", "reaped", "freed"}]
    BY <1>1, <1>4
  <2>4. /\ p \in Pausers => q.at \in {"start", "before_pause", "pause", "exit"}
        /\ q.at \in InKernel /\ p \in Apps => q.found = p
        /\ q.at \in {"rcu", "send"} => q.found \in Tasks
        /\ p \in Apps /\ q.result = "ok" => Received(q)
    BY <1>2, <1>4, <2>1 DEF Received
  <2>5. conf' = conf /\ misused' = misused
    BY <1>4
  <2>6. QED
    BY <2>1, <2>2, <2>3, <2>4, <2>5, SigOne
<1>5. ASSUME NEW l \in Places,
             proc' = [proc EXCEPT ![p].at = l],
             UNCHANGED <<task, conf, misused>>,
             p \in Pausers => l = "pause",
             l \in InKernel => proc[p].at \in InKernel,
             l \in {"rcu", "send"} => proc[p].found \in Tasks,
             proc[p].at # "return" \/ proc[p].queued = 0
      PROVE  SigInv'
  <2> DEFINE q == [proc[p] EXCEPT !.at = l]
  <2>1. q \in ProcState /\ q.at = l /\ q.found = proc[p].found /\ q.result = proc[p].result
        /\ q.queued = proc[p].queued /\ q.handled = proc[p].handled
    BY <1>1 DEF ProcState
  <2>2. proc' = [proc EXCEPT ![p] = q]
    BY <1>1, <1>5
  <2> HIDE DEF q
  <2>3. task' \in [Tasks -> {"alive", "zombie", "reaped", "freed"}]
    BY <1>1, <1>5
  <2>4. /\ p \in Pausers => q.at \in {"start", "before_pause", "pause", "exit"}
        /\ q.at \in InKernel /\ p \in Apps => q.found = p
        /\ q.at \in {"rcu", "send"} => q.found \in Tasks
        /\ p \in Apps /\ q.result = "ok" => Received(q)
    BY <1>2, <1>5, <2>1 DEF Received
  <2>5. conf' = conf /\ misused' = misused
    BY <1>5
  <2>6. QED
    BY <2>1, <2>2, <2>3, <2>4, <2>5, SigOne
(* The write fails.                                                        *)
<1>6. ASSUME proc' = [proc EXCEPT ![p].at = "return", ![p].result = "error"],
             UNCHANGED <<task, conf, misused>>,
             p \notin Pausers
      PROVE  SigInv'
  <2> DEFINE q == [proc[p] EXCEPT !.at = "return", !.result = "error"]
  <2>1. q \in ProcState /\ q.at = "return" /\ q.result = "error"
    BY <1>1 DEF ProcState, Places
  <2>2. proc' = [proc EXCEPT ![p] = q]
    BY <1>1, <1>6
  <2> HIDE DEF q
  <2>3. QED
    BY <1>1, <1>6, <2>1, <2>2, SigOne DEF InKernel
<1>7. CASE OpenConf(p)
  <2>1. \E l \in {"write", "exit"} : proc' = [proc EXCEPT ![p].at = l]
    BY <1>7 DEF OpenConf
  <2>2. p \notin Pausers /\ proc[p].at # "return"
    BY <1>2, <1>7 DEF OpenConf, At
  <2>3. UNCHANGED <<task, conf, misused>>
    BY <1>7 DEF OpenConf
  <2>4. QED
    BY <1>5, <2>1, <2>2, <2>3 DEF Places, InKernel
<1>8. CASE WritePid(p)
  <2>1. p \notin Pausers /\ UNCHANGED <<task, conf, misused>> /\ proc[p].at # "return"
    BY <1>2, <1>8 DEF WritePid, At
  <2>2. CASE proc' = [proc EXCEPT ![p].at = "oops"]
    BY <1>5, <2>1, <2>2 DEF Places, InKernel
  <2>3. CASE \E pid \in WrittenPid(p) :
               proc' = [proc EXCEPT ![p].at = "find", ![p].found = pid]
    <3>1. PICK pid \in WrittenPid(p) :
               proc' = [proc EXCEPT ![p].at = "find", ![p].found = pid]
      BY <2>3
    <3>2. pid \in Tasks \cup {NoPid} /\ (p \in Apps => pid = p)
      BY DEF WrittenPid
    <3>3. QED
      BY <1>4, <2>1, <3>1, <3>2 DEF Places
  <2>4. CASE proc' = [proc EXCEPT ![p].at = "return", ![p].result = "error"]
    BY <1>6, <2>1, <2>4
  <2>5. QED
    BY <1>8, <2>2, <2>3, <2>4 DEF WritePid
<1>9. CASE FindTask(p)
  <2>1. p \notin Pausers /\ UNCHANGED <<task, conf, misused>> /\ proc[p].at = "find"
    BY <1>2, <1>9 DEF FindTask, At
  <2>2. \/ proc[p].found # NoPid /\ proc' = [proc EXCEPT ![p].at = "rcu"]
        \/ proc' = [proc EXCEPT ![p].at = "return", ![p].result = "error"]
    BY <1>9 DEF FindTask
  <2>3. proc[p].found \in Tasks \cup {NoPid}
    BY <1>1 DEF ProcState
  <2>4. QED
    BY <1>5, <1>6, <2>1, <2>2, <2>3 DEF Places, InKernel
<1>10. CASE RcuReadUnlock(p)
  <2>1. /\ p \notin Pausers /\ UNCHANGED <<task, conf, misused>> /\ proc[p].at = "rcu"
        /\ proc' = [proc EXCEPT ![p].at = "send"]
    BY <1>2, <1>10 DEF RcuReadUnlock, At
  <2>2. QED
    BY <1>2, <1>5, <2>1 DEF Places, InKernel
<1>11. CASE PidWritten(p)
  <2>1. p \notin Pausers /\ UNCHANGED <<task, conf, misused>> /\ proc[p].queued = 0
    BY <1>2, <1>11 DEF PidWritten, At
  <2>2. CASE p \in Apps
    <3>1. proc' = [proc EXCEPT ![p].at = "exit"]
      BY <1>1, <1>11, <2>2 DEF PidWritten
    <3>2. QED
      BY <1>5, <2>1, <3>1 DEF Places, InKernel
  <2>3. CASE p \notin Apps
    <3>1. proc' = [proc EXCEPT ![p] = NewProc(p)]
      BY <1>11, <2>3 DEF PidWritten
    <3>2. NewProc(p).at \in {"open", "start"}
      BY DEF NewProc
    <3>3. QED
      BY <1>1, <2>1, <2>3, <3>1, <3>2, NewProcState, SigOne DEF InKernel
  <2>4. QED
    BY <2>2, <2>3
<1>12. CASE Pause(p)
  BY <1>5, <1>12 DEF Pause, At, Places, InKernel
<1>13. CASE MainEnds(p)
  BY <1>1, <1>13 DEF MainEnds, SigInv, SignalsTypeOK, SigPlaces, SigKept
<1>14. QED
  BY <1>3, <1>7, <1>8, <1>9, <1>10, <1>11, <1>12, <1>13

(* send_sig_info.  An app's task is the app itself: it is alive, so the    *)
(* signal is queued for it when the write succeeds.                        *)
LEMMA SigSend ==
  ASSUME SigInv, NEW p \in Tasks, SendSigInfo(p)
  PROVE  SigInv'
<1> DEFINE t == proc[p].found
           sent(r) == [proc EXCEPT ![p].at = "return", ![p].result = r]
<1>1. /\ proc \in [Tasks -> ProcState] /\ conf \in BOOLEAN /\ misused \subseteq Tasks
      /\ task \in [Tasks -> {"alive", "zombie", "reaped", "freed"}]
  BY SigTypes DEF SigInv
<1>2. /\ task[p] = "alive" /\ proc[p].at = "send" /\ UNCHANGED <<task, conf>>
      /\ misused' = IF task[t] = "freed" THEN misused \cup {p} ELSE misused
      /\ \/ task[t] = "alive" /\ ~(proc[t].queued >= MaxQueued)
              /\ proc' = [sent("ok") EXCEPT ![t].queued = @ + 1]
         \/ proc' = sent("error")
         \/ task[t] # "alive" /\ proc' = sent("ok")
  BY DEF SendSigInfo, At
<1>3. t \in Tasks /\ p \notin Pausers /\ (p \in Apps => t = p)
  BY <1>2 DEF SigInv, SigPlaces, InKernel
<1>4. \A r \in {"ok", "error"} :
        /\ sent(r) \in [Tasks -> ProcState]
        /\ sent(r)[p] = [proc[p] EXCEPT !.at = "return", !.result = r]
        /\ \A s \in Tasks \ {p} : sent(r)[s] = proc[s]
  <2> SUFFICES ASSUME NEW r \in {"ok", "error"}
               PROVE  /\ sent(r) \in [Tasks -> ProcState]
                      /\ sent(r)[p] = [proc[p] EXCEPT !.at = "return", !.result = r]
                      /\ \A s \in Tasks \ {p} : sent(r)[s] = proc[s]
    OBVIOUS
  <2> DEFINE q == [proc[p] EXCEPT !.at = "return", !.result = r]
  <2>1. q \in ProcState
    <3>1. r \in {"none", "ok", "error"} /\ "return" \in Places /\ proc[p] \in ProcState
      BY <1>1 DEF Places
    <3>2. QED
      BY <3>1 DEF ProcState
  <2>2. sent(r) = [proc EXCEPT ![p] = q]
    BY <1>1
  <2> HIDE DEF q, sent
  <2>3. sent(r) \in [Tasks -> ProcState] /\ sent(r)[p] = q
        /\ \A s \in Tasks \ {p} : sent(r)[s] = proc[s]
    BY <1>1, <2>1, <2>2
  <2>4. QED
    BY <2>3 DEF q
<1>5. \A r \in {"ok", "error"} : \A s \in Tasks :
        /\ sent(r)[s].at = (IF s = p THEN "return" ELSE proc[s].at)
        /\ sent(r)[s].result = (IF s = p THEN r ELSE proc[s].result)
        /\ sent(r)[s].found = proc[s].found
        /\ sent(r)[s].queued = proc[s].queued
        /\ sent(r)[s].handled = proc[s].handled
  BY <1>1, <1>4 DEF ProcState
<1> HIDE DEF sent
<1>6. PICK r \in {"ok", "error"} : proc' = sent(r)
        \/ (r = "ok" /\ task[t] = "alive" /\ ~(proc[t].queued >= MaxQueued)
              /\ proc' = [sent(r) EXCEPT ![t] = [sent(r)[t] EXCEPT !.queued = @ + 1]])
  <2>1. sent("ok") \in [Tasks -> ProcState]
    BY <1>4
  <2>2. [sent("ok") EXCEPT ![t].queued = @ + 1]
          = [sent("ok") EXCEPT ![t] = [sent("ok")[t] EXCEPT !.queued = @ + 1]]
    BY <1>3, <2>1
  <2>3. QED
    BY <1>2, <2>2
<1>7. p \in Apps /\ r = "ok" => proc' # sent(r)
  <2>1. p \in Apps => task[t] = "alive"
    BY <1>2, <1>3
  <2>2. SUFFICES ASSUME p \in Apps, r = "ok", proc' = sent("ok") PROVE FALSE
    OBVIOUS
  <2>3. sent("error")[p].result = "error" /\ sent("ok")[p].result = "ok"
    BY <1>5
  <2>4. proc' = [sent("ok") EXCEPT ![t].queued = @ + 1]
    BY <1>2, <2>1, <2>2, <2>3
  <2>5. proc'[t].queued = sent("ok")[t].queued + 1 /\ sent("ok")[t].queued \in Nat
    BY <1>1, <1>3, <1>4, <2>4, SignalsAssumption DEF ProcState
  <2>6. QED
    BY <2>2, <2>5
<1>8. /\ proc' \in [Tasks -> ProcState]
      /\ \A s \in Tasks : /\ proc'[s].at = sent(r)[s].at
                          /\ proc'[s].result = sent(r)[s].result
                          /\ proc'[s].found = sent(r)[s].found
                          /\ proc'[s].handled = sent(r)[s].handled
                          /\ proc'[s].queued >= sent(r)[s].queued
      /\ proc' # sent(r) => proc'[t].queued > 0
  <2>1. sent(r) \in [Tasks -> ProcState]
    BY <1>4
  <2>2. \A s \in Tasks : sent(r)[s].queued \in 0 .. MaxQueued /\ MaxQueued \in Nat
    BY <2>1, SignalsAssumption DEF ProcState
  <2>3. CASE proc' = sent(r)
    BY <2>1, <2>2, <2>3
  <2>4. CASE proc' # sent(r)
    <3> DEFINE q == [sent(r)[t] EXCEPT !.queued = @ + 1]
    <3>1. proc' = [sent(r) EXCEPT ![t] = q] /\ ~(sent(r)[t].queued >= MaxQueued)
      BY <1>3, <1>5, <1>6, <2>4
    <3>2. sent(r)[t].queued + 1 \in 0 .. MaxQueued
      BY <1>3, <2>2, <3>1
    <3>3. q \in ProcState /\ q.at = sent(r)[t].at /\ q.result = sent(r)[t].result
          /\ q.found = sent(r)[t].found /\ q.handled = sent(r)[t].handled
          /\ q.queued = sent(r)[t].queued + 1
      BY <1>3, <2>1, <3>2 DEF ProcState
    <3> HIDE DEF q
    <3>4. proc' \in [Tasks -> ProcState] /\ proc'[t] = q
          /\ \A s \in Tasks \ {t} : proc'[s] = sent(r)[s]
      BY <1>3, <2>1, <3>1, <3>3
    <3>5. QED
      BY <1>3, <2>2, <3>3, <3>4
  <2>5. QED
    BY <2>3, <2>4
<1>9. \A s \in Tasks : proc[s].queued \in Nat /\ proc'[s].queued \in Nat
  BY <1>1, <1>8, SignalsAssumption DEF ProcState
<1>10. SignalsTypeOK'
  BY <1>1, <1>2, <1>8 DEF SignalsTypeOK, ProcState, Places
<1>11. SigPlaces'
  BY <1>3, <1>5, <1>8 DEF SigInv, SigPlaces, InKernel
<1>12. SigKept'
  <2>1. ASSUME NEW s \in Apps, proc'[s].result = "ok"
        PROVE  Received(proc'[s])
    <3>1. CASE s = p
      BY <1>3, <1>5, <1>7, <1>8, <2>1, <3>1 DEF Tasks, Received
    <3>2. CASE s # p
      BY <1>5, <1>8, <1>9, <2>1, <3>2 DEF SigInv, SigKept, Received, Tasks
    <3>3. QED
      BY <3>1, <3>2
  <2>2. QED
    BY <2>1 DEF SigKept
<1>13. misused' \subseteq Shells
  <2>1. p \in Apps => task[t] # "freed"
    BY <1>2, <1>3
  <2>2. QED
    BY <1>2, <1>3, <2>1 DEF SigInv, Tasks
<1>14. QED
  BY <1>10, <1>11, <1>12, <1>13 DEF SigInv

(* A user who types ctrl-c, a handler that runs, and what the parent and   *)
(* the kernel do with a process that has ended.                            *)
LEMMA SigEvents ==
  ASSUME SigInv, NEW p \in Tasks,
         (p \in Pausers /\ CtrlC(p)) \/ Deliver(p) \/ Reap(p)
  PROVE  SigInv'
<1>1. /\ proc \in [Tasks -> ProcState] /\ proc[p] \in ProcState
      /\ task \in [Tasks -> {"alive", "zombie", "reaped", "freed"}]
  BY SigTypes DEF SigInv
<1>2. /\ p \in Pausers => proc[p].at \in {"start", "before_pause", "pause", "exit"}
      /\ proc[p].at \in InKernel /\ p \in Apps => proc[p].found = p
      /\ proc[p].at \in {"rcu", "send"} => proc[p].found \in Tasks
      /\ p \in Apps /\ proc[p].result = "ok" => Received(proc[p])
      /\ proc[p].queued \in 0 .. MaxQueued /\ MaxQueued \in Nat \ {0}
  BY <1>1, SignalsAssumption DEF SigInv, SigPlaces, SigKept, ProcState
<1>3. CASE p \in Pausers /\ CtrlC(p)
  <2> DEFINE n == IF proc[p].queued = 0 THEN 1 ELSE proc[p].queued
             q == [proc[p] EXCEPT !.queued = n]
  <2>1. proc' = [proc EXCEPT ![p] = q] /\ UNCHANGED <<task, conf, misused>>
    BY <1>1, <1>3 DEF CtrlC
  <2>2. n \in 0 .. MaxQueued
    BY <1>2
  <2>3. q \in ProcState /\ q.at = proc[p].at /\ q.found = proc[p].found
    BY <1>1, <2>2 DEF ProcState
  <2>4. p \notin Apps
    BY <1>3, SignalsAssumption
  <2> HIDE DEF q
  <2>5. QED
    BY <1>1, <1>2, <2>1, <2>3, <2>4, SigOne
<1>4. CASE Deliver(p) /\ proc' # proc
  <2> DEFINE q == [proc[p] EXCEPT !.queued = @ - 1, !.handled = TRUE,
                                  !.at = HandlerReturns(@)]
  <2>1. /\ proc' = [proc EXCEPT ![p] = q] /\ UNCHANGED <<task, conf, misused>>
        /\ proc[p].queued > 0 /\ proc[p].at \notin InKernel
    BY <1>1, <1>4 DEF Deliver
  <2>2. proc[p].queued - 1 \in 0 .. MaxQueued /\ TRUE \in BOOLEAN
    BY <1>2, <2>1
  <2>3. HandlerReturns(proc[p].at) \in Places
    BY <1>1 DEF HandlerReturns, ProcState, Places
  <2>4. q \in ProcState /\ q.handled /\ q.at = HandlerReturns(proc[p].at)
    BY <1>1, <2>2, <2>3 DEF ProcState
  <2> HIDE DEF q
  <2>5. q.at \notin InKernel /\ (p \in Pausers => q.at \in {"start", "before_pause", "pause", "exit"})
    BY <1>2, <2>1, <2>4 DEF HandlerReturns, InKernel
  <2>6. QED
    BY <1>1, <2>1, <2>4, <2>5, SigOne DEF InKernel, Received
<1>5. CASE proc' = proc /\ (Deliver(p) \/ Reap(p))
  <2>1. task' \in [Tasks -> {"alive", "zombie", "reaped", "freed"}] /\ UNCHANGED <<conf, misused>>
    BY <1>1, <1>5 DEF Deliver, Reap
  <2>2. QED
    BY <1>5, <2>1 DEF SigInv, SignalsTypeOK, SigPlaces, SigKept
<1>6. QED
  BY <1>3, <1>4, <1>5 DEF Reap

LEMMA SigInvariant == SignalsSpec => []SigInv
<1>1. SigInv /\ UNCHANGED sigVars => SigInv'
  BY DEF SigInv, SignalsTypeOK, SigPlaces, SigKept, sigVars
<1>2. SigInv /\ [SignalsNext]_sigVars => SigInv'
  BY <1>1, SigModule, SigUser, SigSend, SigEvents DEF SignalsNext, MainStep, Tasks
<1>3. QED
  BY SigInitial, <1>2, PTL DEF SignalsSpec

(* write_pid, which uses a task after rcu_read_unlock, never uses a freed  *)
(* one for an app that writes its own pid: the app waits in the write.     *)
THEOREM AppsSignalThemselves == SignalsSpec => []AppSignalsItself
<1>1. ASSUME SigInv PROVE AppSignalsItself
  BY <1>1 DEF SigInv, SigPlaces, AppSignalsItself, At, InKernel, Tasks
<1>2. QED
  BY <1>1, SigInvariant, PTL

(* An app whose write has returned without an error has run its handler    *)
(* when main goes on to its end.                                           *)
THEOREM SignalsAreReceived == SignalsSpec => []SignalReceived
<1>1. ASSUME SigInv PROVE SignalReceived
  BY <1>1 DEF SigInv, SigKept, Received, SignalReceived, At
<1>2. QED
  BY <1>1, SigInvariant, PTL

-----------------------------------------------------------------------------
(* The pipe.  As long as nobody is killed the child has the read end when  *)
(* the parent writes, and the parent the write end until it has written    *)
(* twice; what is in the pipe tells how far the parent is.                 *)
PipeTypes ==
  /\ parent \in {"pipe", "close0", "write1", "write2", "close1", "wait", "ended"}
  /\ kid \in {"none", "close1", "read", "close0", "ended"}
  /\ ends \in [{"parent", "child"} -> SUBSET {"read", "write"}]
  /\ inside \in Nat

Unread0 == kid \in {"none", "close1", "read"}

PipeInv ==
  /\ PipeTypes
  /\ parent = "pipe" => kid = "none"
  /\ kid \in {"close1", "read", "close0"} => "read" \in ends["child"]
  /\ pipeKilled \subseteq {"sigpipe"} =>
       /\ Unread0 /\ parent \in {"pipe", "close0", "write1"} => inside = 0
       /\ Unread0 /\ parent = "write2" => inside = WORD
       /\ Unread0 /\ parent \in {"close1", "wait"} => inside = 2 * WORD
       /\ Unread0 /\ parent = "ended" => kid = "none"
       /\ parent \in {"close0", "write1", "write2", "close1"} => "write" \in ends["parent"]
       /\ ~Unread0 => r_num \in {WORD, 2 * WORD}

LEMMA PipeStep == PipeInv /\ [PipeNext]_pipeVars => PipeInv'
<1> SUFFICES ASSUME PipeInv, [PipeNext]_pipeVars PROVE PipeInv'
  OBVIOUS
<1> USE DEF PipeInv, PipeTypes, Unread0, WORD
<1>1. CASE PipeFork
  BY <1>1 DEF PipeFork
<1>2. CASE ParentClose
  BY <1>2 DEF ParentClose
(* Nobody's ends are others when q closes its own.                         *)
<1>0. ASSUME NEW q \in {"parent", "child"}, CloseAll(q)
      PROVE  /\ ends' \in [{"parent", "child"} -> SUBSET {"read", "write"}]
             /\ \A o \in {"parent", "child"} : o # q => ends'[o] = ends[o]
  BY <1>0 DEF CloseAll
<1>3. CASE ParentWrite
  <2>1. CASE IsOpen("read")
    BY <1>3, <2>1 DEF ParentWrite
  <2>2. CASE ~IsOpen("read")
    <3>1. kid \notin {"close1", "read", "close0"}
      BY <2>2 DEF IsOpen
    <3>2. /\ parent' = "ended" /\ CloseAll("parent")
          /\ pipeKilled' = pipeKilled \cup {"sigpipe"} /\ UNCHANGED <<kid, inside, r_num>>
      BY <1>3, <2>2 DEF ParentWrite
    <3>3. QED
      BY <1>0, <1>3, <3>1, <3>2 DEF ParentWrite
  <2>3. QED
    BY <2>1, <2>2
<1>4. CASE ParentWait
  BY <1>0, <1>4 DEF ParentWait
<1>5. CASE ChildClose
  BY <1>5 DEF ChildClose
<1>6. CASE ChildRead
  <2>1. inside > 0 \/ "write" \notin ends["parent"]
    BY <1>6 DEF ChildRead, IsOpen
  <2>2. /\ kid = "read" /\ kid' = "close0" /\ r_num' = inside /\ inside' = 0
        /\ UNCHANGED <<parent, ends, pipeKilled>>
    BY <1>6 DEF ChildRead
  <2>3. pipeKilled \subseteq {"sigpipe"} => inside \in {WORD, 2 * WORD}
    BY <2>1, <2>2
  <2>4. QED
    BY <2>2, <2>3
<1>7. CASE ChildExit
  BY <1>0, <1>7 DEF ChildExit
<1>8. CASE PipeKill
  <2>1. CASE parent' = "ended" /\ CloseAll("parent") /\ UNCHANGED kid
    BY <1>0, <1>8, <2>1 DEF PipeKill
  <2>2. CASE kid' = "ended" /\ CloseAll("child") /\ UNCHANGED parent
    BY <1>0, <1>8, <2>2 DEF PipeKill
  <2>3. QED
    BY <1>8, <2>1, <2>2 DEF PipeKill
<1>9. CASE UNCHANGED pipeVars
  BY <1>9 DEF pipeVars
<1>10. QED
  BY <1>1, <1>2, <1>3, <1>4, <1>5, <1>6, <1>7, <1>8, <1>9
     DEF PipeNext, ParentStep, ChildStep

(* The safety part of BothEnd: unless somebody is killed, the one read of  *)
(* the child returns "Hello", with or without " Pipe", in whichever order  *)
(* parent and child run.                                                   *)
THEOREM HelloArrives ==
  PipeSpec => [](kid = "ended" /\ pipeKilled \subseteq {"sigpipe"} => r_num \in {WORD, 2 * WORD})
<1>1. PipeInit => PipeInv
  BY DEF PipeInit, PipeInv, PipeTypes, Unread0
<1>2. PipeInv => (kid = "ended" /\ pipeKilled \subseteq {"sigpipe"} => r_num \in {WORD, 2 * WORD})
  BY DEF PipeInv, Unread0
<1>3. QED
  BY <1>1, <1>2, PipeStep, PTL DEF PipeSpec


-----------------------------------------------------------------------------
(* 01-ProcessCtrl, the System V programs.  Ids are given out once, to the  *)
(* run that asks for them, so there are never more of them than runs.      *)
IdsOK ==
  /\ issued <= Cardinality({r \in IpcRuns : id[r] # NoId})
  /\ \A r \in IpcRuns :
       /\ id[r] <= issued
       /\ run[r] = "get" => id[r] = NoId
       /\ run[r] \notin {"get", "ended"} => id[r] # NoId
  /\ \A k \in {"queue", "shm"} : named[k] <= issued
  /\ \A i \in ids : i <= issued /\ \E r \in IpcRuns : id[r] = i

PlacesOK ==
  \A r \in IpcRuns :
    /\ run[r] \in {"wait", "receive"} => r \in QueueRuns
    /\ run[r] = "receive" => child[r] = "ended"
    /\ run[r] = "attached" => r \in ShmRuns
    /\ child[r] # "none" => r \in QueueRuns

InQueue(r) == \E k \in DOMAIN messages[id[r]] : messages[id[r]][k] = r
HasRemover(i) == \E q \in QueueRuns : run[q] = "remove" /\ id[q] = i

(* A run that still waits for its message finds it, or somebody who took   *)
(* it is about to remove the queue; nobody ends before that.               *)
QueueOK ==
  ~unclean => \A r \in QueueRuns : id[r] \in ids =>
    /\ child[r] = "ended" /\ run[r] \in {"wait", "receive"} => InQueue(r) \/ HasRemover(id[r])
    /\ run[r] = "ended" => HasRemover(id[r])

(* What exists has a name or a user, users are attached, and a run that    *)
(* has ended has removed the name.                                         *)
SegmentOK ==
  /\ \A i \in ids : attached[i] # {} \/ \E k \in {"queue", "shm"} : named[k] = i
  /\ \A i \in Ids : \A r \in attached[i] : id[r] = i /\ run[r] = "attached"
  /\ ~unclean => \A r \in ShmRuns : \A k \in {"queue", "shm"} :
       run[r] = "ended" /\ id[r] # NoId => named[k] # id[r]

IpcInv == IpcTypeOK /\ IdsOK /\ PlacesOK /\ QueueOK /\ SegmentOK

LEMMA IdsCount == Cardinality(IpcRuns) \in Nat /\ IsFiniteSet(IpcRuns)
<1>1. IsFiniteSet(IpcRuns)
  BY IpcAssumption
<1>2. QED
  BY <1>1, FS_CardinalityType

LEMMA IdsAreNat == \A i \in {NoId} \cup Ids : i \in Nat
BY DEF NoId, Ids

LEMMA IpcInitial == IpcInit => IpcInv
<1> SUFFICES ASSUME IpcInit PROVE IpcInv
  OBVIOUS
<1>1. unclean \in BOOLEAN
  BY Zenon DEF IpcInit
<1>2. run \in [IpcRuns -> {"get", "got", "wait", "receive", "attached", "remove", "ended"}]
  BY DEF IpcInit
<1>3. IpcTypeOK
  BY <1>1, <1>2, IdsCount, EmptySeq DEF IpcInit, IpcTypeOK, Ids, NoId
<1>4. {r \in IpcRuns : id[r] # NoId} = {}
  BY DEF IpcInit
<1>5. IdsOK
  <2>1. \A r \in IpcRuns : run[r] \in {"get", "ended"} /\ id[r] = NoId
    BY DEF IpcInit
  <2>2. issued = 0 /\ ids = {} /\ named["queue"] = NoId /\ named["shm"] = NoId
    BY DEF IpcInit
  <2>3. issued <= Cardinality({r \in IpcRuns : id[r] # NoId})
    BY <1>4, <2>2, FS_EmptySet
  <2>4. QED
    BY <2>1, <2>2, <2>3 DEF IdsOK, NoId
<1>6. PlacesOK
  <2>1. \A r \in IpcRuns : run[r] \in {"get", "ended"} /\ child[r] = "none"
    BY DEF IpcInit
  <2>2. QED
    BY <2>1 DEF PlacesOK
<1>7. QueueOK /\ SegmentOK
  BY IdsCount DEF IpcInit, QueueOK, SegmentOK, IpcRuns, NoId, Ids
<1>8. QED
  BY <1>3, <1>5, <1>6, <1>7 DEF IpcInv

(* A run that has no id gets the next one: it is one of Ids.               *)
LEMMA NextIdIsFree ==
  ASSUME IpcInv, NEW r \in IpcRuns, id[r] = NoId
  PROVE  /\ issued + 1 \in Ids
         /\ Cardinality({q \in IpcRuns : q = r \/ id[q] # NoId}) >= issued + 1
<1> DEFINE S == {q \in IpcRuns : id[q] # NoId}
           T == {q \in IpcRuns : q = r \/ id[q] # NoId}
<1>1. IsFiniteSet(IpcRuns) /\ S \subseteq IpcRuns /\ T \subseteq IpcRuns
  BY IdsCount
<1>2. IsFiniteSet(S) /\ r \notin S /\ T = S \cup {r}
  BY <1>1, FS_Subset
<1>3. Cardinality(T) = Cardinality(S) + 1 /\ Cardinality(S) \in Nat
  BY <1>2, FS_AddElement, FS_CardinalityType
<1>4. Cardinality(T) <= Cardinality(IpcRuns)
  BY <1>1, FS_Subset
<1>5. issued <= Cardinality(S) /\ issued \in Nat
  BY IdsCount DEF IpcInv, IdsOK, IpcTypeOK, Ids, NoId
<1> HIDE DEF S, T
<1>6. issued + 1 \in Ids /\ Cardinality(T) >= issued + 1
  BY <1>3, <1>4, <1>5, IdsCount DEF Ids
<1>7. QED
  BY <1>6 DEF T

(* msgget and shmget.                                                      *)
LEMMA IpcGetFails ==
  ASSUME IpcInv, NEW r \in IpcRuns, RunAt(r, "get", "ended"),
         UNCHANGED <<objVars, id, messages, attached, child, unclean>>
  PROVE  IpcInv'
<1> USE DEF IpcInv, RunAt, objVars
<1>1. id[r] = NoId /\ NoId \notin ids /\ run[r] = "get"
  BY IdsCount DEF IdsOK, IpcTypeOK, Ids, NoId
<1>2. \A q \in IpcRuns : run'[q] = IF q = r THEN "ended" ELSE run[q]
  BY DEF IpcTypeOK
<1>3. IpcTypeOK'
  BY DEF IpcTypeOK
<1>4. IdsOK' /\ PlacesOK'
  BY <1>1, <1>2 DEF IdsOK, PlacesOK
<1>5. QueueOK'
  <2>1. \A i : HasRemover(i) => HasRemover(i)'
    BY <1>1, <1>2 DEF HasRemover, IpcRuns
  <2>2. InQueue(r)' <=> InQueue(r)
    BY DEF InQueue
  <2>3. QED
    BY <1>1, <1>2, <2>1 DEF QueueOK, InQueue, IpcRuns
<1>6. SegmentOK'
  BY <1>1, <1>2 DEF SegmentOK, IpcTypeOK, IpcRuns
<1>7. QED
  BY <1>3, <1>4, <1>5, <1>6

LEMMA IpcGetFinds ==
  ASSUME IpcInv, NEW r \in IpcRuns, RunAt(r, "get", "got"), named[Key(r)] # NoId,
         id' = [id EXCEPT ![r] = named[Key(r)]],
         UNCHANGED <<objVars, messages, attached, child, unclean>>
  PROVE  IpcInv'
<1> USE DEF IpcInv, RunAt, objVars
<1> DEFINE n == named[Key(r)]
           S == {q \in IpcRuns : id[q] # NoId}
<1>1. n \in Ids /\ n <= issued /\ n # NoId
  BY DEF Key, IpcTypeOK, IdsOK
<1>2. run[r] = "get" /\ id[r] = NoId
  BY DEF IdsOK
<1>3. \A q \in IpcRuns : /\ run'[q] = IF q = r THEN "got" ELSE run[q]
                         /\ id'[q] = IF q = r THEN n ELSE id[q]
  BY DEF IpcTypeOK
<1>4. IpcTypeOK'
  BY <1>1 DEF IpcTypeOK
<1>5. Cardinality(S) <= Cardinality(S') /\ Cardinality(S) \in Nat /\ Cardinality(S') \in Nat
  <2>1. IsFiniteSet(IpcRuns) /\ S' \subseteq IpcRuns /\ S \subseteq S'
    BY <1>1, <1>3, IdsCount
  <2>2. QED
    BY <2>1, FS_Subset, FS_CardinalityType
<1>6. issued <= Cardinality(S') /\ issued' = issued
  <2>1. issued <= Cardinality(S) /\ issued \in Nat
    BY IdsCount DEF IdsOK, IpcTypeOK, Ids, NoId
  <2> HIDE DEF S
  <2>2. QED
    BY <1>5, <2>1
<1>7. IdsOK'
  <2>1. issued' <= Cardinality({q \in IpcRuns : id[q] # NoId})'
    BY <1>6
  <2>2. \A i \in ids : \E q \in IpcRuns : id'[q] = i
    BY <1>2, <1>3 DEF IdsOK, IpcTypeOK, Ids, NoId
  <2> HIDE DEF n
  <2>3. QED
    BY <1>1, <1>2, <1>3, <2>1, <2>2 DEF IdsOK
<1> HIDE DEF n, S
<1>8. PlacesOK'
  BY <1>2, <1>3 DEF PlacesOK
<1>9. QueueOK'
  <2>1. \A i : HasRemover(i) => HasRemover(i)'
    BY <1>2, <1>3 DEF HasRemover, IpcRuns
  <2>2. \A q \in IpcRuns \ {r} : InQueue(q)' <=> InQueue(q)
    BY <1>3 DEF InQueue
  <2>3. QED
    BY <1>2, <1>3, <2>1, <2>2 DEF QueueOK, IpcRuns
<1>10. SegmentOK'
  BY <1>2, <1>3 DEF SegmentOK, IpcTypeOK, IpcRuns
<1>11. QED
  BY <1>4, <1>7, <1>8, <1>9, <1>10

LEMMA IpcGetCreates ==
  ASSUME IpcInv, NEW r \in IpcRuns, RunAt(r, "get", "got"), named[Key(r)] = NoId,
         issued' = issued + 1, id' = [id EXCEPT ![r] = issued'],
         named' = [named EXCEPT ![Key(r)] = issued'], ids' = ids \cup {issued'},
         UNCHANGED <<messages, attached, child, unclean>>
  PROVE  IpcInv'
<1> USE DEF IpcInv, RunAt
<1> DEFINE n == issued + 1
<1>1. n \in Ids /\ n > issued /\ n # NoId /\ issued' = n /\ issued \in Nat /\ Ids \subseteq Nat
  <2>1. id[r] = NoId
    BY DEF IdsOK
  <2>2. n \in Ids
    BY <2>1, NextIdIsFree
  <2>3. QED
    BY <2>2, IdsCount DEF Ids, NoId, IpcTypeOK
<1>2. run[r] = "get" /\ id[r] = NoId /\ Key(r) \in {"queue", "shm"}
  BY DEF IdsOK, Key
<1>3. \A q \in IpcRuns : /\ run'[q] = IF q = r THEN "got" ELSE run[q]
                         /\ id'[q] = IF q = r THEN n ELSE id[q]
  BY DEF IpcTypeOK
<1>4. \A k \in {"queue", "shm"} : named'[k] = IF k = Key(r) THEN n ELSE named[k]
  BY <1>2 DEF IpcTypeOK
<1>5. \A q \in IpcRuns : id[q] \in Nat /\ id[q] <= issued /\ id[q] # n
  <2>1. \A q \in IpcRuns : id[q] \in Nat /\ id[q] <= issued
    <3>1. TAKE q \in IpcRuns
    <3>2. id[q] \in {NoId} \cup Ids
      BY DEF IpcTypeOK
    <3>3. id[q] <= issued
      BY DEF IdsOK
    <3>4. QED
      BY <3>2, <3>3, IdsAreNat
  <2>2. QED
    BY <1>1, <2>1
<1>6. n \notin ids
  BY <1>5 DEF IdsOK
<1>7. IpcTypeOK'
  BY <1>1, <1>2 DEF IpcTypeOK
<1>8. IdsOK'
  <2>1. {q \in IpcRuns : id[q] # NoId}' = {q \in IpcRuns : q = r \/ id[q] # NoId}
    BY <1>1, <1>3
  <2>2. Cardinality({q \in IpcRuns : q = r \/ id[q] # NoId}) >= issued + 1
    BY <1>2, NextIdIsFree
  <2>3. issued' <= Cardinality({q \in IpcRuns : id[q] # NoId})'
    <3>1. IsFiniteSet({q \in IpcRuns : q = r \/ id[q] # NoId})
      BY IdsCount, FS_Subset
    <3>2. Cardinality({q \in IpcRuns : q = r \/ id[q] # NoId}) \in Nat
      BY <3>1, FS_CardinalityType
    <3> DEFINE T == {q \in IpcRuns : q = r \/ id[q] # NoId}
    <3>3. Cardinality(T) \in Nat /\ Cardinality(T) >= issued + 1
      BY <2>2, <3>2
    <3> HIDE DEF T
    <3>4. issued' <= Cardinality(T)
      BY <1>1, <3>3
    <3>5. QED
      BY <2>1, <3>4 DEF T
  <2>4. \A q \in IpcRuns : /\ id'[q] <= issued'
                           /\ run'[q] = "get" => id'[q] = NoId
                           /\ run'[q] \notin {"get", "ended"} => id'[q] # NoId
    <3> HIDE DEF n
    <3>1. TAKE q \in IpcRuns
    <3>2. CASE q = r
      BY <1>1, <1>3, <3>2
    <3>3. CASE q # r
      <4>1. id'[q] = id[q] /\ run'[q] = run[q]
        BY <1>3, <3>3
      <4>2. id[q] <= n
        BY <1>1, <1>5
      <4>3. QED
        BY <1>1, <4>1, <4>2 DEF IdsOK
    <3>4. QED
      BY <3>2, <3>3
  <2>5. \A k \in {"queue", "shm"} : named'[k] <= issued'
    <3>1. TAKE k \in {"queue", "shm"}
    <3>2. named[k] \in {NoId} \cup Ids
      BY DEF IpcTypeOK
    <3>3. named[k] <= issued
      BY DEF IdsOK
    <3>4. named[k] \in Nat
      BY <3>2, IdsAreNat
    <3>5. QED
      BY <1>1, <1>4, <3>3, <3>4
  <2>6. \A i \in ids' : i <= issued' /\ \E q \in IpcRuns : id'[q] = i
    <3>1. TAKE i \in ids'
    <3>2. CASE i = n
      BY <1>1, <1>3, <3>2
    <3>3. CASE i \in ids
      <4>1. i <= issued /\ i \in Nat /\ i # NoId
        BY <1>1, <3>3 DEF IdsOK, IpcTypeOK, Ids, NoId
      <4>2. PICK q \in IpcRuns : id[q] = i
        BY <3>3 DEF IdsOK
      <4>3. id'[q] = i
        BY <1>2, <1>3, <4>1, <4>2
      <4>4. QED
        BY <1>1, <4>1, <4>3
    <3>4. QED
      BY <1>1, <3>2, <3>3
  <2>7. QED
    BY <2>3, <2>4, <2>5, <2>6 DEF IdsOK
<1> HIDE DEF n
<1>9. PlacesOK'
  BY <1>2, <1>3 DEF PlacesOK
<1>10. QueueOK'
  <2>1. \A i : HasRemover(i) => HasRemover(i)'
    BY <1>2, <1>3 DEF HasRemover, IpcRuns
  <2>2. \A q \in IpcRuns \ {r} : (InQueue(q)' <=> InQueue(q)) /\ (id'[q] \in ids' => id[q] \in ids)
    BY <1>1, <1>3, <1>5 DEF InQueue
  <2>3. QED
    BY <1>2, <1>3, <2>1, <2>2 DEF QueueOK, IpcRuns
<1>11. SegmentOK'
  <2>1. \A i \in ids' : attached'[i] # {} \/ \E k \in {"queue", "shm"} : named'[k] = i
    <3>1. TAKE i \in ids'
    <3>2. CASE i = n
      BY <1>2, <1>4, <3>2
    <3>3. CASE i \in ids
      <4>1. i # NoId
        BY <3>3, IdsCount DEF IpcTypeOK, Ids, NoId
      <4>2. QED
        BY <1>4, <3>3, <4>1 DEF SegmentOK
    <3>4. QED
      BY <1>1, <3>2, <3>3
  <2>2. \A i \in Ids : \A q \in attached'[i] : id'[q] = i /\ run'[q] = "attached"
    BY <1>2, <1>3 DEF SegmentOK, IpcTypeOK, IpcRuns
  <2>3. ~unclean' => \A q \in ShmRuns : \A k \in {"queue", "shm"} :
          run'[q] = "ended" /\ id'[q] # NoId => named'[k] # id'[q]
    BY <1>3, <1>4, <1>5 DEF SegmentOK, IpcRuns
  <2>4. QED
    BY <2>1, <2>2, <2>3 DEF SegmentOK
<1>12. QED
  BY <1>7, <1>8, <1>9, <1>10, <1>11

(* Every other step gives out no id.                                       *)
LEMMA NoIdIssued ==
  ASSUME IpcInv, UNCHANGED <<id, issued>>, ids' \subseteq ids,
         \A k \in {"queue", "shm"} : named'[k] \in {named[k], NoId},
         \A q \in IpcRuns : /\ run'[q] = "get" => run[q] = "get"
                            /\ run'[q] \notin {"get", "ended"} => run[q] \notin {"get", "ended"}
  PROVE  IdsOK'
<1>1. NoId <= issued
  BY IdsAreNat DEF IpcInv, IpcTypeOK, NoId
<1>2. QED
  BY <1>1 DEF IpcInv, IdsOK

(* The steps of the queue runs do not touch segments.                      *)
LEMMA NoSegmentTouched ==
  ASSUME IpcInv, UNCHANGED <<named, attached, id, ids>>, unclean => unclean',
         \A q \in ShmRuns : run'[q] = run[q]
  PROVE  SegmentOK'
<1>1. \A i \in Ids : attached[i] \subseteq ShmRuns
  BY DEF IpcInv, IpcTypeOK
<1>2. QED
  BY <1>1 DEF IpcInv, SegmentOK

LEMMA IpcMsgFork ==
  ASSUME IpcInv, NEW r \in IpcRuns, MsgFork(r)
  PROVE  IpcInv'
<1> USE DEF IpcInv, RunAt, objVars
<1>1. /\ UNCHANGED <<named, ids, issued, messages, attached, id>>
      /\ run[r] = "got" /\ r \in QueueRuns
  BY DEF MsgFork
<1>2. /\ \A q \in IpcRuns \ {r} : run'[q] = run[q] /\ child'[q] = child[q]
      /\ \/ run'[r] = "wait" /\ child'[r] = "send" /\ unclean' = unclean
         \/ run'[r] = "ended" /\ child'[r] = child[r] /\ unclean'
  BY DEF MsgFork, IpcTypeOK
<1>3. IpcTypeOK'
  <2>1. unclean' \in BOOLEAN
    BY Zenon DEF MsgFork, IpcTypeOK
  <2>2. QED
    BY <1>1, <2>1 DEF MsgFork, IpcTypeOK
<1>4. IdsOK'
  BY <1>1, <1>2, NoIdIssued
<1>5. PlacesOK'
  BY <1>1, <1>2 DEF PlacesOK
<1>6. QueueOK'
  <2>1. \A i : HasRemover(i) => HasRemover(i)'
    BY <1>1, <1>2 DEF HasRemover, IpcRuns
  <2>2. \A q \in IpcRuns : InQueue(q)' <=> InQueue(q)
    BY <1>1 DEF InQueue
  <2>3. QED
    BY <1>1, <1>2, <2>1, <2>2 DEF QueueOK, IpcRuns
<1>7. SegmentOK'
  <2>1. (\A q \in ShmRuns : run'[q] = run[q]) /\ (unclean => unclean')
    BY <1>1, <1>2, IpcAssumption DEF IpcRuns
  <2>2. QED
    BY <1>1, <2>1, NoSegmentTouched
<1>8. QED
  BY <1>3, <1>4, <1>5, <1>6, <1>7

(* What the child appends stays behind what is there.                      *)
LEMMA IpcMsgSnd ==
  ASSUME IpcInv, NEW r \in IpcRuns, MsgSnd(r)
  PROVE  IpcInv'
<1> USE DEF IpcInv, objVars
<1>1. /\ UNCHANGED <<named, ids, issued, attached, run, id, unclean>>
      /\ child[r] = "send" /\ r \in QueueRuns
  BY DEF MsgSnd, PlacesOK
<1>2. \A q \in IpcRuns : child'[q] = IF q = r THEN "ended" ELSE child[q]
  BY DEF MsgSnd, IpcTypeOK
<1>3. IpcTypeOK'
  <2>1. child' \in [IpcRuns -> {"none", "send", "ended"}]
    BY DEF MsgSnd, IpcTypeOK
  <2>2. messages' \in [Ids -> Seq(QueueRuns)]
    <3>1. CASE id[r] \in ids
      <4>1. id[r] \in Ids
        BY <3>1 DEF IpcTypeOK
      <4>2. Append(messages[id[r]], r) \in Seq(QueueRuns)
        BY <1>1, <4>1, AppendProperties DEF IpcTypeOK
      <4>3. QED
        BY <3>1, <4>2 DEF MsgSnd, IpcTypeOK
    <3>2. CASE id[r] \notin ids
      BY <3>2 DEF MsgSnd, IpcTypeOK
    <3>3. QED
      BY <3>1, <3>2
  <2>3. QED
    BY <1>1, <2>1, <2>2 DEF IpcTypeOK
<1>4. IdsOK'
  BY <1>1, NoIdIssued
<1>5. PlacesOK'
  BY <1>1, <1>2 DEF PlacesOK
<1>6. QueueOK'
  <2>1. \A i : HasRemover(i) => HasRemover(i)'
    BY <1>1 DEF HasRemover
  <2>2. \A q \in QueueRuns : id[q] \in ids /\ (q = r \/ InQueue(q)) => InQueue(q)'
    <3>1. SUFFICES ASSUME NEW q \in QueueRuns, id[q] \in ids, q = r \/ InQueue(q)
                   PROVE  InQueue(q)'
      OBVIOUS
    <3>2. CASE id[q] # id[r]
      <4>1. messages'[id[q]] = messages[id[q]]
        BY <3>1, <3>2 DEF MsgSnd, IpcTypeOK
      <4>2. QED
        BY <1>1, <3>1, <3>2, <4>1 DEF InQueue
    <3>3. CASE id[q] = id[r]
      <4> DEFINE m == messages[id[r]]
      <4>1. id[r] \in Ids /\ m \in Seq(QueueRuns) /\ messages'[id[q]] = Append(m, r)
        BY <3>1, <3>3 DEF MsgSnd, IpcTypeOK
      <4> HIDE DEF m
      <4>2. Len(m) \in Nat /\ DOMAIN m = 1 .. Len(m) /\ DOMAIN Append(m, r) = 1 .. Len(m) + 1
        BY <1>1, <4>1, LenProperties, AppendProperties
      <4>3. \A k \in DOMAIN m : k \in DOMAIN Append(m, r) /\ Append(m, r)[k] = m[k]
        BY <1>1, <4>1, <4>2, AppendProperties
      <4>4. Len(m) + 1 \in DOMAIN Append(m, r) /\ Append(m, r)[Len(m) + 1] = r
        BY <1>1, <4>1, <4>2, AppendProperties
      <4>5. CASE q = r
        BY <1>1, <4>1, <4>4, <4>5 DEF InQueue
      <4>6. CASE InQueue(q)
        BY <1>1, <3>3, <4>1, <4>3, <4>6 DEF InQueue, m
      <4>7. QED
        BY <3>1, <4>5, <4>6
    <3>4. QED
      BY <3>1, <3>2, <3>3 DEF MsgSnd
  <2>3. QED
    BY <1>1, <1>2, <2>1, <2>2 DEF QueueOK, IpcRuns
<1>7. SegmentOK'
  BY <1>1 DEF SegmentOK
<1>8. QED
  BY <1>3, <1>4, <1>5, <1>6, <1>7

LEMMA IpcWaitPid ==
  ASSUME IpcInv, NEW r \in IpcRuns, WaitPid(r)
  PROVE  IpcInv'
<1> USE DEF IpcInv, RunAt, objVars
<1>1. /\ UNCHANGED <<named, ids, issued, messages, attached, child, id, unclean>>
      /\ run[r] = "wait" /\ child[r] = "ended" /\ r \in QueueRuns
  BY DEF WaitPid, PlacesOK
<1>2. \A q \in IpcRuns : run'[q] = IF q = r THEN "receive" ELSE run[q]
  BY DEF WaitPid, IpcTypeOK
<1>3. IpcTypeOK'
  BY <1>1 DEF WaitPid, IpcTypeOK
<1>4. IdsOK'
  BY <1>1, <1>2, NoIdIssued
<1>5. PlacesOK'
  BY <1>1, <1>2 DEF PlacesOK
<1>6. QueueOK'
  <2>1. \A i : HasRemover(i) => HasRemover(i)'
    BY <1>1, <1>2 DEF HasRemover, IpcRuns
  <2>2. \A q \in IpcRuns : InQueue(q)' <=> InQueue(q)
    BY <1>1 DEF InQueue
  <2>3. QED
    BY <1>1, <1>2, <2>1, <2>2 DEF QueueOK, IpcRuns
<1>7. SegmentOK'
  <2>1. (\A q \in ShmRuns : run'[q] = run[q]) /\ (unclean => unclean')
    BY <1>1, <1>2, IpcAssumption DEF IpcRuns
  <2>2. QED
    BY <1>1, <2>1, NoSegmentTouched
<1>8. QED
  BY <1>3, <1>4, <1>5, <1>6, <1>7

(* msgrcv: whoever takes the last message is the one who removes the queue.*)
LEMMA IpcMsgRcv ==
  ASSUME IpcInv, NEW r \in IpcRuns, MsgRcv(r)
  PROVE  IpcInv'
<1> USE DEF IpcInv, RunAt, objVars
<1> DEFINE found == id[r] \in ids /\ messages[id[r]] # <<>>
<1>1. /\ UNCHANGED <<named, ids, issued, attached, child, id, unclean>>
      /\ run[r] = "receive" /\ child[r] = "ended" /\ r \in QueueRuns
  BY DEF MsgRcv, PlacesOK
<1>2. \A q \in IpcRuns : run'[q] = IF q = r THEN IF found THEN "remove" ELSE "ended" ELSE run[q]
  BY DEF MsgRcv, IpcTypeOK
<1>3. messages' = IF found THEN [messages EXCEPT ![id[r]] = Tail(@)] ELSE messages
  BY DEF MsgRcv
<1>4. IpcTypeOK'
  <2>1. run' \in [IpcRuns -> {"get", "got", "wait", "receive", "attached", "remove", "ended"}]
    BY DEF MsgRcv, IpcTypeOK
  <2>2. messages' \in [Ids -> Seq(QueueRuns)]
    <3>1. CASE found
      <4>1. Tail(messages[id[r]]) \in Seq(QueueRuns)
        BY <3>1 DEF IpcTypeOK
      <4>2. QED
        BY <1>3, <3>1, <4>1 DEF IpcTypeOK
    <3>2. QED
      BY <1>3, <3>1 DEF IpcTypeOK
  <2>3. QED
    BY <1>1, <2>1, <2>2 DEF IpcTypeOK
<1>5. IdsOK'
  BY <1>1, <1>2, NoIdIssued
<1>6. PlacesOK'
  BY <1>1, <1>2 DEF PlacesOK
<1>7. QueueOK'
  <2>1. \A i : HasRemover(i) => HasRemover(i)'
    BY <1>1, <1>2 DEF HasRemover, IpcRuns
  <2>2. CASE found
    <3>1. HasRemover(id[r])'
      BY <1>1, <1>2, <2>2 DEF HasRemover
    <3>2. \A q \in QueueRuns : id[q] # id[r] => (InQueue(q)' <=> InQueue(q)) /\ run'[q] = run[q]
      <4>1. \A q \in QueueRuns : id[q] # id[r] => messages'[id[q]] = messages[id[q]]
        BY <1>3, <2>2 DEF IpcTypeOK
      <4>2. QED
        BY <1>1, <1>2, <4>1 DEF InQueue, IpcRuns
    <3>3. QED
      BY <1>1, <2>1, <3>1, <3>2 DEF QueueOK
  <2>3. CASE ~found
    <3>1. \A q \in QueueRuns : InQueue(q)' <=> InQueue(q)
      BY <1>1, <1>3, <2>3 DEF InQueue
    <3>2. id[r] \in ids => ~InQueue(r)
      BY <2>3 DEF InQueue
    <3>3. ~unclean /\ id[r] \in ids => HasRemover(id[r])
      BY <1>1, <3>2 DEF QueueOK
    <3>4. \A q \in QueueRuns \ {r} : run'[q] = run[q]
      BY <1>2 DEF IpcRuns
    <3>5. run'[r] = "ended"
      BY <1>2, <2>3
    <3>6. QED
      BY <1>1, <2>1, <3>1, <3>3, <3>4, <3>5 DEF QueueOK
  <2>4. QED
    BY <2>2, <2>3
<1>8. SegmentOK'
  <2>1. \A q \in ShmRuns : run'[q] = run[q]
    BY <1>1, <1>2, IpcAssumption DEF IpcRuns
  <2>2. QED
    BY <1>1, <2>1, NoSegmentTouched
<1>9. QED
  BY <1>4, <1>5, <1>6, <1>7, <1>8

(* Removing a name takes an object away only with the name.                *)
LEMMA NameRemoved ==
  ASSUME IpcInv, NEW r \in IpcRuns, NEW users, RemoveId(id[r], users), UNCHANGED <<id, attached>>,
         id[r] # NoId, users = {} \/ users = attached[id[r]],
         run[r] = "remove", run' = [run EXCEPT ![r] = "ended"], UNCHANGED unclean
  PROVE  /\ named' \in [{"queue", "shm"} -> {NoId} \cup Ids]
         /\ IdsOK' /\ SegmentOK'
<1> USE DEF IpcInv
<1>1. /\ ids' \subseteq ids /\ issued' = issued
      /\ \A i \in ids' : i \in ids /\ (i = id[r] => attached[i] # {})
  BY DEF RemoveId
<1>2. named' \in [{"queue", "shm"} -> {NoId} \cup Ids]
  BY DEF RemoveId, IpcTypeOK
<1>3. \A k \in {"queue", "shm"} : named'[k] = IF named[k] = id[r] THEN NoId ELSE named[k]
  BY DEF RemoveId, IpcTypeOK
<1>4. \A q \in IpcRuns : run'[q] = IF q = r THEN "ended" ELSE run[q]
  BY DEF IpcTypeOK
<1>5. IdsOK'
  BY <1>1, <1>3, <1>4, NoIdIssued
<1>6. SegmentOK'
  <2>1. \A i \in ids' : attached'[i] # {} \/ \E k \in {"queue", "shm"} : named'[k] = i
    BY <1>1, <1>3 DEF SegmentOK
  <2>2. \A i \in Ids : \A q \in attached'[i] : id'[q] = i /\ run'[q] = "attached"
    BY <1>4 DEF SegmentOK, IpcTypeOK, IpcRuns
  <2>3. ~unclean' => \A q \in ShmRuns : \A k \in {"queue", "shm"} :
          run'[q] = "ended" /\ id'[q] # NoId => named'[k] # id'[q]
    BY <1>3, <1>4 DEF SegmentOK, IpcRuns
  <2>4. QED
    BY <2>1, <2>2, <2>3 DEF SegmentOK
<1>7. QED
  BY <1>2, <1>5, <1>6

LEMMA IpcMsgRemove ==
  ASSUME IpcInv, NEW r \in IpcRuns, MsgRemove(r)
  PROVE  IpcInv'
<1> USE DEF IpcInv, RunAt, objVars
<1>1. /\ UNCHANGED <<attached, child, id, unclean>> /\ RemoveId(id[r], {})
      /\ run[r] = "remove" /\ run' = [run EXCEPT ![r] = "ended"]
      /\ messages' = [messages EXCEPT ![id[r]] = <<>>]
      /\ ids' = ids \ {id[r]} /\ issued' = issued
  BY DEF MsgRemove, RemoveId
<1>2. \A q \in IpcRuns : run'[q] = IF q = r THEN "ended" ELSE run[q]
  BY <1>1 DEF IpcTypeOK
<1>3. id[r] # NoId
  BY <1>1 DEF IdsOK
<1>4. named' \in [{"queue", "shm"} -> {NoId} \cup Ids] /\ IdsOK' /\ SegmentOK'
  BY <1>1, <1>3, NameRemoved
<1>5. IpcTypeOK'
  <2>1. messages' \in [Ids -> Seq(QueueRuns)]
    BY <1>1, EmptySeq DEF IpcTypeOK
  <2>2. QED
    BY <1>1, <1>4, <2>1 DEF IpcTypeOK
<1>6. PlacesOK'
  BY <1>1, <1>2 DEF PlacesOK
<1>7. QueueOK'
  <2>1. \A i : i # id[r] /\ HasRemover(i) => HasRemover(i)'
    BY <1>1, <1>2 DEF HasRemover, IpcRuns
  <2>2. \A q \in QueueRuns : id[q] # id[r] => messages'[id[q]] = messages[id[q]]
    BY <1>1 DEF IpcTypeOK
  <2>3. \A q \in QueueRuns : id[q] # id[r] => (InQueue(q)' <=> InQueue(q)) /\ run'[q] = run[q]
    BY <1>1, <1>2, <2>2 DEF InQueue, IpcRuns
  <2>4. QED
    BY <1>1, <2>1, <2>3 DEF QueueOK
<1>8. QED
  BY <1>4, <1>5, <1>6, <1>7

(* The steps of the segment runs do not touch queues.                      *)
LEMMA NoQueueTouched ==
  ASSUME IpcInv, UNCHANGED <<id, messages, child>>, ids' \subseteq ids, unclean => unclean',
         \A q \in QueueRuns : run'[q] = run[q]
  PROVE  QueueOK'
<1>1. \A i : HasRemover(i)' <=> HasRemover(i)
  BY DEF HasRemover
<1>2. \A q \in QueueRuns : InQueue(q)' <=> InQueue(q)
  BY DEF InQueue
<1>3. QED
  BY <1>1, <1>2 DEF IpcInv, QueueOK

LEMMA IpcShmAt ==
  ASSUME IpcInv, NEW r \in IpcRuns, ShmAt(r)
  PROVE  IpcInv'
<1> USE DEF IpcInv, RunAt, objVars
<1>1. /\ UNCHANGED <<named, ids, issued, messages, child, id, unclean>>
      /\ run[r] = "got" /\ r \in ShmRuns
      /\ attached' = IF id[r] \in ids THEN [attached EXCEPT ![id[r]] = @ \cup {r}] ELSE attached
  BY DEF ShmAt
<1>2. \A q \in IpcRuns : run'[q] = IF q = r THEN "attached" ELSE run[q]
  BY DEF ShmAt, IpcTypeOK
<1>3. attached' \in [Ids -> SUBSET ShmRuns]
  BY <1>1 DEF IpcTypeOK
<1>4. \A i \in Ids : /\ attached[i] \subseteq attached'[i]
                     /\ attached'[i] \subseteq attached[i] \cup {q \in {r} : id[q] = i}
  BY <1>1 DEF IpcTypeOK
<1>5. IpcTypeOK'
  BY <1>1, <1>3 DEF ShmAt, IpcTypeOK
<1>6. IdsOK'
  BY <1>1, <1>2, NoIdIssued
<1>7. PlacesOK'
  BY <1>1, <1>2 DEF PlacesOK
<1>8. QueueOK'
  <2>1. \A q \in QueueRuns : run'[q] = run[q]
    BY <1>1, <1>2, IpcAssumption DEF IpcRuns
  <2>2. QED
    BY <1>1, <2>1, NoQueueTouched
<1>9. SegmentOK'
  <2>1. \A i \in ids : attached[i] # {} => attached'[i] # {}
    BY <1>4 DEF IpcTypeOK
  <2>2. \A i \in Ids : \A q \in attached'[i] : id'[q] = i /\ run'[q] = "attached"
    BY <1>1, <1>2, <1>4 DEF SegmentOK, IpcTypeOK, IpcRuns
  <2>3. QED
    BY <1>1, <1>2, <2>1, <2>2 DEF SegmentOK, IpcRuns
<1>10. QED
  BY <1>5, <1>6, <1>7, <1>8, <1>9

(* A run that detaches, in shmdt or when it is killed.                     *)
LEMMA Detached ==
  ASSUME IpcInv, NEW r \in IpcRuns, NEW to, Detach(r), UNCHANGED id,
         run' = [run EXCEPT ![r] = to], (to = "remove" /\ run[r] = "attached") \/ to = "ended",
         to = "ended" => unclean', unclean => unclean'
  PROVE  /\ ids' \subseteq ids
         /\ attached' \in [Ids -> SUBSET ShmRuns]
         /\ IdsOK' /\ SegmentOK'
<1> USE DEF IpcInv
<1>1. /\ ids' \subseteq ids /\ UNCHANGED <<named, issued>>
      /\ \A i \in ids' : i \in ids /\ (attached[i] = {r} => \E k \in {"queue", "shm"} : named[k] = i)
  BY DEF Detach, IpcTypeOK
<1>2. attached' \in [Ids -> SUBSET ShmRuns] /\ \A i \in Ids : attached'[i] = attached[i] \ {r}
  BY DEF Detach, IpcTypeOK
<1>3. \A q \in IpcRuns : run'[q] = IF q = r THEN to ELSE run[q]
  BY DEF IpcTypeOK
<1>4. IdsOK'
  <2>1. \A k \in {"queue", "shm"} : named'[k] \in {named[k], NoId}
    BY <1>1
  <2>2. QED
    BY <1>1, <1>3, <2>1, NoIdIssued
<1>5. SegmentOK'
  <2>1. \A i \in ids' : attached'[i] # {} \/ \E k \in {"queue", "shm"} : named'[k] = i
    BY <1>1, <1>2 DEF SegmentOK, IpcTypeOK
  <2>2. \A i \in Ids : \A q \in attached'[i] : id'[q] = i /\ run'[q] = "attached"
    BY <1>2, <1>3 DEF SegmentOK, IpcTypeOK, IpcRuns
  <2>3. ~unclean' => \A q \in ShmRuns : \A k \in {"queue", "shm"} :
          run'[q] = "ended" /\ id'[q] # NoId => named'[k] # id'[q]
    BY <1>1, <1>3 DEF SegmentOK, IpcRuns
  <2>4. QED
    BY <2>1, <2>2, <2>3 DEF SegmentOK
<1>6. QED
  BY <1>1, <1>2, <1>4, <1>5

LEMMA IpcShmDt ==
  ASSUME IpcInv, NEW r \in IpcRuns, ShmDt(r)
  PROVE  IpcInv'
<1> USE DEF IpcInv, RunAt, objVars
<1>1. /\ UNCHANGED <<named, issued, messages, child, id, unclean>> /\ Detach(r)
      /\ run[r] = "attached" /\ run' = [run EXCEPT ![r] = "remove"] /\ r \in ShmRuns
  BY DEF ShmDt, Detach, PlacesOK
<1>2. ids' \subseteq ids /\ attached' \in [Ids -> SUBSET ShmRuns] /\ IdsOK' /\ SegmentOK'
  <2>1. unclean => unclean'
    BY <1>1
  <2>2. QED
    BY <1>1, <2>1, Detached
<1>3. \A q \in IpcRuns : run'[q] = IF q = r THEN "remove" ELSE run[q]
  BY <1>1 DEF IpcTypeOK
<1>4. IpcTypeOK' /\ PlacesOK'
  BY <1>1, <1>2, <1>3 DEF IpcTypeOK, PlacesOK
<1>5. QueueOK'
  <2>1. \A q \in QueueRuns : run'[q] = run[q]
    BY <1>1, <1>3, IpcAssumption DEF IpcRuns
  <2>2. QED
    BY <1>1, <1>2, <2>1, NoQueueTouched
<1>6. QED
  BY <1>2, <1>4, <1>5

LEMMA IpcShmRemove ==
  ASSUME IpcInv, NEW r \in IpcRuns, ShmRemove(r)
  PROVE  IpcInv'
<1> USE DEF IpcInv, RunAt, objVars
<1>1. /\ UNCHANGED <<issued, messages, attached, child, id, unclean>> /\ r \in ShmRuns
      /\ RemoveId(id[r], attached[id[r]]) /\ ids' \subseteq ids
      /\ run[r] = "remove" /\ run' = [run EXCEPT ![r] = "ended"]
  BY DEF ShmRemove, RemoveId
<1>2. \A q \in IpcRuns : run'[q] = IF q = r THEN "ended" ELSE run[q]
  BY <1>1 DEF IpcTypeOK
<1>3. id[r] # NoId
  BY <1>1 DEF IdsOK
<1>4. named' \in [{"queue", "shm"} -> {NoId} \cup Ids] /\ IdsOK' /\ SegmentOK'
  BY <1>1, <1>3, NameRemoved
<1>5. IpcTypeOK' /\ PlacesOK'
  BY <1>1, <1>2, <1>4 DEF IpcTypeOK, PlacesOK
<1>6. QueueOK'
  <2>1. \A q \in QueueRuns : run'[q] = run[q]
    BY <1>1, <1>2, IpcAssumption DEF IpcRuns
  <2>2. QED
    BY <1>1, <2>1, NoQueueTouched
<1>7. QED
  BY <1>4, <1>5, <1>6

LEMMA IpcKilled ==
  ASSUME IpcInv, NEW r \in IpcRuns, IpcKill(r)
  PROVE  IpcInv'
<1> USE DEF IpcInv, objVars
<1>1. /\ UNCHANGED <<named, issued, messages, child, id>> /\ Detach(r)
      /\ run' = [run EXCEPT ![r] = "ended"] /\ unclean'
  BY DEF IpcKill, Detach
<1>2. ids' \subseteq ids /\ attached' \in [Ids -> SUBSET ShmRuns] /\ IdsOK' /\ SegmentOK'
  BY <1>1, Detached
<1>3. \A q \in IpcRuns : run'[q] = IF q = r THEN "ended" ELSE run[q]
  BY <1>1 DEF IpcTypeOK
<1>4. unclean' \in BOOLEAN
  BY Zenon DEF IpcKill
<1>5. IpcTypeOK' /\ PlacesOK'
  BY <1>1, <1>2, <1>3, <1>4 DEF IpcTypeOK, PlacesOK
<1>6. QueueOK'
  BY <1>1 DEF QueueOK
<1>7. QED
  BY <1>2, <1>5, <1>6

LEMMA IpcStepKeeps == IpcInv /\ [IpcNext]_ipcVars => IpcInv'
<1> SUFFICES ASSUME IpcInv, [IpcNext]_ipcVars PROVE IpcInv'
  OBVIOUS
<1>1. ASSUME NEW r \in IpcRuns, IpcGet(r) PROVE IpcInv'
  BY <1>1, IpcGetFails, IpcGetFinds, IpcGetCreates DEF IpcGet
<1>2. ASSUME NEW r \in IpcRuns, IpcStep(r) \/ IpcKill(r) PROVE IpcInv'
  BY <1>1, <1>2, IpcMsgFork, IpcMsgSnd, IpcWaitPid, IpcMsgRcv, IpcMsgRemove, IpcShmAt, IpcShmDt,
     IpcShmRemove, IpcKilled DEF IpcStep
<1>3. CASE UNCHANGED ipcVars
  <2>1. UNCHANGED <<named, ids, issued, messages, attached, run, child, id, unclean>>
    BY <1>3 DEF ipcVars
  <2>2. \A i : HasRemover(i)' <=> HasRemover(i)
    BY <2>1 DEF HasRemover
  <2>3. \A q : InQueue(q)' <=> InQueue(q)
    BY <2>1 DEF InQueue
  <2>4. IpcTypeOK' /\ IdsOK' /\ PlacesOK'
    BY <2>1 DEF IpcInv, IpcTypeOK, IdsOK, PlacesOK
  <2>5. QueueOK' /\ SegmentOK'
    BY <2>1, <2>2, <2>3 DEF IpcInv, QueueOK, SegmentOK
  <2>6. QED
    BY <2>4, <2>5 DEF IpcInv
<1>4. QED
  BY <1>2, <1>3 DEF IpcNext

(* When all runs of Mesge_queues_RW.c or shareMemery_shm.c have ended, and *)
(* none was killed or could not fork, no queue and no segment is left,     *)
(* however many there were: a run that found no message left the queue to  *)
(* one that will remove it, and a segment goes with its name or its last   *)
(* user.                                                                   *)
THEOREM NothingIsLeft == IpcSpec => []NothingLeft
<1>1. IpcInv => NothingLeft
  <2>1. SUFFICES ASSUME IpcInv, \A r \in IpcRuns : run[r] = "ended", ~unclean,
                        NEW i \in ids
                 PROVE  FALSE
    BY DEF NothingLeft
  <2>2. PICK r \in IpcRuns : id[r] = i
    BY <2>1 DEF IpcInv, IdsOK
  <2>3. CASE r \in QueueRuns
    BY <2>1, <2>2, <2>3 DEF IpcInv, QueueOK, HasRemover, IpcRuns
  <2>4. CASE r \in ShmRuns
    <3>1. i \in Ids /\ i # NoId
      BY <2>1, IdsCount DEF IpcInv, IpcTypeOK, Ids, NoId
    <3>2. attached[i] # {}
      BY <2>1, <2>2, <2>4, <3>1 DEF IpcInv, SegmentOK
    <3>3. PICK q : q \in attached[i]
      BY <3>2
    <3>4. QED
      BY <2>1, <3>1, <3>3 DEF IpcInv, IpcTypeOK, SegmentOK, IpcRuns
  <2>5. QED
    BY <2>3, <2>4 DEF IpcRuns
<1>2. QED
  BY <1>1, IpcInitial, IpcStepKeeps, PTL DEF IpcSpec

-----------------------------------------------------------------------------
(* The FIFO programs.  Types, and what is open at each place of a program. *)
FifoTypes ==
  /\ path \in {0} \cup Fifos
  /\ made \in 0 .. MaxFifos
  /\ queue \in [Fifos -> Seq(Writers)]
  /\ pc \in [Procs -> {"start", "mkfifo", "open", "opening", "loop", "ready",
                       "write", "written", "refused", "failed", "exit"}]
  /\ ino \in [Procs -> {0} \cup Fifos]
  /\ last \in [Readers -> {"none", "data", "eof", "again"}]

OpenOK ==
  /\ \A r \in Readers :
       /\ pc[r] \in {"start", "mkfifo", "open", "exit", "opening", "loop", "ready"}
       /\ ino[r] # 0 <=> pc[r] \in {"opening", "loop", "ready"}
       /\ pc[r] = "ready" => Kind[r] = "select"
  /\ \A w \in Writers : ino[w] # 0 <=> pc[w] \in {"write", "written", "refused"}

(* A select reader has its own write end, and so never reads an end of     *)
(* file; what it waited for is taken by another reader only.               *)
SelectOK ==
  /\ \A r \in Readers : Kind[r] = "select" => last[r] # "eof"
  /\ killed = {} => \A r \in Readers : pc[r] = "ready" =>
       queue[ino[r]] # <<>> \/ \E r2 \in Readers \ {r} : ino[r2] = ino[r]

(* Where there is a message there is a reader, as long as none is killed.  *)
HeldOK ==
  killed = {} => lost = {} /\ \A n \in Fifos : queue[n] # <<>> => \E r \in Readers : ino[r] = n

FifoInv == FifoTypes /\ OpenOK /\ SelectOK /\ HeldOK

LEMMA ProcsDiffer == \A r \in Readers, w \in Writers : r # w /\ r \in Procs /\ w \in Procs
BY FifoAssumption DEF Procs

LEMMA FifoInitial == Init => FifoInv
<1> SUFFICES ASSUME Init PROVE FifoInv
  OBVIOUS
<1>1. FifoTypes
  <2>1. pc \in [Procs -> {"start", "mkfifo", "open", "opening", "loop", "ready",
                          "write", "written", "refused", "failed", "exit"}]
    BY DEF Init
  <2>2. QED
    BY <2>1, FifoAssumption, EmptySeq DEF Init, FifoTypes
<1>2. \A q \in Procs : pc[q] = "start" /\ ino[q] = 0
  BY DEF Init
<1>3. OpenOK
  BY <1>2, ProcsDiffer DEF OpenOK, Procs
<1>4. SelectOK /\ HeldOK
  BY <1>2 DEF Init, SelectOK, HeldOK, Procs
<1>5. QED
  BY <1>1, <1>3, <1>4 DEF FifoInv

(* A step of r alone before it has opened the FIFO.                        *)
LEMMA BeforeOpen ==
  ASSUME FifoInv, NEW r \in Readers, NEW l, l \in {"mkfifo", "open", "exit"},
         pc[r] \in {"start", "mkfifo", "open"}, pc' = [pc EXCEPT ![r] = l],
         path' \in {0} \cup Fifos, made' \in 0 .. MaxFifos,
         UNCHANGED <<queue, ino, last, lost, killed>>
  PROVE  FifoInv'
<1> USE DEF FifoInv
<1>1. \A q \in Procs : pc'[q] = IF q = r THEN l ELSE pc[q]
  BY DEF FifoTypes
<1>2. FifoTypes'
  BY DEF FifoTypes
<1>3. OpenOK'
  BY <1>1, ProcsDiffer DEF OpenOK, Procs
<1>4. SelectOK' /\ HeldOK'
  BY <1>1, ProcsDiffer DEF SelectOK, HeldOK, Procs
<1>5. QED
  BY <1>2, <1>3, <1>4

(* mkfifo, unless somebody has made it, is the only step that makes one.   *)
LEMMA FifoUnlinkMkfifo ==
  ASSUME FifoInv, NEW r \in Readers, Unlink(r) \/ Mkfifo(r)
  PROVE  FifoInv'
<1>1. path \in {0} \cup Fifos /\ made \in 0 .. MaxFifos
  BY DEF FifoInv, FifoTypes
<1>2. path' \in {0} \cup Fifos /\ made' \in 0 .. MaxFifos
  BY <1>1, FifoAssumption DEF Unlink, Mkfifo, Fifos
<1>3. QED
  BY <1>2, BeforeOpen DEF Unlink, Mkfifo, Goto

(* A process opens FIFO n, and readers that wait for a writer go on.       *)
LEMMA FifoOpened ==
  ASSUME FifoInv, NEW q \in Procs, NEW l, NEW n \in Fifos,
         ino[q] = 0, ino' = [ino EXCEPT ![q] = n],
         pc' \in {[pc EXCEPT ![q] = l], Awake(n, q, l)},
         q \in Readers => l \in {"opening", "loop"},
         q \in Writers => l = "write",
         UNCHANGED <<path, made, queue, last, lost, killed>>
  PROVE  FifoInv'
<1> USE DEF FifoInv
<1>1. \A s \in Procs : ino'[s] = IF s = q THEN n ELSE ino[s]
  BY DEF FifoTypes
<1>2. \A s \in Procs \ {q} : pc'[s] = pc[s] \/ (s \in Readers /\ pc[s] = "opening" /\ pc'[s] = "loop")
  BY DEF Awake, ReadEnds, FifoTypes
<1>3. pc'[q] = l /\ pc' \in [Procs -> {"start", "mkfifo", "open", "opening", "loop", "ready",
                                       "write", "written", "refused", "failed", "exit"}]
  BY DEF Awake, FifoTypes, Procs
<1>4. n # 0
  BY DEF Fifos
<1>5. FifoTypes'
  BY <1>3 DEF FifoTypes
<1>6. OpenOK'
  <2>1. \A r \in Readers :
          /\ pc'[r] \in {"start", "mkfifo", "open", "exit", "opening", "loop", "ready"}
          /\ ino'[r] # 0 <=> pc'[r] \in {"opening", "loop", "ready"}
          /\ pc'[r] = "ready" => Kind[r] = "select"
    <3>1. TAKE r \in Readers
    <3>2. CASE r = q
      BY <1>1, <1>3, <1>4, <3>2
    <3>3. CASE r # q
      BY <1>1, <1>2, <3>3 DEF OpenOK, Procs
    <3>4. QED
      BY <3>2, <3>3
  <2>2. \A w \in Writers : ino'[w] # 0 <=> pc'[w] \in {"write", "written", "refused"}
    <3>1. TAKE w \in Writers
    <3>2. CASE w = q
      BY <1>1, <1>3, <1>4, <3>2
    <3>3. CASE w # q
      <4>1. w \in Procs /\ w \notin Readers
        BY ProcsDiffer, FifoAssumption DEF Procs
      <4>2. ino'[w] = ino[w] /\ pc'[w] = pc[w]
        BY <1>1, <1>2, <3>3, <4>1
      <4>3. QED
        BY <4>2 DEF OpenOK
    <3>4. QED
      BY <3>2, <3>3
  <2>3. QED
    BY <2>1, <2>2 DEF OpenOK
<1>7. SelectOK'
  <2>1. \A s \in Readers : pc'[s] = "ready" => pc[s] = "ready" /\ ino'[s] = ino[s] /\ s # q
    BY <1>1, <1>2, <1>3, ProcsDiffer DEF Procs
  <2>2. \A s \in Readers : ino[s] # 0 => ino'[s] = ino[s]
    BY <1>1 DEF Procs
  <2>3. \A s \in Readers : pc'[s] = "ready" => ino[s] # 0
    BY <2>1 DEF OpenOK
  <2>4. QED
    BY <2>1, <2>2, <2>3 DEF SelectOK
<1>8. HeldOK'
  <2>1. \A s \in Readers : ino[s] # 0 => ino'[s] = ino[s]
    BY <1>1 DEF Procs
  <2>2. \A m \in Fifos : m # 0
    BY DEF Fifos
  <2>3. QED
    BY <2>1, <2>2 DEF HeldOK
<1>9. QED
  BY <1>5, <1>6, <1>7, <1>8

LEMMA FifoOpen ==
  ASSUME FifoInv, NEW r \in Readers, Open(r)
  PROVE  FifoInv'
<1>1. pc[r] = "open" /\ ino[r] = 0 /\ r \in Procs
  BY DEF Open, FifoInv, OpenOK, Procs
<1>2. CASE ino' = [ino EXCEPT ![r] = path] /\ path # 0
  <2>1. path \in Fifos
    BY <1>2 DEF FifoInv, FifoTypes
  <2>2. PICK l \in {"opening", "loop"} : pc' \in {[pc EXCEPT ![r] = l], Awake(path, r, l)}
    <3>1. Kind[r] \in {"select", "poll", "block"}
      BY FifoAssumption
    <3>2. Kind[r] = "select" => pc' = Awake(path, r, "loop")
      BY <1>1, <1>2, <2>1 DEF Open, Goto, FifoInv, FifoTypes
    <3>3. QED
      BY <1>1, <1>2, <2>1, <3>1, <3>2 DEF Open, Goto, FifoInv, FifoTypes
  <2>3. QED
    BY <1>1, <1>2, <2>1, <2>2, FifoOpened, ProcsDiffer DEF Open
<1>3. CASE Goto(r, "exit") /\ UNCHANGED ino
  <2>1. path' \in {0} \cup Fifos /\ made' \in 0 .. MaxFifos
    BY DEF Open, FifoInv, FifoTypes
  <2>2. QED
    BY <1>1, <1>3, <2>1, BeforeOpen DEF Open, Goto
<1>4. QED
  BY <1>2, <1>3 DEF Open

LEMMA FifoWriterOpen ==
  ASSUME FifoInv, NEW w \in Writers, WriterOpen(w)
  PROVE  FifoInv'
<1> USE DEF FifoInv
<1>1. pc[w] = "start" /\ ino[w] = 0 /\ w \in Procs /\ w \notin Readers
  BY ProcsDiffer DEF WriterOpen, OpenOK, Procs
<1>2. CASE ino' = [ino EXCEPT ![w] = path] /\ path # 0 /\ pc' = Awake(path, w, "write")
  <2>1. path \in Fifos
    BY <1>2 DEF FifoTypes
  <2>2. QED
    BY <1>1, <1>2, <2>1, FifoOpened DEF WriterOpen
<1>3. CASE Goto(w, "failed") /\ UNCHANGED ino
  <2>1. \A q \in Procs : pc'[q] = IF q = w THEN "failed" ELSE pc[q]
    BY <1>3 DEF Goto, FifoTypes
  <2>2. FifoTypes' /\ HeldOK'
    BY <1>3 DEF WriterOpen, Goto, FifoTypes, HeldOK
  <2>3. OpenOK'
    BY <1>1, <1>3, <2>1, ProcsDiffer DEF OpenOK, Procs
  <2>4. SelectOK'
    BY <1>1, <1>3, <2>1, ProcsDiffer DEF WriterOpen, SelectOK
  <2>5. QED
    BY <2>2, <2>3, <2>4
<1>4. QED
  BY <1>2, <1>3 DEF WriterOpen

(* A read takes a message from a reader that selected only if both have    *)
(* the same FIFO open.                                                     *)
LEMMA FifoTake ==
  ASSUME FifoInv, NEW r \in Readers, Take(r), pc[r] \in {"loop", "ready"},
         pc' = [pc EXCEPT ![r] = "loop"],
         UNCHANGED <<path, made, ino, lost, killed>>
  PROVE  FifoInv'
<1> USE DEF FifoInv
<1>1. ino[r] # 0 /\ ino[r] \in Fifos /\ r \in Procs
  BY DEF OpenOK, FifoTypes, Procs
<1>2. Kind[r] = "select" => Found(ino[r]) # "eof"
  BY <1>1 DEF Found, WriteEnds
<1>3. \A q \in Readers : last'[q] = IF q = r THEN Found(ino[r]) ELSE last[q]
  BY DEF Take, FifoTypes
<1>4. Found(ino[r]) \in {"data", "eof", "again"} /\ (Found(ino[r]) = "data" => queue[ino[r]] # <<>>)
  BY DEF Found
<1>5. queue' \in [Fifos -> Seq(Writers)] /\ \A n \in Fifos \ {ino[r]} : queue'[n] = queue[n]
  <2>1. CASE Found(ino[r]) = "data"
    <3>1. queue[ino[r]] \in Seq(Writers) /\ queue[ino[r]] # <<>>
      BY <1>1, <1>4, <2>1 DEF FifoTypes
    <3>2. Tail(queue[ino[r]]) \in Seq(Writers)
      BY <3>1
    <3>3. queue' = [queue EXCEPT ![ino[r]] = Tail(@)]
      BY <1>3, <2>1 DEF Take
    <3>4. QED
      BY <1>1, <3>2, <3>3 DEF FifoTypes
  <2>2. CASE Found(ino[r]) # "data"
    <3>1. queue' = queue
      BY <1>3, <2>2 DEF Take
    <3>2. QED
      BY <3>1 DEF FifoTypes
  <2>3. QED
    BY <2>1, <2>2
<1>6. \A q \in Procs : pc'[q] = IF q = r THEN "loop" ELSE pc[q]
  BY DEF FifoTypes
<1>7. FifoTypes'
  BY <1>4, <1>5 DEF Take, FifoTypes
<1>8. OpenOK'
  BY <1>6, ProcsDiffer DEF OpenOK, Procs
<1>9. SelectOK'
  <2>1. \A q \in Readers : Kind[q] = "select" => last'[q] # "eof"
    BY <1>2, <1>3 DEF SelectOK
  <2>2. ASSUME killed' = {}, NEW q \in Readers, pc'[q] = "ready"
        PROVE  queue'[ino'[q]] # <<>> \/ \E r2 \in Readers \ {q} : ino'[r2] = ino'[q]
    <3>1. q # r /\ pc[q] = "ready" /\ ino[q] \in Fifos
      BY <1>6, <2>2 DEF OpenOK, FifoTypes, Procs
    <3>2. CASE ino[q] = ino[r]
      BY <3>1, <3>2
    <3>3. CASE ino[q] # ino[r]
      BY <1>5, <2>2, <3>1, <3>3 DEF SelectOK
    <3>4. QED
      BY <3>2, <3>3
  <2>3. QED
    BY <2>1, <2>2 DEF SelectOK
<1>10. HeldOK'
  BY <1>5 DEF HeldOK
<1>11. QED
  BY <1>7, <1>8, <1>9, <1>10

LEMMA FifoRead ==
  ASSUME FifoInv, NEW r \in Readers, Read(r) \/ SelectRead(r)
  PROVE  FifoInv'
<1>1. CASE Read(r)
  <2>1. pc' = [pc EXCEPT ![r] = "loop"] /\ pc[r] = "loop"
    BY <1>1 DEF Read, FifoInv, FifoTypes
  <2>2. QED
    BY <1>1, <2>1, FifoTake DEF Read
<1>2. CASE SelectRead(r)
  BY <1>2, FifoTake DEF SelectRead, Goto
<1>3. QED
  BY <1>1, <1>2

(* select returns because there is data: r itself has a write end open.    *)
LEMMA FifoSelect ==
  ASSUME FifoInv, NEW r \in Readers, Select(r)
  PROVE  FifoInv'
<1> USE DEF FifoInv
<1>1. /\ pc[r] = "loop" /\ Kind[r] = "select" /\ Found(ino[r]) # "again" /\ r \in Procs
      /\ UNCHANGED <<path, made, queue, ino, last, lost, killed>>
  BY DEF Select, Procs
<1>2. queue[ino[r]] # <<>>
  BY <1>1 DEF Found, WriteEnds
<1>3. \A q \in Procs : pc'[q] = IF q = r THEN "ready" ELSE pc[q]
  BY DEF Select, Goto, FifoTypes
<1>4. FifoTypes' /\ HeldOK'
  BY <1>1 DEF Select, Goto, FifoTypes, HeldOK
<1>5. OpenOK'
  BY <1>1, <1>3, ProcsDiffer DEF OpenOK, Procs
<1>6. SelectOK'
  BY <1>1, <1>2, <1>3 DEF SelectOK, Procs
<1>7. QED
  BY <1>4, <1>5, <1>6

LEMMA FifoWrite ==
  ASSUME FifoInv, NEW w \in Writers, Write(w) \/ NoArgument(w)
  PROVE  FifoInv'
<1> USE DEF FifoInv
<1>1. /\ pc[w] = "write" /\ ino[w] # 0 /\ w \in Procs /\ ino[w] \in Fifos
      /\ UNCHANGED <<path, made, ino, last, lost, killed>>
  BY DEF Write, NoArgument, OpenOK, FifoTypes, Procs
<1>2. PICK l \in {"written", "refused"} : pc' = [pc EXCEPT ![w] = l]
  BY DEF Write, NoArgument, Goto
<1>3. \A q \in Procs : pc'[q] = IF q = w THEN l ELSE pc[q]
  BY <1>2 DEF FifoTypes
<1>4. queue' = queue \/ (ReadEnds(ino[w]) # {} /\ queue' = [queue EXCEPT ![ino[w]] = Append(@, w)])
  BY DEF Write, NoArgument
<1>5. queue' \in [Fifos -> Seq(Writers)] /\ \A n \in Fifos : queue'[n] = <<>> => queue[n] = <<>>
  <2>1. queue[ino[w]] \in Seq(Writers)
    BY <1>1 DEF FifoTypes
  <2>2. Append(queue[ino[w]], w) \in Seq(Writers) /\ Append(queue[ino[w]], w) # <<>>
    BY <2>1, AppendProperties
  <2>3. CASE queue' = [queue EXCEPT ![ino[w]] = Append(@, w)]
    <3>1. \A n \in Fifos : queue'[n] = IF n = ino[w] THEN Append(queue[n], w) ELSE queue[n]
      BY <1>1, <2>3 DEF FifoTypes
    <3>2. QED
      BY <1>1, <2>2, <2>3, <3>1 DEF FifoTypes
  <2>4. QED
    BY <1>4, <2>3 DEF FifoTypes
<1>6. \A n \in Fifos : queue'[n] # queue[n] => \E r \in Readers : ino[r] = n
  BY <1>1, <1>4 DEF ReadEnds, FifoTypes
<1>7. FifoTypes'
  BY <1>1, <1>2, <1>5 DEF FifoTypes
<1>8. OpenOK'
  BY <1>1, <1>3, ProcsDiffer DEF OpenOK, Procs
<1>9. SelectOK'
  <2>1. \A r \in Readers : pc'[r] = pc[r] /\ (pc[r] = "ready" => ino[r] \in Fifos)
    BY <1>3, ProcsDiffer DEF OpenOK, FifoTypes
  <2>2. QED
    BY <1>1, <1>5, <2>1 DEF SelectOK
<1>10. HeldOK'
  BY <1>1, <1>6 DEF HeldOK
<1>11. QED
  BY <1>7, <1>8, <1>9, <1>10

(* A close that drops messages is that of the last reader.                 *)
LEMMA FifoClosed ==
  ASSUME FifoInv, NEW q \in Procs, Close(q)
  PROVE  /\ queue' \in [Fifos -> Seq(Writers)]
         /\ ino' \in [Procs -> {0} \cup Fifos]
         /\ \A s \in Procs : ino'[s] = IF s = q THEN 0 ELSE ino[s]
         /\ q \in Writers /\ killed = {} => UNCHANGED <<queue, lost>>
<1> USE DEF FifoInv
<1> DEFINE n == ino[q]
           last_one == n # 0 /\ ReadEnds(n) \cup WriteEnds(n) = {q}
<1>1. /\ queue' = IF last_one THEN [queue EXCEPT ![n] = <<>>] ELSE queue
      /\ lost' = IF last_one THEN lost \cup Queued(n) ELSE lost
      /\ ino' = [ino EXCEPT ![q] = 0]
  BY Zenon DEF Close
<1>2. queue' \in [Fifos -> Seq(Writers)] /\ ino' \in [Procs -> {0} \cup Fifos]
  BY <1>1, EmptySeq DEF FifoTypes
<1>3. \A s \in Procs : ino'[s] = IF s = q THEN 0 ELSE ino[s]
  BY <1>1 DEF FifoTypes
<1>4. ASSUME q \in Writers, killed = {}, last_one PROVE UNCHANGED <<queue, lost>>
  <2>1. n \in Fifos /\ ~\E r \in Readers : ino[r] = n
    BY <1>4, ProcsDiffer DEF ReadEnds, FifoTypes
  <2>2. queue[n] = <<>>
    BY <1>4, <2>1 DEF HeldOK
  <2>3. queue' = queue
    BY <1>1, <2>1, <2>2 DEF FifoTypes
  <2>4. Queued(n) = {}
    BY <2>2 DEF Queued
  <2>5. QED
    BY <1>1, <2>3, <2>4
<1>5. q \in Writers /\ killed = {} => UNCHANGED <<queue, lost>>
  BY <1>1, <1>4
<1>6. QED
  BY <1>2, <1>3, <1>5

LEMMA FifoWriterExit ==
  ASSUME FifoInv, NEW w \in Writers, WriterExit(w)
  PROVE  FifoInv'
<1> USE DEF FifoInv
<1>1. UNCHANGED <<path, made, last, killed>> /\ Close(w) /\ pc' = [pc EXCEPT ![w] = "exit"] /\ w \in Procs
  BY DEF WriterExit, Goto, Procs
<1>2. /\ queue' \in [Fifos -> Seq(Writers)]
      /\ ino' \in [Procs -> {0} \cup Fifos]
      /\ \A s \in Procs : ino'[s] = IF s = w THEN 0 ELSE ino[s]
      /\ killed = {} => UNCHANGED <<queue, lost>>
  BY <1>1, FifoClosed
<1>3. \A s \in Procs : pc'[s] = IF s = w THEN "exit" ELSE pc[s]
  BY <1>1 DEF FifoTypes
<1>4. FifoTypes'
  BY <1>1, <1>2 DEF FifoTypes
<1>5. OpenOK'
  BY <1>2, <1>3, ProcsDiffer DEF OpenOK, Procs
<1>6. \A r \in Readers : ino'[r] = ino[r] /\ pc'[r] = pc[r]
  BY <1>2, <1>3, ProcsDiffer
<1>7. SelectOK' /\ HeldOK'
  BY <1>1, <1>2, <1>6 DEF SelectOK, HeldOK
<1>8. QED
  BY <1>4, <1>5, <1>7

LEMMA FifoKill ==
  ASSUME FifoInv, NEW r \in Readers, Kill(r)
  PROVE  FifoInv'
<1> USE DEF FifoInv
<1>1. /\ UNCHANGED <<path, made>> /\ Close(r) /\ pc' = [pc EXCEPT ![r] = "exit"]
      /\ last' = [last EXCEPT ![r] = "none"] /\ killed' # {} /\ r \in Procs
  BY DEF Kill, Goto, Procs
<1>2. /\ queue' \in [Fifos -> Seq(Writers)]
      /\ ino' \in [Procs -> {0} \cup Fifos]
      /\ \A s \in Procs : ino'[s] = IF s = r THEN 0 ELSE ino[s]
  BY <1>1, FifoClosed
<1>3. \A s \in Procs : pc'[s] = IF s = r THEN "exit" ELSE pc[s]
  BY <1>1 DEF FifoTypes
<1>4. FifoTypes'
  BY <1>1, <1>2 DEF FifoTypes
<1>5. OpenOK'
  BY <1>2, <1>3, ProcsDiffer DEF OpenOK, Procs
<1>6. SelectOK' /\ HeldOK'
  BY <1>1 DEF FifoTypes, SelectOK, HeldOK
<1>7. QED
  BY <1>4, <1>5, <1>6

LEMMA FifoStepKeeps == FifoInv /\ [Next]_vars => FifoInv'
<1> SUFFICES ASSUME FifoInv, [Next]_vars PROVE FifoInv'
  OBVIOUS
<1>1. ASSUME NEW r \in Readers, ReaderStep(r) \/ Kill(r) PROVE FifoInv'
  BY <1>1, FifoUnlinkMkfifo, FifoOpen, FifoRead, FifoSelect, FifoKill DEF ReaderStep
<1>2. ASSUME NEW w \in Writers, WriterStep(w) PROVE FifoInv'
  BY <1>2, FifoWriterOpen, FifoWrite, FifoWriterExit DEF WriterStep
<1>3. CASE UNCHANGED vars
  BY <1>3 DEF vars, FifoInv, FifoTypes, OpenOK, SelectOK, HeldOK
<1>4. QED
  BY <1>1, <1>2, <1>3 DEF Next

LEMMA FifoAlways == Spec => []FifoInv
BY FifoInitial, FifoStepKeeps, PTL DEF Spec

(* fifoRead_selectBlock.c opens the FIFO for reading and writing: whatever *)
(* the other programs do, its read never returns 0, and after select it    *)
(* finds data as long as nobody else reads the FIFO.                       *)
THEOREM SelectFindsData == Spec => []SelectMeansData
<1>1. FifoInv => SelectMeansData
  BY DEF FifoInv, SelectOK, SelectMeansData, ReadEnds
<1>2. QED
  BY <1>1, FifoAlways, PTL

(* The messages.  What fifo_write.c says it has written is in one place,   *)
(* and a program that has yet to write is in none.                         *)
Elems(s) == {s[k] : k \in DOMAIN s}

Once(s) == \A j, k \in DOMAIN s : s[j] = s[k] => j = k

Contents == [n \in Fifos |-> Elems(queue[n])]

PlacedIn(t, k, l, c) ==
  /\ \A x : x \in t <=> x \in k \/ x \in l \/ \E n \in Fifos : x \in c[n]
  /\ \A x : ~(x \in k /\ x \in l)
  /\ \A n \in Fifos : \A x \in c[n] : x \notin k /\ x \notin l
  /\ \A n, m \in Fifos : \A x : x \in c[n] /\ x \in c[m] => n = m

MessageInv ==
  /\ PlacedIn(told, taken, lost, Contents)
  /\ \A n \in Fifos : Once(queue[n])
  /\ \A w \in told : w \in Writers /\ pc[w] \in {"written", "exit"}

LEMMA MessageInitial == Init => MessageInv
<1> SUFFICES ASSUME Init PROVE MessageInv
  OBVIOUS
<1>1. \A n \in Fifos : queue[n] = <<>> /\ DOMAIN queue[n] = {}
  BY EmptySeq DEF Init
<1>2. \A n \in Fifos : Contents[n] = {} /\ Once(queue[n])
  BY <1>1 DEF Contents, Elems, Once
<1>3. told = {} /\ taken = {} /\ lost = {}
  BY DEF Init
<1>4. PlacedIn(told, taken, lost, Contents)
  BY <1>2, <1>3 DEF PlacedIn
<1>5. QED
  BY <1>2, <1>3, <1>4 DEF MessageInv

(* A step that moves no message, and starts no program again.              *)
LEMMA MessageStays ==
  ASSUME MessageInv, UNCHANGED <<queue, told, taken, lost>>,
         \A w \in Writers : pc[w] \in {"written", "exit"} => pc'[w] \in {"written", "exit"}
  PROVE  MessageInv'
<1>1. Contents' = Contents
  BY DEF Contents
<1>2. QED
  BY <1>1 DEF MessageInv

(* What reads and writes make of a queue.                                  *)
LEMMA TailMessages ==
  ASSUME NEW s \in Seq(Writers), s # <<>>, Once(s), NEW t, t = Tail(s)
  PROVE  Elems(t) = Elems(s) \ {Head(s)} /\ Head(s) \in Elems(s) /\ Once(t)
<1>1. /\ t \in Seq(Writers) /\ Len(t) = Len(s) - 1
      /\ \A k \in 1 .. Len(t) : t[k] = s[k + 1]
  BY HeadTailProperties
<1>2. Head(s) = s[1] /\ Len(s) \in Nat \ {0}
  BY EmptySeq
<1>3. DOMAIN s = 1 .. Len(s) /\ DOMAIN t = 1 .. Len(t)
  BY <1>1
<1>4. ASSUME NEW k \in DOMAIN t
      PROVE  k + 1 \in DOMAIN s /\ t[k] = s[k + 1] /\ t[k] # Head(s)
  <2>1. k + 1 \in DOMAIN s /\ 1 \in DOMAIN s /\ k + 1 # 1 /\ t[k] = s[k + 1]
    BY <1>1, <1>2, <1>3
  <2>2. QED
    BY <1>2, <2>1 DEF Once
<1>5. ASSUME NEW k \in DOMAIN s, k # 1 PROVE k - 1 \in DOMAIN t /\ s[k] = t[k - 1]
  BY <1>1, <1>2, <1>3, <1>5
<1>6. Head(s) \in Elems(s)
  BY <1>2, <1>3 DEF Elems
<1>7. Elems(t) = Elems(s) \ {Head(s)}
  <2>1. \A k \in DOMAIN t : t[k] \in Elems(s) \ {Head(s)}
    BY <1>4 DEF Elems
  <2>2. \A k \in DOMAIN s : s[k] # Head(s) => s[k] \in Elems(t)
    BY <1>2, <1>5 DEF Elems
  <2>3. QED
    BY <2>1, <2>2 DEF Elems
<1>8. Once(t)
  <2>1. SUFFICES ASSUME NEW j \in DOMAIN t, NEW k \in DOMAIN t, t[j] = t[k]
                 PROVE  j = k
    BY DEF Once
  <2>2. j + 1 = k + 1
    BY <1>4, <2>1 DEF Once
  <2>3. QED
    BY <1>3, <2>2
<1>9. QED
  BY <1>6, <1>7, <1>8

LEMMA AppendMessages ==
  ASSUME NEW s \in Seq(Writers), NEW w \in Writers, w \notin Elems(s), Once(s),
         NEW t, t = Append(s, w)
  PROVE  Elems(t) = Elems(s) \cup {w} /\ Once(t)
<1>1. /\ t \in Seq(Writers) /\ Len(t) = Len(s) + 1 /\ t[Len(s) + 1] = w
      /\ \A k \in 1 .. Len(s) : t[k] = s[k]
  BY AppendProperties
<1>2. Len(s) \in Nat /\ DOMAIN s = 1 .. Len(s) /\ DOMAIN t = 1 .. Len(s) + 1
  BY <1>1
<1>3. \A k \in DOMAIN t : k = Len(s) + 1 \/ (k \in DOMAIN s /\ t[k] = s[k])
  BY <1>1, <1>2
<1>4. /\ \A k \in DOMAIN s : k \in DOMAIN t /\ t[k] = s[k]
      /\ Len(s) + 1 \in DOMAIN t
  BY <1>1, <1>2
<1>5. Elems(t) = Elems(s) \cup {w}
  <2>1. \A k \in DOMAIN t : t[k] \in Elems(s) \cup {w}
    BY <1>1, <1>3 DEF Elems
  <2>2. w \in Elems(t) /\ \A k \in DOMAIN s : s[k] \in Elems(t)
    BY <1>1, <1>4 DEF Elems
  <2>3. QED
    BY <2>1, <2>2 DEF Elems
<1>6. \A k \in DOMAIN s : t[k] # w
  BY <1>4 DEF Elems
<1>7. Once(t)
  BY <1>1, <1>3, <1>6 DEF Once
<1>8. QED
  BY <1>5, <1>7

(* One queue changes.                                                      *)
LEMMA QueueChanges ==
  ASSUME FifoTypes, NEW n \in Fifos, NEW s, queue' = [queue EXCEPT ![n] = s]
  PROVE  /\ queue'[n] = s /\ Contents'[n] = Elems(s)
         /\ \A m \in Fifos \ {n} : queue'[m] = queue[m] /\ Contents'[m] = Contents[m]
<1>1. \A m \in Fifos : queue'[m] = IF m = n THEN s ELSE queue[m]
  BY DEF FifoTypes
<1>2. QED
  BY <1>1 DEF Contents

(* A message that leaves FIFO n for a reader, that enters it, and all that *)
(* are dropped from it.                                                    *)
LEMMA MoveOne ==
  ASSUME NEW t, NEW k, NEW l, NEW c, NEW d, PlacedIn(t, k, l, c),
         NEW n \in Fifos, NEW h \in c[n], d[n] = c[n] \ {h},
         \A m \in Fifos \ {n} : d[m] = c[m]
  PROVE  PlacedIn(t, k \cup {h}, l, d)
<1>1. \A m \in Fifos : \A x : x \in d[m] <=> x \in c[m] /\ x # h
  BY DEF PlacedIn
<1>2. \A x : x \in k \cup {h} <=> x \in k \/ x = h
  OBVIOUS
<1>3. h \in t /\ h \notin l
  BY DEF PlacedIn
<1>4. QED
  BY <1>1, <1>2, <1>3 DEF PlacedIn

LEMMA AddOne ==
  ASSUME NEW t, NEW k, NEW l, NEW c, NEW d, PlacedIn(t, k, l, c),
         NEW n \in Fifos, NEW w, w \notin t, d[n] = c[n] \cup {w},
         \A m \in Fifos \ {n} : d[m] = c[m]
  PROVE  PlacedIn(t \cup {w}, k, l, d)
<1>1. \A m \in Fifos : \A x : x \in d[m] <=> x \in c[m] \/ (m = n /\ x = w)
  OBVIOUS
<1>2. \A x : x \in t \cup {w} <=> x \in t \/ x = w
  OBVIOUS
<1>3. w \notin k /\ w \notin l /\ \A m \in Fifos : w \notin c[m]
  BY DEF PlacedIn
<1>4. QED
  BY <1>1, <1>2, <1>3 DEF PlacedIn

LEMMA DropAll ==
  ASSUME NEW t, NEW k, NEW l, NEW c, NEW d, PlacedIn(t, k, l, c),
         NEW n \in Fifos, d[n] = {}, \A m \in Fifos \ {n} : d[m] = c[m]
  PROVE  PlacedIn(t, k, l \cup c[n], d)
<1>1. \A m \in Fifos : \A x : x \in d[m] <=> x \in c[m] /\ m # n
  OBVIOUS
<1>2. \A x : x \in l \cup c[n] <=> x \in l \/ x \in c[n]
  OBVIOUS
<1>3. QED
  BY <1>1, <1>2 DEF PlacedIn

LEMMA MessageTaken ==
  ASSUME FifoInv, MessageInv, NEW r \in Readers, Take(r), pc[r] \in {"loop", "ready"},
         UNCHANGED lost, \A w \in Writers : pc'[w] = pc[w]
  PROVE  MessageInv'
<1> DEFINE n == ino[r]
<1>1. n \in Fifos /\ queue[n] \in Seq(Writers) /\ Once(queue[n]) /\ Contents[n] = Elems(queue[n])
  BY DEF FifoInv, OpenOK, FifoTypes, Procs, MessageInv, Contents
<1>2. CASE queue[n] # <<>>
  <2> DEFINE h == Head(queue[n])
  <2>1. /\ queue' = [queue EXCEPT ![n] = Tail(queue[n])]
        /\ taken' = taken \cup {h} /\ UNCHANGED <<told, lost>>
    BY <1>2 DEF Take, Found, FifoInv, FifoTypes
  <2>2. Elems(Tail(queue[n])) = Elems(queue[n]) \ {h} /\ h \in Elems(queue[n])
        /\ Once(Tail(queue[n]))
    BY <1>1, <1>2, TailMessages
  <2>3. /\ queue'[n] = Tail(queue[n]) /\ Contents'[n] = Elems(Tail(queue[n]))
        /\ \A m \in Fifos \ {n} : queue'[m] = queue[m] /\ Contents'[m] = Contents[m]
    BY <1>1, <2>1, QueueChanges DEF FifoInv
  <2> HIDE DEF h, n
  <2>4. PlacedIn(told, taken \cup {h}, lost, Contents')
    BY <1>1, <2>2, <2>3, MoveOne DEF MessageInv
  <2>5. \A m \in Fifos : Once(queue'[m])
    BY <2>2, <2>3 DEF MessageInv
  <2>6. QED
    BY <2>1, <2>4, <2>5 DEF MessageInv
<1>3. CASE queue[n] = <<>>
  <2>1. UNCHANGED <<queue, told, taken, lost>>
    BY <1>3 DEF Take, Found, FifoInv, FifoTypes
  <2>2. QED
    BY <2>1, MessageStays
<1>4. QED
  BY <1>2, <1>3

LEMMA MessageWritten ==
  ASSUME FifoInv, MessageInv, NEW w \in Writers, Write(w)
  PROVE  MessageInv'
<1> DEFINE n == ino[w]
<1>1. /\ pc[w] = "write" /\ w \in Procs /\ n \in Fifos /\ queue[n] \in Seq(Writers)
      /\ Once(queue[n]) /\ Contents[n] = Elems(queue[n]) /\ UNCHANGED <<taken, lost>>
  BY DEF Write, FifoInv, OpenOK, FifoTypes, Procs, MessageInv, Contents
<1>2. w \notin told
  BY <1>1 DEF MessageInv
<1>3. CASE /\ queue' = [queue EXCEPT ![n] = Append(queue[n], w)] /\ told' = told \cup {w}
           /\ Goto(w, "written")
  <2>1. w \notin Elems(queue[n])
    BY <1>1, <1>2 DEF MessageInv, PlacedIn
  <2>2. Elems(Append(queue[n], w)) = Elems(queue[n]) \cup {w} /\ Once(Append(queue[n], w))
    BY <1>1, <2>1, AppendMessages
  <2>3. /\ queue'[n] = Append(queue[n], w) /\ Contents'[n] = Elems(Append(queue[n], w))
        /\ \A m \in Fifos \ {n} : queue'[m] = queue[m] /\ Contents'[m] = Contents[m]
    BY <1>1, <1>3, QueueChanges DEF FifoInv
  <2> HIDE DEF n
  <2>4. PlacedIn(told \cup {w}, taken, lost, Contents')
    BY <1>1, <1>2, <2>2, <2>3, AddOne DEF MessageInv
  <2>5. \A m \in Fifos : Once(queue'[m])
    BY <2>2, <2>3 DEF MessageInv
  <2>6. pc' = [pc EXCEPT ![w] = "written"] /\ told' = told \cup {w}
    BY <1>3 DEF Goto
  <2>7. \A v \in told' : v \in Writers /\ pc'[v] \in {"written", "exit"}
    BY <1>1, <2>6 DEF MessageInv, FifoInv, FifoTypes, Procs
  <2>8. QED
    BY <1>1, <2>4, <2>5, <2>6, <2>7 DEF MessageInv
<1>4. CASE Goto(w, "refused") /\ UNCHANGED <<queue, told>>
  BY <1>1, <1>4, MessageStays DEF Goto, FifoInv, FifoTypes
<1>5. QED
  BY <1>3, <1>4 DEF Write

(* A close either leaves the queues alone or drops what one of them holds. *)
LEMMA MessageDropped ==
  ASSUME FifoInv, MessageInv, NEW q \in Procs, Close(q), pc' = [pc EXCEPT ![q] = "exit"]
  PROVE  MessageInv'
<1> DEFINE n == ino[q]
           last_one == n # 0 /\ ReadEnds(n) \cup WriteEnds(n) = {q}
<1>1. /\ queue' = IF last_one THEN [queue EXCEPT ![n] = <<>>] ELSE queue
      /\ lost' = IF last_one THEN lost \cup Queued(n) ELSE lost
      /\ UNCHANGED <<told, taken>>
  BY Zenon DEF Close
<1>2. \A w \in Writers : pc'[w] = pc[w] \/ pc'[w] = "exit"
  BY DEF FifoInv, FifoTypes
<1>3. CASE last_one
  <2>1. n \in Fifos
    BY <1>3 DEF FifoInv, FifoTypes
  <2>2. queue' = [queue EXCEPT ![n] = <<>>] /\ lost' = lost \cup Contents[n]
    BY <1>1, <1>3, <2>1 DEF Contents, Elems, Queued
  <2>3. Elems(<<>>) = {} /\ Once(<<>>)
    BY DEF Elems, Once
  <2>4. /\ queue'[n] = <<>> /\ Contents'[n] = Elems(<<>>)
        /\ \A m \in Fifos \ {n} : queue'[m] = queue[m] /\ Contents'[m] = Contents[m]
    BY <2>1, <2>2, QueueChanges DEF FifoInv
  <2> HIDE DEF n
  <2>5. PlacedIn(told, taken, lost \cup Contents[n], Contents')
    BY <2>1, <2>3, <2>4, DropAll DEF MessageInv
  <2>6. \A m \in Fifos : Once(queue'[m])
    BY <2>3, <2>4 DEF MessageInv
  <2>7. QED
    BY <1>1, <1>2, <2>2, <2>5, <2>6 DEF MessageInv
<1>4. CASE ~last_one
  <2>1. UNCHANGED <<queue, told, taken, lost>>
    BY <1>1, <1>4
  <2>2. QED
    BY <1>2, <2>1, MessageStays
<1>5. QED
  BY <1>3, <1>4

LEMMA MessageStep == FifoInv /\ MessageInv /\ [Next]_vars => MessageInv'
<1> SUFFICES ASSUME FifoInv, MessageInv, [Next]_vars PROVE MessageInv'
  OBVIOUS
<1>1. pc \in [Procs -> {"start", "mkfifo", "open", "opening", "loop", "ready",
                        "write", "written", "refused", "failed", "exit"}]
  BY DEF FifoInv, FifoTypes
<1>2. ASSUME NEW r \in Readers, Unlink(r) \/ Mkfifo(r) \/ Open(r) \/ Select(r)
      PROVE  MessageInv'
  <2>1. UNCHANGED <<queue, told, taken, lost>>
    BY <1>2 DEF Unlink, Mkfifo, Open, Select
  <2>2. \A w \in Writers : pc'[w] = pc[w]
    BY <1>1, <1>2, ProcsDiffer, FifoAssumption
       DEF Unlink, Mkfifo, Open, Select, Goto, Awake, ReadEnds, Procs
  <2>3. QED
    BY <2>1, <2>2, MessageStays
<1>3. ASSUME NEW r \in Readers, Read(r) \/ SelectRead(r)
      PROVE  MessageInv'
  <2>1. Take(r) /\ pc[r] \in {"loop", "ready"} /\ UNCHANGED lost
    BY <1>3 DEF Read, SelectRead
  <2>2. \A w \in Writers : pc'[w] = pc[w]
    BY <1>1, <1>3, ProcsDiffer DEF Read, SelectRead, Goto
  <2>3. QED
    BY <2>1, <2>2, MessageTaken
<1>4. ASSUME NEW r \in Readers, Kill(r)
      PROVE  MessageInv'
  BY <1>4, ProcsDiffer, MessageDropped DEF Kill, Goto, Procs
<1>5. ASSUME NEW w \in Writers, WriterOpen(w) \/ NoArgument(w)
      PROVE  MessageInv'
  <2>1. UNCHANGED <<queue, told, taken, lost>> /\ pc[w] \in {"start", "write"}
    BY <1>5 DEF WriterOpen, NoArgument
  <2>2. \A v \in Writers \ {w} : pc'[v] = pc[v]
    BY <1>1, <1>5, ProcsDiffer, FifoAssumption
       DEF WriterOpen, NoArgument, Goto, Awake, ReadEnds, Procs
  <2>3. QED
    BY <2>1, <2>2, MessageStays
<1>6. ASSUME NEW w \in Writers, Write(w) \/ WriterExit(w)
      PROVE  MessageInv'
  BY <1>6, MessageWritten, MessageDropped DEF WriterExit, Goto, Procs
<1>7. CASE UNCHANGED vars
  <2>1. UNCHANGED <<queue, told, taken, lost, pc>>
    BY <1>7 DEF vars
  <2>2. QED
    BY <2>1, MessageStays
<1>8. QED
  BY <1>2, <1>3, <1>4, <1>5, <1>6, <1>7 DEF Next, ReaderStep, WriterStep

(* What fifo_write.c reports as written, and nothing else, is in one FIFO, *)
(* was returned by one read or was dropped; and it is dropped only if      *)
(* somebody kills a reader: the readers of the directory, whatever their   *)
(* kind and number, stay in their loops and hold the FIFO.                 *)
THEOREM WrittenStays == Spec => []WrittenIsKept
<1>1. ASSUME FifoInv, MessageInv PROVE WrittenIsKept
  <2>1. \A n \in Fifos : Queued(n) = Contents[n]
    BY DEF Queued, Contents, Elems
  <2>2. \A n \in Fifos : \A j, k \in DOMAIN queue[n] : queue[n][j] = queue[n][k] => j = k
    BY <1>1 DEF MessageInv, Once
  <2>3. PlacedIn(told, taken, lost, Contents)
    BY <1>1 DEF MessageInv
  <2>4. told = taken \cup lost \cup UNION {Queued(n) : n \in Fifos}
    BY <2>1, <2>3 DEF PlacedIn
  <2>5. /\ taken \cap lost = {}
        /\ \A n \in Fifos : /\ Queued(n) \cap (taken \cup lost) = {}
                             /\ \A m \in Fifos \ {n} : Queued(n) \cap Queued(m) = {}
    BY <2>1, <2>3 DEF PlacedIn
  <2>6. lost # {} => killed # {}
    BY <1>1 DEF FifoInv, HeldOK
  <2>7. QED
    BY <2>2, <2>4, <2>5, <2>6 DEF WrittenIsKept
<1>2. QED
  BY <1>1, FifoAlways, MessageInitial, MessageStep, PTL DEF Spec
=============================================================================
