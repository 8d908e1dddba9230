----------------------------- MODULE MCPrograms -----------------------------
(***************************************************************************)
(* The user programs, model-checked in one run.  Those of one module share *)
(* nothing with those of another, so a behaviour is about one module: the  *)
(* one that program names.                                                 *)
(***************************************************************************)
EXTENDS Fifo, Signals, SysVIpc, Pipe, Tcp

MCReaders == {"block", "poll", "select"}
MCKind == [r \in Readers |-> r]

VARIABLE program

mcVars == <<program, vars, sigVars, ipcVars, pipeVars, tcpVars>>

MCInit ==
  /\ program \in {"fifo", "ksig", "mysignal", "queue", "shm", "pipe", "tcp"}
  /\ Init /\ SignalsInit /\ IpcInit /\ PipeInit /\ TcpInit
  /\ \A p \in Pausers : program = "mysignal" <=> task[p] = "alive"
  /\ \A r \in QueueRuns : program = "shm" => run[r] = "ended"
  /\ \A r \in ShmRuns : program # "shm" => run[r] = "ended"

FifoRuns ==
  program = "fifo" /\ Next /\ UNCHANGED <<program, sigVars, ipcVars, pipeVars, tcpVars>>
SignalsRun ==
  program \in {"ksig", "mysignal"} /\ SignalsNext /\ UNCHANGED <<program, vars, ipcVars, pipeVars, tcpVars>>
IpcRun ==
  program \in {"queue", "shm"} /\ IpcNext /\ UNCHANGED <<program, vars, sigVars, pipeVars, tcpVars>>
PipeRuns ==
  program = "pipe" /\ PipeNext /\ UNCHANGED <<program, vars, sigVars, ipcVars, tcpVars>>
TcpRuns ==
  program = "tcp" /\ TcpNext /\ UNCHANGED <<program, vars, sigVars, ipcVars, pipeVars>>

MCNext == FifoRuns \/ SignalsRun \/ IpcRun \/ PipeRuns \/ TcpRuns

(* The fairness of FairSpec, SignalsFairSpec, PipeSpec and TcpSpec.        *)
MCSpec ==
  /\ MCInit /\ [][MCNext]_mcVars
  /\ \A r \in Readers : WF_vars(program = "fifo" /\ ReaderStep(r))
  /\ \A w \in Writers : WF_vars(program = "fifo" /\ WriterStep(w))
  /\ \A p \in Pausers : /\ WF_sigVars(program = "mysignal" /\ MainStep(p))
                        /\ WF_sigVars(program = "mysignal" /\ Deliver(p))
                        /\ WF_sigVars(program = "mysignal" /\ At(p, "pause") /\ CtrlC(p))
  /\ WF_pipeVars(program = "pipe" /\ ParentStep)
  /\ WF_pipeVars(program = "pipe" /\ ChildStep)
  /\ WF_tcpVars(program = "tcp" /\ ServerStep)
  /\ \A c \in Clients : WF_tcpVars(program = "tcp" /\ SendLine(c))
=============================================================================
