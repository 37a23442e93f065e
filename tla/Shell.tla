-------------------------------- MODULE Shell --------------------------------
(***************************************************************************)
(* The shell running commands (main, fork1, runcmd of sh.c): the processes *)
(* it forks for a parsed line, their file descriptors and the pipes that   *)
(* join them.                                                              *)
(*                                                                         *)
(* A program that exec() starts reads its standard input to the end, or    *)
(* part of it, writes at most one byte and exits.  A pipe holds PIPESIZE   *)
(* bytes and has an end open as long as some process has.  init, which     *)
(* starts the shell again and reaps what the others leave, is external.    *)
(***************************************************************************)
EXTENDS Integers, Sequences, FiniteSetsExt

CONSTANTS
    Proc,           \* process slots the shell and its commands can have
    sh,             \* the one the shell runs in
    Lines,          \* lines that may be typed
    MaxLines,       \* how many are
    Pipe,           \* pipes
    PIPESIZE,
    MAXARGS

VARIABLES
    typed,          \* how many lines have been
    state,          \* "UNUSED", "RUNNABLE" or "ZOMBIE"
    parent,         \* a process, or Init0 for init
    cmd,            \* the command runcmd() is at
    pc,             \* where in it
    ofile,          \* file descriptors
    bytes,          \* bytes in each pipe
    back            \* history: processes under a BACK, or left by a parent that panicked

vars == <<typed, state, parent, cmd, pc, ofile, bytes, back>>
procVars == <<state, parent, cmd, pc, ofile, back>>

Init0 == 0
Fd == 0 .. 4
Closed == <<"closed">>
Console == <<"console">>
StdFds == [f \in Fd |-> IF f < 3 THEN Console ELSE Closed]
NoFds == [f \in Fd |-> Closed]
None == <<"NONE">>

Parsing == INSTANCE Parser WITH cmd <- cmd, line <- cmd, MaxLine <- 0

Init ==
    /\ typed = 0
    /\ state = [p \in Proc |-> IF p = sh THEN "RUNNABLE" ELSE "UNUSED"]
    /\ parent = [p \in Proc |-> Init0]
    /\ cmd = [p \in Proc |-> None]
    /\ pc = [p \in Proc |-> IF p = sh THEN "prompt" ELSE "none"]
    /\ ofile = [p \in Proc |-> IF p = sh THEN StdFds ELSE NoFds]
    /\ bytes = [k \in Pipe |-> 0]
    /\ back = {}

At(p, label) == state[p] = "RUNNABLE" /\ pc[p] = label
Runs(p, type) == At(p, "runcmd") /\ cmd[p][1] = type
Goto(p, label) == pc' = [pc EXCEPT ![p] = label]
Lowest(fds) == Min({f \in Fd : fds[f] = Closed})
With(fds, x) == [fds EXCEPT ![Lowest(fds)] = x]

Open(end) == \E p \in Proc, f \in Fd : ofile[p][f] = end

\* exit(): the files are closed, the children are init's.
exit(p) ==
    /\ state' = [state EXCEPT ![p] = "ZOMBIE"]
    /\ parent' = [q \in Proc |-> IF parent[q] = p THEN Init0 ELSE parent[q]]
    /\ ofile' = [ofile EXCEPT ![p] = NoFds]
    /\ cmd' = [cmd EXCEPT ![p] = None]
    /\ Goto(p, "none")
    /\ UNCHANGED <<typed, bytes, back>>

Unused == {q \in Proc : state[q] = "UNUSED"}

\* fork1(): the child q starts at label with command c, the parent goes on
\* at next; without a slot the parent panics, which is to exit.
Forks(p, c, label, next) ==
    LET q == Min(Unused) IN
        /\ Unused # {}
        /\ state' = [state EXCEPT ![q] = "RUNNABLE"]
        /\ parent' = [parent EXCEPT ![q] = p]
        /\ ofile' = [ofile EXCEPT ![q] = ofile[p]]
        /\ cmd' = [cmd EXCEPT ![q] = c]
        /\ pc' = [pc EXCEPT ![q] = label, ![p] = next]
        /\ back' = IF p \in back \/ Runs(p, "BACK") THEN back \cup {q} ELSE back
        /\ UNCHANGED bytes

ForkFails(p) ==
    /\ Unused = {}
    /\ state' = [state EXCEPT ![p] = "ZOMBIE"]
    /\ parent' = [q \in Proc |-> IF parent[q] = p THEN Init0 ELSE parent[q]]
    /\ ofile' = [ofile EXCEPT ![p] = NoFds]
    /\ cmd' = [cmd EXCEPT ![p] = None]
    /\ Goto(p, "none")
    /\ back' = back \cup {q \in Proc : state[q] = "RUNNABLE" /\ parent[q] = p}
    /\ UNCHANGED bytes

fork1(p, c, label, next) == Forks(p, c, label, next) \/ ForkFails(p)

\* wait(): frees a child that has exited; at once if there is no child.
wait(p, next) ==
    /\ \/ \E q \in Proc :
             /\ state[q] = "ZOMBIE" /\ parent[q] = p
             /\ state' = [state EXCEPT ![q] = "UNUSED"]
             /\ parent' = [parent EXCEPT ![q] = Init0]
             /\ back' = back \ {q}
       \/ /\ \A q \in Proc : parent[q] # p
          /\ UNCHANGED <<state, parent, back>>
    /\ Goto(p, next)
    /\ UNCHANGED <<typed, ofile, bytes>>

-----------------------------------------------------------------------------
\* main(): the child parses the line, so that a syntax error ends the child.
Command ==
    /\ At(sh, "prompt") /\ typed < MaxLines
    /\ typed' = typed + 1
    /\ \E s \in Lines : fork1(sh, Parsing!parsecmd(s), "runcmd", "mainwait")

\* getcmd() returns -1.
EndOfInput == At(sh, "prompt") /\ exit(sh)

MainWait == At(sh, "mainwait") /\ wait(sh, "prompt") /\ UNCHANGED cmd

\* panic("syntax") in the child.
Syntax(p) == Runs(p, "PANIC") /\ exit(p)

\* EXEC: an empty command, and one exec() does not find, exit.
Exec(p) ==
    /\ Runs(p, "EXEC")
    /\ \/ exit(p)
       \/ /\ cmd[p][2] # <<>>
          /\ Goto(p, "program")
          /\ UNCHANGED <<typed, state, parent, cmd, ofile, bytes, back>>

Redir(p) ==
    /\ Runs(p, "REDIR")
    /\ \/ exit(p)                                   \* open() fails
       \/ /\ ofile' = [ofile EXCEPT ![p] = With([@ EXCEPT ![cmd[p][5]] = Closed], <<"file">>)]
          /\ cmd' = [cmd EXCEPT ![p] = @[2]]
          /\ UNCHANGED <<typed, state, parent, pc, bytes, back>>

List(p) == Runs(p, "LIST") /\ fork1(p, cmd[p][2], "runcmd", "listwait") /\ UNCHANGED typed

ListWait(p) == At(p, "listwait") /\ wait(p, "runcmd") /\ cmd' = [cmd EXCEPT ![p] = @[3]]

\* PIPE: pipe() takes the two lowest descriptors, p[0] = 3 and p[1] = 4.
MakePipe(p) ==
    LET unused == {k \in Pipe : ~Open(<<"read", k>>) /\ ~Open(<<"write", k>>)}
        k == Min(unused)
    IN  /\ Runs(p, "PIPE")
        /\ \/ unused = {} /\ exit(p)
           \/ /\ unused # {}
              /\ ofile' = [ofile EXCEPT ![p] = With(With(@, <<"read", k>>), <<"write", k>>)]
              /\ bytes' = [bytes EXCEPT ![k] = 0]
              /\ Goto(p, "forkleft")
              /\ UNCHANGED <<typed, state, parent, cmd, back>>

ForkLeft(p) == At(p, "forkleft") /\ fork1(p, cmd[p][2], "left", "forkright") /\ UNCHANGED typed

ForkRight(p) == At(p, "forkright") /\ fork1(p, cmd[p][3], "right", "closepipe") /\ UNCHANGED typed

\* Mutant: close(p[0]) only.
ClosePipeRead(fds) == [fds EXCEPT ![3] = Closed]

\* close(p[0]); close(p[1])
ClosePipe(fds) == [fds EXCEPT ![3] = Closed, ![4] = Closed]

\* The children: close(1); dup(p[1]), or close(0); dup(p[0]).
Left(p) ==
    /\ At(p, "left")
    /\ ofile' = [ofile EXCEPT ![p] = ClosePipe(With([@ EXCEPT ![1] = Closed], @[4]))]
    /\ Goto(p, "runcmd")
    /\ UNCHANGED <<typed, state, parent, cmd, bytes, back>>

Right(p) ==
    /\ At(p, "right")
    /\ ofile' = [ofile EXCEPT ![p] = ClosePipe(With([@ EXCEPT ![0] = Closed], @[3]))]
    /\ Goto(p, "runcmd")
    /\ UNCHANGED <<typed, state, parent, cmd, bytes, back>>

\* Mutant: the shell in the middle keeps p[1].
PipeCloseRead(p) ==
    /\ At(p, "closepipe")
    /\ ofile' = [ofile EXCEPT ![p] = ClosePipeRead(@)]
    /\ Goto(p, "wait1")
    /\ UNCHANGED <<typed, state, parent, cmd, bytes, back>>

PipeClose(p) ==
    /\ At(p, "closepipe")
    /\ ofile' = [ofile EXCEPT ![p] = ClosePipe(@)]
    /\ Goto(p, "wait1")
    /\ UNCHANGED <<typed, state, parent, cmd, bytes, back>>

PipeWait(p) ==
    /\ \/ At(p, "wait1") /\ wait(p, "wait2")
       \/ At(p, "wait2") /\ wait(p, "exit")
    /\ UNCHANGED cmd

\* BACK: nobody waits for the child.
Back(p) == Runs(p, "BACK") /\ fork1(p, cmd[p][2], "runcmd", "exit") /\ UNCHANGED typed

Exit(p) == At(p, "exit") /\ exit(p)

-----------------------------------------------------------------------------
\* A program (external).  piperead(): returns 0 once the pipe is empty and no
\* write end is open.  pipewrite(): sleeps while the pipe is full and a read
\* end is open.
In(p) == ofile[p][0]
Out(p) == ofile[p][1]

Read(p) ==
    /\ At(p, "program") /\ In(p)[1] = "read"
    /\ \/ /\ bytes[In(p)[2]] > 0
          /\ bytes' = [bytes EXCEPT ![In(p)[2]] = @ - 1]
          /\ UNCHANGED pc
       \/ /\ bytes[In(p)[2]] = 0 /\ ~Open(<<"write", In(p)[2]>>)
          /\ Goto(p, "output")
          /\ UNCHANGED bytes
    /\ UNCHANGED <<typed, state, parent, cmd, ofile, back>>

NoInput(p) ==
    /\ At(p, "program") /\ In(p)[1] # "read"
    /\ Goto(p, "output")
    /\ UNCHANGED <<typed, state, parent, cmd, ofile, bytes, back>>

\* It ends, or gives up its input.
Stop(p) == At(p, "output") /\ exit(p)
Quit(p) == At(p, "program") /\ In(p)[1] = "read" /\ exit(p)

Write(p) ==
    /\ At(p, "output") /\ Out(p)[1] = "write"
    /\ \/ bytes[Out(p)[2]] < PIPESIZE /\ bytes' = [bytes EXCEPT ![Out(p)[2]] = @ + 1]
       \/ ~Open(<<"read", Out(p)[2]>>) /\ UNCHANGED bytes
    /\ Goto(p, "exit")
    /\ UNCHANGED <<typed, state, parent, cmd, ofile, back>>

\* init: wait() in its loop, and the shell started again.
Init0Reaps(q) ==
    /\ state[q] = "ZOMBIE" /\ parent[q] = Init0
    /\ state' = [state EXCEPT ![q] = IF q = sh THEN "RUNNABLE" ELSE "UNUSED"]
    /\ pc' = [pc EXCEPT ![q] = IF q = sh THEN "prompt" ELSE @]
    /\ ofile' = [ofile EXCEPT ![q] = IF q = sh THEN StdFds ELSE @]
    /\ back' = back \ {q}
    /\ UNCHANGED <<typed, parent, cmd, bytes>>

runcmd(p) ==
    \/ Syntax(p) \/ Exec(p) \/ Redir(p) \/ List(p) \/ ListWait(p) \/ MakePipe(p) \/ ForkLeft(p)
    \/ ForkRight(p) \/ Left(p) \/ Right(p) \/ PipeClose(p) \/ PipeWait(p) \/ Back(p) \/ Exit(p)

Program(p) == Read(p) \/ NoInput(p) \/ Write(p) \/ Stop(p)

Run(p) == runcmd(p) \/ Program(p)

Next ==
    \/ Command \/ EndOfInput \/ MainWait
    \/ \E p \in Proc : Run(p) \/ Quit(p) \/ Init0Reaps(p)

\* The scheduler runs every process (module Proc); init loops for ever.  No
\* program is assumed to give up its input.
Fairness == WF_vars(MainWait) /\ \A p \in Proc : WF_vars(Run(p)) /\ WF_vars(Init0Reaps(p))

Spec == Init /\ [][Next]_vars /\ Fairness

-----------------------------------------------------------------------------
\* runcmd(): a program starts with descriptors 0, 1 and 2 and no other, and
\* is never given the wrong end of a pipe: close() and dup() or open() put the
\* new file where the old one was, whatever command they are nested in.
ProgramFds ==
    \A p \in Proc : state[p] = "RUNNABLE" /\ pc[p] \in {"program", "output"} =>
        /\ ofile[p][0][1] \in {"console", "file", "read"}
        /\ ofile[p][1][1] \in {"console", "file", "write"}
        /\ ofile[p][2] = Console
        /\ \A f \in 3 .. 4 : ofile[p][f] = Closed

\* Unless fork() fails, a process that is not in the background does not
\* outlive the command that waits for it, so that what follows it in a list,
\* and the next prompt, come after it.
ForegroundIsAwaited ==
    \A p \in Proc \ {sh} : state[p] = "RUNNABLE" /\ p \notin back =>
        /\ parent[p] # Init0
        /\ pc[parent[p]] \in {"mainwait", "listwait", "forkright", "closepipe", "wait1", "wait2"}

\* Every command comes back to the prompt: no pipe end stays open in a process
\* that waits, so readers see the end of their input and writers do not wait
\* for readers that are gone.
PromptReturns == pc[sh] # "prompt" ~> pc[sh] = "prompt"

=============================================================================
