-------------------------------- MODULE Shell --------------------------------
(***************************************************************************)
(* task3-processes: run_pipeline, run_command and run_builtin of execute.c *)
(* and the loop of main.c, with the processes and pipes of the kernel.     *)
(*                                                                         *)
(* The process of the i-th command of the k-th line is <<k, i>>, and so is *)
(* the pipe it writes into.  A pipe holds a number of items; what items    *)
(* are does not matter.  A program writes, reads until the end, or reads   *)
(* one item.                                                               *)
(***************************************************************************)
EXTENDS Naturals, Sequences, FiniteSets

CONSTANTS Lines,        \* the pipelines the user may type
          MaxLines,     \* bound: lines read
          MaxLength,    \* bound: commands of a line
          PipeSize,     \* items a pipe holds
          Amount,       \* items a "source" writes
          CallsMayFail  \* whether pipe and fork may return -1

ASSUME BoundsAssumption == /\ MaxLines \in Nat /\ MaxLength \in Nat \ {0}
                           /\ PipeSize \in Nat \ {0} /\ Amount \in Nat
                           /\ CallsMayFail \in BOOLEAN

\* A line that is not empty has a first command, and a background flag.
ASSUME LinesAssumption == \A line \in Lines :
  /\ DOMAIN line.commands = 1 .. Len(line.commands)
  /\ Len(line.commands) \in 1 .. MaxLength
  /\ line.background \in BOOLEAN

Proc == (1 .. MaxLines) \X (1 .. MaxLength)
Sh == <<0, 0>>          \* the shell itself
End == Proc \X {"r", "w"}   \* the two ends of the pipes

VARIABLES lines,     \* the lines read so far
          pc,        \* where the shell is
          pos,       \* the command of the line run_command is working on
          target,    \* the process `wait` waits for, Sh if any will do
          failed,    \* processes whose fork returned -1
          state,     \* what a process is doing
          ends,      \* process -> the pipe ends it has open
          held,      \* pipe -> the items in it
          todo,      \* process -> the items it has to write
          shown      \* line -> the items that reached the terminal

vars == <<lines, pc, pos, target, failed, state, ends, held, todo, shown>>
system == <<state, ends, held, todo, shown>>

Init == /\ lines = <<>>
        /\ pc = "prompt"
        /\ pos = 0
        /\ target = Sh
        /\ failed = {}
        /\ state = [p \in Proc |-> "none"]
        /\ ends = [p \in Proc \cup {Sh} |-> {}]
        /\ held = [p \in Proc |-> 0]
        /\ todo = [p \in Proc |-> 0]
        /\ shown = [k \in 1 .. MaxLines |-> 0]

-----------------------------------------------------------------------------
(* The commands of a line *)

current == lines[Len(lines)]
self(i) == <<Len(lines), i>>
Command(p) == lines[p[1]].commands[p[2]]
nonterminal(p) == p[2] < Len(lines[p[1]].commands)
Before(p) == <<p[1], p[2] - 1>>

\* A redirection is "none", a file that can be opened, or one that cannot.
\* check_consistency: only the last command may redirect its output.
check_consistency(line) == \A i \in DOMAIN line.commands :
  i < Len(line.commands) => line.commands[i].output = "none"

-----------------------------------------------------------------------------
(* Processes: the child's part of run_command and the programs *)

Alive(p) == state[p] \in {"child", "running"}
Open(e) == \E p \in Proc \cup {Sh} : e \in ends[p]

\* A process ends: its descriptors are closed and it waits to be reaped.
Ends(p) == /\ state' = [state EXCEPT ![p] = "zombie"]
           /\ ends' = [ends EXCEPT ![p] = {}]

\* Where the standard streams of p lead, once they are set up.
ReadsPipe(p) == p[2] > 1 /\ Command(p).input = "none"
WritesPipe(p) == nonterminal(p) /\ Command(p).output = "none"

\* Seeded fault: the child does not close the end of its own pipe it does not use.
Leftover_KeepsRead(p) ==
  ends[p] \ (IF ReadsPipe(p) THEN {} ELSE {<<Before(p), "r">>})

\* What the child keeps open: in_fd or its replacement as stdin, the write end of
\* its own pipe as stdout, and whatever it inherited besides.
Leftover(p) ==
  ends[p] \ ((IF ReadsPipe(p) THEN {} ELSE {<<Before(p), "r">>})
             \cup {<<p, "r">>}
             \cup (IF WritesPipe(p) THEN {} ELSE {<<p, "w">>}))

\* The child redirects its streams and becomes the program; it exits if a file
\* cannot be opened or the program cannot be run.
Exec(p) ==
  /\ state[p] = "child"
  /\ IF \/ Command(p).input = "missing" \/ Command(p).output = "missing"
        \/ Command(p).program = "missing"
       THEN Ends(p) /\ UNCHANGED todo
       ELSE /\ state' = [state EXCEPT ![p] = "running"]
            /\ ends' = [ends EXCEPT ![p] = Leftover(p)]
            /\ todo' = [todo EXCEPT ![p] = IF Command(p).program = "source"
                                             THEN Amount ELSE 0]
  /\ UNCHANGED <<lines, pc, pos, target, failed, held, shown>>

\* write: it blocks while the pipe is full, and SIGPIPE ends the writer when
\* nobody has the other end open.
Write(p) ==
  /\ state[p] = "running" /\ todo[p] > 0
  /\ \/ /\ WritesPipe(p) /\ Open(<<p, "r">>) /\ held[p] < PipeSize
        /\ held' = [held EXCEPT ![p] = @ + 1]
        /\ todo' = [todo EXCEPT ![p] = @ - 1]
        /\ UNCHANGED <<state, ends, shown>>
     \/ /\ WritesPipe(p) /\ ~ Open(<<p, "r">>)
        /\ Ends(p)
        /\ UNCHANGED <<held, todo, shown>>
     \/ /\ ~ WritesPipe(p)
        /\ todo' = [todo EXCEPT ![p] = @ - 1]
        /\ shown' = [shown EXCEPT ![p[1]] =
                       IF Command(p).output = "none" THEN @ + 1 ELSE @]
        /\ UNCHANGED <<state, ends, held>>
  /\ UNCHANGED <<lines, pc, pos, target, failed>>

\* read: it blocks while the pipe is empty and somebody has the other end open.
\* A filter passes on what it reads, "head" is satisfied with one item.
Read(p) ==
  /\ state[p] = "running" /\ todo[p] = 0 /\ Command(p).program \in {"filter", "head"}
  /\ ReadsPipe(p)
  /\ LET in == Before(p) IN
     \/ /\ held[in] > 0
        /\ held' = [held EXCEPT ![in] = @ - 1]
        /\ IF Command(p).program = "filter"
             THEN todo' = [todo EXCEPT ![p] = 1] /\ UNCHANGED <<state, ends>>
             ELSE Ends(p) /\ UNCHANGED todo
     \/ /\ held[in] = 0 /\ ~ Open(<<in, "w">>)
        /\ Ends(p)
        /\ UNCHANGED <<held, todo>>
  /\ UNCHANGED <<lines, pc, pos, target, failed, shown>>

\* The program is finished: there is nothing to write and nothing to read.
Exit(p) ==
  /\ state[p] = "running" /\ todo[p] = 0
  /\ Command(p).program = "source" \/ ~ ReadsPipe(p)
  /\ Ends(p)
  /\ UNCHANGED <<lines, pc, pos, target, failed, held, todo, shown>>

process(p) == Exec(p) \/ Write(p) \/ Read(p) \/ Exit(p)

-----------------------------------------------------------------------------
(* The shell *)

\* waitpid for any child: one that has ended, or none at all.
WaitAny == \/ \E q \in Proc : /\ state[q] = "zombie"
                              /\ state' = [state EXCEPT ![q] = "reaped"]
           \/ /\ \A q \in Proc : state[q] \in {"none", "reaped"}
              /\ UNCHANGED state

\* waitpid(p); a pid of -1, from a fork that failed, means any child.
waitpid(p) == \/ /\ p \notin failed /\ state[p] = "zombie"
                 /\ state' = [state EXCEPT ![p] = "reaped"]
              \/ /\ p \notin failed /\ state[p] \in {"none", "reaped"}
                 /\ UNCHANGED state
              \/ /\ p \in failed
                 /\ WaitAny

\* main: a line that is not a builtin is run if it is consistent.
ReadLine(line) ==
  /\ pc = "prompt" /\ Len(lines) < MaxLines
  /\ lines' = Append(lines, line)
  /\ IF check_consistency(line)
       THEN pc' = "spawn" /\ pos' = 1
       ELSE UNCHANGED <<pc, pos>>
  /\ UNCHANGED <<target, failed, system>>

\* run_command up to the recursive call: pipe, fork, and the close of the write
\* end in the parent, which goes on like this if fork fails.  The child inherits
\* everything the shell has open.
Spawn == LET p == self(pos) IN
  /\ pc = "spawn"
  /\ LET pipefd == IF nonterminal(p) THEN {<<p, "r">>, <<p, "w">>} ELSE {} IN
     \/ /\ state' = [state EXCEPT ![p] = "child"]
        /\ ends' = [ends EXCEPT ![p] = ends[Sh] \cup pipefd,
                                ![Sh] = @ \cup (pipefd \ {<<p, "w">>})]
        /\ UNCHANGED failed
     \/ /\ CallsMayFail
        /\ failed' = failed \cup {p}
        /\ ends' = [ends EXCEPT ![Sh] = @ \cup (pipefd \ {<<p, "w">>})]
        /\ UNCHANGED state
  /\ IF nonterminal(p)
       THEN pos' = pos + 1 /\ UNCHANGED pc
       ELSE pc' = "unwind" /\ UNCHANGED pos
  /\ UNCHANGED <<lines, target, held, todo, shown>>

\* run_command when pipe fails: the shell exits, in the middle of the line.
PipeFails ==
  /\ pc = "spawn" /\ CallsMayFail /\ nonterminal(self(pos))
  /\ pc' = "exited"
  /\ ends' = [ends EXCEPT ![Sh] = {}]
  /\ UNCHANGED <<lines, pos, target, failed, state, held, todo, shown>>

\* Seeded fault: the call returns without waiting for the next command.
Unwind_NoWait ==
  /\ pc = "unwind" /\ pos > 1
  /\ ends' = [ends EXCEPT ![Sh] = @ \ {<<self(pos - 1), "r">>}]
  /\ pos' = pos - 1
  /\ UNCHANGED <<lines, pc, target, failed, state, held, todo, shown>>

\* run_command after the recursive call, in the frame of command pos - 1: wait
\* for the next command, then close the pipe to it.
Unwind ==
  /\ pc = "unwind" /\ pos > 1
  /\ waitpid(self(pos))
  /\ ends' = [ends EXCEPT ![Sh] = @ \ {<<self(pos - 1), "r">>}]
  /\ pos' = pos - 1
  /\ UNCHANGED <<lines, pc, target, failed, held, todo, shown>>

\* The rest of run_pipeline, and back to the prompt.
Finish ==
  /\ pc = "unwind" /\ pos = 1
  /\ IF current.background THEN UNCHANGED state ELSE waitpid(self(1))
  /\ pc' = "prompt"
  /\ pos' = 0
  /\ UNCHANGED <<lines, target, failed, ends, held, todo, shown>>

\* The builtins.  A pid the user types is one the shell has printed or used.
Started == {p \in Proc : state[p] # "none"}

\* wait, with or without a pid
Wait(p) == /\ pc = "prompt"
           /\ pc' = "wait"
           /\ target' = p
           /\ UNCHANGED <<lines, pos, failed, system>>

WaitReturns == /\ pc = "wait"
               /\ IF target = Sh THEN WaitAny ELSE waitpid(target)
               /\ pc' = "prompt"
               /\ target' = Sh
               /\ UNCHANGED <<lines, pos, failed, ends, held, todo, shown>>

kill(p) == /\ pc = "prompt" /\ Alive(p)
           /\ Ends(p)
           /\ UNCHANGED <<lines, pc, pos, target, failed, held, todo, shown>>

\* exit, or the end of the input
Quit == /\ pc = "prompt"
        /\ pc' = "exited"
        /\ UNCHANGED <<lines, pos, target, failed, system>>

run_builtin == \/ \E p \in Started \cup {Sh} : Wait(p)
               \/ WaitReturns
               \/ \E p \in Started : kill(p)
               \/ Quit
run_pipeline == Spawn \/ PipeFails \/ Unwind \/ Finish

Next == \/ \E line \in Lines : ReadLine(line)
        \/ run_pipeline \/ run_builtin
        \/ \E p \in Proc : process(p)

\* The kernel runs every process; the user need not type anything.
Fairness == /\ WF_vars(run_pipeline) /\ WF_vars(WaitReturns)
            /\ \A p \in Proc : WF_vars(process(p))

Spec == Init /\ [][Next]_vars /\ Fairness

-----------------------------------------------------------------------------
(* Properties *)

ForkFailed(k) == \E p \in failed : p[1] = k

\* The prompt comes back: although the shell keeps the read end of every pipe open
\* until it has waited for the reader, and later children inherit the ones of
\* earlier commands, no writer waits for ever for room and no reader for the end
\* of its input (execute.c:44-47).  Only a fork that fails leaves a pipe that
\* nobody empties and the shell holds open while it waits.
PromptReturns == \A k \in 1 .. MaxLines :
  (Len(lines) = k /\ pc # "exited") ~> (pc \in {"prompt", "exited"} \/ ForkFailed(k))

\* At the prompt the shell has no descriptor of a pipe open, and every child that
\* is left, running or not reaped, belongs to a line the user put into the
\* background, whatever forks have failed and whomever waitpid(-1) reaped for
\* them, and whatever became of the other commands (execute.c:44-47, 109).
OnlyBackgroundLeft == pc = "prompt" =>
  /\ ends[Sh] = {}
  /\ \A p \in Started : state[p] = "reaped" \/ lines[p[1]].background

\* All items of a foreground pipeline of filters are on the terminal when the
\* prompt comes back: the shell has waited for the last command, and no command
\* lost its input or output.
PlainFilters(line) == \A i \in DOMAIN line.commands :
  line.commands[i] = [program |-> IF i = 1 THEN "source" ELSE "filter",
                      input |-> "none", output |-> "none"]
Delivered == pc = "prompt" => \A k \in DOMAIN lines :
  (PlainFilters(lines[k]) /\ ~ lines[k].background /\ ~ ForkFailed(k)) => shown[k] = Amount
=============================================================================
