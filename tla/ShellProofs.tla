----------------------------- MODULE ShellProofs -----------------------------
(***************************************************************************)
(* For any lines and any sizes of pipes: at the prompt nothing is left but *)
(* commands of background lines (OnlyBackgroundLeft), and the items of a   *)
(* pipeline of filters have all reached the terminal (Delivered).          *)
(***************************************************************************)
EXTENDS Shell, TLAPS

TypeOK == /\ lines \in Seq(Lines) /\ Len(lines) <= MaxLines
          /\ pc \in {"prompt", "spawn", "unwind", "wait", "exited"}
          /\ pos \in Nat
          /\ target \in Proc \cup {Sh}
          /\ failed \subseteq Proc
          /\ state \in [Proc -> {"none", "child", "running", "zombie", "reaped"}]
          /\ ends \in [Proc \cup {Sh} -> SUBSET End]
          /\ held \in [Proc -> Nat] /\ todo \in [Proc -> Nat]
          /\ shown \in [1 .. MaxLines -> Nat]

Length(k) == Len(lines[k].commands)
Ran(p) == p[1] \in DOMAIN lines /\ p[2] <= Length(p[1])   \* a command of a line

\* The shell runs a pipeline, and stands at one of its commands.
AtWork == pc \in {"spawn", "unwind"}
Position == AtWork => Len(lines) > 0 /\ pos \in 1 .. Length(Len(lines))

\* It has the read ends of the pipes before that command, and nothing else.
ShellEnds == ends[Sh] = IF AtWork THEN {<<self(i), "r">> : i \in 1 .. pos - 1} ELSE {}

\* There are processes only for commands it has come to.
Reached(p) == Ran(p) /\ (p[1] = Len(lines) /\ pc = "spawn" => p[2] < pos)
Unborn == \A p \in Proc : state[p] # "none" \/ p \in failed => Reached(p)

\* A fork that failed left no process.
Unforked == \A p \in failed : state[p] = "none"

\* What a shell that has not exited has not waited for is in the pipeline that
\* runs, before the command it stands at, or in a background line.
Gone(p) == state[p] \in {"none", "reaped"}
Excused(p) == lines[p[1]].background
Current(p) == AtWork /\ p[1] = Len(lines) /\ (pc = "unwind" => p[2] <= pos)
Settled == pc # "exited" => \A p \in Proc : Gone(p) \/ Excused(p) \/ Current(p)

\* The inductive invariant for the first theorem
Inv == TypeOK /\ Position /\ ShellEnds /\ Unborn /\ Unforked /\ Settled

LEMMA ProcFacts ==
  /\ Sh \notin Proc
  /\ \A p \in Proc : /\ p = <<p[1], p[2]>>
                     /\ p[1] \in 1 .. MaxLines /\ p[2] \in 1 .. MaxLength
                     /\ p[1] \in Nat \ {0} /\ p[2] \in Nat \ {0} /\ p[2] >= 1
                     /\ <<p, "r">> \in End /\ <<p, "w">> \in End
BY BoundsAssumption DEF Proc, Sh, End

LEMMA LineFacts ==
  ASSUME TypeOK, NEW k \in 1 .. Len(lines)
  PROVE  lines[k] \in Lines /\ Length(k) \in 1 .. MaxLength /\ lines[k].background \in BOOLEAN
BY LinesAssumption DEF TypeOK, Length

\* The command the shell stands at
LEMMA AtCommand ==
  ASSUME TypeOK, Position, AtWork
  PROVE  /\ Len(lines) \in 1 .. MaxLines /\ Len(lines) \in DOMAIN lines
         /\ pos \in 1 .. MaxLength
         /\ \A i \in 1 .. pos : self(i) \in Proc /\ self(i)[1] = Len(lines) /\ self(i)[2] = i
<1>1. Len(lines) \in Nat /\ Len(lines) <= MaxLines /\ Len(lines) > 0
  BY DEF TypeOK, Position
<1>2. Len(lines) \in 1 .. MaxLines /\ Len(lines) \in DOMAIN lines
  BY <1>1, BoundsAssumption DEF TypeOK
<1>3. Length(Len(lines)) \in 1 .. MaxLength
  BY <1>1, LineFacts
<1>4. pos \in 1 .. MaxLength
  BY <1>3, BoundsAssumption DEF Position
<1> QED BY <1>2, <1>4, BoundsAssumption DEF self, Proc

LEMMA InitInv == Init => Inv
<1> SUFFICES ASSUME Init PROVE Inv
  OBVIOUS
<1>1. TypeOK
  BY BoundsAssumption DEF Init, TypeOK
<1>2. Position /\ ShellEnds /\ Unborn /\ Unforked /\ Settled
  BY DEF Init, Position, ShellEnds, Unborn, Unforked, Settled, AtWork, Gone
<1> QED BY <1>1, <1>2 DEF Inv

\* A process goes on or ends: nobody else is concerned.
LEMMA ProcessInv ==
  ASSUME Inv, NEW p \in Proc, ~ Gone(p),
         NEW s \in {"running", "zombie"}, state' = [state EXCEPT ![p] = s] \/ state' = state,
         NEW e \in SUBSET End, ends' = [ends EXCEPT ![p] = e] \/ ends' = ends,
         held' \in [Proc -> Nat], todo' \in [Proc -> Nat], shown' \in [1 .. MaxLines -> Nat],
         UNCHANGED <<lines, pc, pos, target, failed>>
  PROVE  Inv'
<1> USE DEF Inv, TypeOK
<1>1. TypeOK'
  OBVIOUS
<1>2. Position'
  BY DEF Position, AtWork, Length
<1>3. ShellEnds'
  <2>1. ends'[Sh] = ends[Sh]
    BY ProcFacts
  <2> QED BY <2>1 DEF ShellEnds, AtWork, self
<1>4. \A q \in Proc : q # p => state'[q] = state[q]
  OBVIOUS
<1>5. state[p] # "none" /\ state[p] # "reaped"
  BY DEF Gone
<1>6. Unborn' /\ Unforked'
  BY <1>4, <1>5 DEF Unborn, Unforked, Reached, Ran, Length
<1>7. Settled'
  <2> SUFFICES ASSUME pc # "exited", NEW q \in Proc PROVE Gone(q)' \/ Excused(q) \/ Current(q)
    BY DEF Settled, Excused, Current, AtWork
  <2>1. CASE q = p
    BY <2>1 DEF Settled
  <2>2. CASE q # p
    BY <2>2, <1>4 DEF Settled, Gone
  <2> QED BY <2>1, <2>2
<1> QED BY <1>1, <1>2, <1>3, <1>6, <1>7

\* The steps of processes
LEMMA EndsInv ==
  ASSUME Inv, NEW p \in Proc, ~ Gone(p), UNCHANGED <<state, ends>> \/ Ends(p),
         held' \in [Proc -> Nat], todo' \in [Proc -> Nat], shown' \in [1 .. MaxLines -> Nat],
         UNCHANGED <<lines, pc, pos, target, failed>>
  PROVE  Inv'
<1> DEFINE s == "zombie"
           e == {}
<1>1. s \in {"running", "zombie"} /\ e \in SUBSET End
  OBVIOUS
<1>2. /\ state' = [state EXCEPT ![p] = s] \/ state' = state
      /\ ends' = [ends EXCEPT ![p] = e] \/ ends' = ends
  BY DEF Ends
<1> HIDE DEF s, e
<1> QED BY <1>1, <1>2, ProcessInv

LEMMA RunInv == ASSUME Inv, NEW p \in Proc, process(p) PROVE Inv'
<1> USE DEF Inv, TypeOK
<1>1. ~ Gone(p)
  BY DEF process, Exec, Write, Read, Exit, Gone
<1>2. CASE Exec(p)
  <2>1. Leftover(p) \in SUBSET End
    BY ProcFacts DEF Leftover
  <2>2. CASE Ends(p) /\ UNCHANGED todo
    BY <1>1, <1>2, <2>2, EndsInv DEF Exec
  <2>3. CASE /\ state' = [state EXCEPT ![p] = "running"]
             /\ ends' = [ends EXCEPT ![p] = Leftover(p)]
             /\ todo' = [todo EXCEPT ![p] = IF Command(p).program = "source" THEN Amount ELSE 0]
    <3>1. todo' \in [Proc -> Nat]
      BY <2>3, BoundsAssumption
    <3> QED BY <1>1, <1>2, <2>1, <2>3, <3>1, ProcessInv DEF Exec
  <2> QED BY <1>2, <2>2, <2>3 DEF Exec
<1>3. CASE Write(p)
  <2>1. /\ held' \in [Proc -> Nat] /\ todo' \in [Proc -> Nat] /\ shown' \in [1 .. MaxLines -> Nat]
        /\ UNCHANGED <<lines, pc, pos, target, failed>>
        /\ UNCHANGED <<state, ends>> \/ Ends(p)
    <3>1. todo[p] \in Nat /\ todo[p] > 0 /\ todo[p] - 1 \in Nat /\ held[p] + 1 \in Nat
      BY <1>3 DEF Write
    <3>2. [todo EXCEPT ![p] = @ - 1] \in [Proc -> Nat] /\ [held EXCEPT ![p] = @ + 1] \in [Proc -> Nat]
      BY <3>1
    <3>3. p[1] \in 1 .. MaxLines /\ shown[p[1]] \in Nat
      BY ProcFacts
    <3>4. [shown EXCEPT ![p[1]] = IF Command(p).output = "none" THEN @ + 1 ELSE @]
            \in [1 .. MaxLines -> Nat]
      BY <3>3
    <3> QED BY <1>3, <3>2, <3>4 DEF Write
  <2> QED BY <1>1, <2>1, EndsInv
<1>4. CASE Read(p)
  <2>1. /\ held' \in [Proc -> Nat] /\ todo' \in [Proc -> Nat] /\ shown' = shown
        /\ UNCHANGED <<lines, pc, pos, target, failed>>
        /\ UNCHANGED <<state, ends>> \/ Ends(p)
    <3>1. Before(p) \in Proc
      BY <1>4, ProcFacts, BoundsAssumption DEF Read, ReadsPipe, Before, Proc
    <3> QED BY <1>4, <3>1 DEF Read
  <2> QED BY <1>1, <2>1, EndsInv
<1>5. CASE Exit(p)
  BY <1>1, <1>5, EndsInv DEF Exit
<1> QED BY <1>2, <1>3, <1>4, <1>5 DEF process

\* The shell at the prompt, or waiting there: nothing it does makes a process.
LEMMA ReapInv ==
  ASSUME Inv, pc \in {"prompt", "wait"}, pc' \in {"prompt", "wait", "exited"},
         target' \in Proc \cup {Sh}, UNCHANGED state \/ WaitAny \/ waitpid(target),
         UNCHANGED <<lines, pos, failed, ends, held, todo, shown>>
  PROVE  Inv'
<1> USE DEF Inv, TypeOK
<1>1. \A q \in Proc : state'[q] # state[q] => state[q] = "zombie" /\ state'[q] = "reaped"
  BY DEF WaitAny, waitpid
<1>2. state' \in [Proc -> {"none", "child", "running", "zombie", "reaped"}]
  BY DEF WaitAny, waitpid
<1>3. TypeOK'
  BY <1>2
<1>4. Position' /\ ShellEnds'
  BY DEF Position, ShellEnds, AtWork
<1>5. Unborn' /\ Unforked'
  BY <1>1 DEF Unborn, Unforked, Reached, Ran, Length
<1>6. Settled'
  <2> SUFFICES ASSUME NEW q \in Proc PROVE Gone(q)' \/ Excused(q)
    BY DEF Settled, Excused
  <2> QED BY <1>1 DEF Settled, Gone, Current, AtWork
<1> QED BY <1>3, <1>4, <1>5, <1>6

LEMMA BuiltinInv == ASSUME Inv, run_builtin PROVE Inv'
<1> USE DEF Inv, TypeOK
<1>1. ASSUME NEW p \in Started \cup {Sh}, Wait(p) PROVE Inv'
  BY <1>1, ReapInv DEF Wait, Started, system
<1>2. CASE WaitReturns
  BY <1>2, ReapInv DEF WaitReturns
<1>3. ASSUME NEW p \in Started, kill(p) PROVE Inv'
  BY <1>3, EndsInv DEF kill, Started, Alive, Gone
<1>4. CASE Quit
  BY <1>4, ReapInv DEF Quit, system
<1> QED BY <1>1, <1>2, <1>3, <1>4 DEF run_builtin

LEMMA ReadLineInv == ASSUME Inv, NEW line \in Lines, ReadLine(line) PROVE Inv'
<1> USE DEF Inv, TypeOK
<1>1. /\ lines' \in Seq(Lines) /\ Len(lines') = Len(lines) + 1 /\ Len(lines) \in Nat
      /\ Len(lines') <= MaxLines /\ \A k \in 1 .. Len(lines) : lines'[k] = lines[k]
      /\ lines'[Len(lines')] = line
  BY BoundsAssumption DEF ReadLine
<1>2. TypeOK'
  BY <1>1 DEF ReadLine, system
<1>3. Len(line.commands) \in 1 .. MaxLength
  BY LinesAssumption
<1>4. Position'
  BY <1>1, <1>3, BoundsAssumption DEF Position, AtWork, Length, ReadLine
<1>5. ShellEnds'
  BY DEF ShellEnds, AtWork, ReadLine, system
<1>6. \A q \in Proc : state[q] # "none" \/ q \in failed =>
                        q[1] \in 1 .. Len(lines) /\ q[2] <= Length(q[1])
  BY DEF Unborn, Reached, Ran
<1>7. Unborn' /\ Unforked'
  <2> SUFFICES ASSUME NEW q \in Proc, state[q] # "none" \/ q \in failed PROVE Reached(q)'
    BY DEF Unborn, Unforked, ReadLine, system
  <2>1. q[1] \in 1 .. Len(lines') /\ q[1] # Len(lines') /\ Length(q[1])' = Length(q[1])
    BY <1>1, <1>6 DEF Length
  <2> QED BY <1>1, <1>6, <2>1 DEF Reached, Ran
<1>8. Settled'
  <2> SUFFICES ASSUME NEW q \in Proc, ~ Gone(q) PROVE Excused(q)'
    BY DEF Settled, Gone, ReadLine, system
  <2>1. Excused(q)
    BY DEF Settled, Current, AtWork, ReadLine
  <2>2. lines'[q[1]] = lines[q[1]]
    BY <1>1, <1>6 DEF Gone
  <2> QED BY <2>1, <2>2 DEF Excused
<1> QED BY <1>2, <1>4, <1>5, <1>7, <1>8

\* The command the shell stands at is forked, or the fork fails.
LEMMA SpawnInv == ASSUME Inv, Spawn PROVE Inv'
<1> DEFINE p == self(pos)
           pipefd == IF nonterminal(p) THEN {<<p, "r">>, <<p, "w">>} ELSE {}
<1> USE DEF Inv, TypeOK
<1>1. AtWork /\ AtWork' /\ pc = "spawn"
  BY DEF Spawn, AtWork
<1>2. p \in Proc /\ p[1] = Len(lines) /\ p[2] = pos /\ Len(lines) \in DOMAIN lines
  BY <1>1, AtCommand
<1>3. nonterminal(p) <=> pos < Length(Len(lines))
  BY <1>2 DEF nonterminal, Length
<1>4. UNCHANGED <<lines, target, held, todo, shown>>
  BY DEF Spawn
<1>5. \/ nonterminal(p) /\ pos' = pos + 1 /\ pc' = "spawn"
      \/ ~ nonterminal(p) /\ pc' = "unwind" /\ pos' = pos
  BY DEF Spawn
<1>6. \/ state' = [state EXCEPT ![p] = "child"] /\ failed' = failed
      \/ state' = state /\ failed' = failed \cup {p}
  BY DEF Spawn
<1>7. /\ pipefd \in SUBSET End
      /\ \/ ends' = [ends EXCEPT ![p] = ends[Sh] \cup pipefd, ![Sh] = @ \cup (pipefd \ {<<p, "w">>})]
         \/ ends' = [ends EXCEPT ![Sh] = @ \cup (pipefd \ {<<p, "w">>})]
  BY <1>2, ProcFacts DEF Spawn
<1>8. ends' \in [Proc \cup {Sh} -> SUBSET End] /\ ends'[Sh] = ends[Sh] \cup (pipefd \ {<<p, "w">>})
  <2> HIDE DEF p, pipefd
  <2> QED BY <1>2, <1>7, ProcFacts
<1>9. TypeOK'
  <2> HIDE DEF p, pipefd
  <2>1. pos' \in Nat /\ pc' \in {"spawn", "unwind"}
    BY <1>5
  <2>2. /\ state' \in [Proc -> {"none", "child", "running", "zombie", "reaped"}]
        /\ failed' \subseteq Proc
    BY <1>2, <1>6
  <2> QED BY <1>4, <1>8, <2>1, <2>2
<1>10. Length(Len(lines)) \in Nat /\ Length(Len(lines))' = Length(Len(lines))
  BY <1>2, <1>4, LineFacts DEF Length
<1>11. Position'
  BY <1>1, <1>3, <1>4, <1>5, <1>10 DEF Position
<1>12. ShellEnds'
  <2>1. ends[Sh] = {<<self(i), "r">> : i \in 1 .. pos - 1}
    BY <1>1 DEF ShellEnds
  <2>2. CASE nonterminal(p)
    <3>1. ends'[Sh] = ends[Sh] \cup {<<self(pos), "r">>} /\ pos' = pos + 1
      BY <1>5, <1>8, <2>2
    <3>2. 1 .. pos' - 1 = (1 .. pos - 1) \cup {pos}
      BY <1>1, <3>1 DEF Position
    <3>3. ends'[Sh] = {<<self(i), "r">> : i \in 1 .. pos' - 1}
      BY <2>1, <3>1, <3>2
    <3> QED BY <1>1, <1>4, <3>3 DEF ShellEnds, self
  <2>3. CASE ~ nonterminal(p)
    BY <1>1, <1>4, <1>5, <1>8, <2>1, <2>3 DEF ShellEnds, self
  <2> QED BY <2>2, <2>3
<1>13. \A q \in Proc : q # p => state'[q] = state[q]
  BY <1>6
<1>14. Unborn'
  <2> SUFFICES ASSUME NEW q \in Proc, state'[q] # "none" \/ q \in failed' PROVE Reached(q)'
    BY DEF Unborn
  <2>1. CASE q = p
    BY <1>1, <1>2, <1>3, <1>4, <1>5, <1>10, <2>1 DEF Reached, Ran, Position, Length
  <2>2. CASE q # p
    <3>1. Ran(q) /\ (q[1] = Len(lines) => q[2] < pos)
      BY <1>1, <1>6, <1>13, <2>2 DEF Unborn, Reached
    <3>2. q[2] \in Nat /\ (pos' = pos \/ pos' = pos + 1)
      BY <1>5, ProcFacts
    <3> QED BY <1>4, <3>1, <3>2 DEF Reached, Ran, Length
  <2> QED BY <2>1, <2>2
<1>15. Unforked'
  <2>1. state[p] = "none" /\ p \notin failed
    BY <1>1, <1>2 DEF Unborn, Reached
  <2> QED BY <1>2, <1>6, <2>1 DEF Unforked
<1>16. Settled'
  <2> SUFFICES ASSUME NEW q \in Proc, ~ Gone(q)', ~ Excused(q)' PROVE Current(q)'
    BY DEF Settled
  <2>1. CASE q = p
    BY <1>1, <1>2, <1>4, <1>5, <2>1 DEF Current
  <2>2. CASE q # p
    <3>1. ~ Gone(q) /\ ~ Excused(q) /\ state[q] # "none"
      BY <1>4, <1>13, <2>2 DEF Gone, Excused
    <3>2. q[1] = Len(lines) /\ q[2] < pos
      BY <1>1, <3>1 DEF Settled, Current, Unborn, Reached
    <3>3. q[2] \in Nat /\ (pos' = pos \/ pos' = pos + 1)
      BY <1>5, ProcFacts
    <3> QED BY <1>1, <1>4, <3>2, <3>3 DEF Current
  <2> QED BY <2>1, <2>2
<1> QED BY <1>9, <1>11, <1>12, <1>14, <1>15, <1>16

\* What a wait changes
LEMMA WaitFacts ==
  ASSUME TypeOK, NEW p \in Proc, waitpid(p)
  PROVE  /\ state' \in [Proc -> {"none", "child", "running", "zombie", "reaped"}]
         /\ \A q \in Proc : state'[q] # state[q] => state[q] = "zombie" /\ state'[q] = "reaped"
         /\ p \notin failed => state'[p] \in {"none", "reaped"}
BY DEF TypeOK, waitpid, WaitAny

\* The shell goes back over the commands and waits for each.
LEMMA UnwindInv ==
  ASSUME Inv, pc = "unwind", waitpid(self(pos)) \/ (current.background /\ pos = 1 /\ state' = state),
         \/ pos > 1 /\ pos' = pos - 1 /\ pc' = "unwind"
         \/ pos = 1 /\ pos' = 0 /\ pc' = "prompt",
         ends' = [ends EXCEPT ![Sh] = @ \ {<<self(pos - 1), "r">>}],
         UNCHANGED <<lines, target, failed, held, todo, shown>>
  PROVE  Inv'
<1> USE DEF Inv, TypeOK
<1>1. AtWork
  BY DEF AtWork
<1>2. self(pos) \in Proc /\ self(pos) = <<Len(lines), pos>>
  BY <1>1, AtCommand DEF self, Position
<1>3. /\ state' \in [Proc -> {"none", "child", "running", "zombie", "reaped"}]
      /\ \A q \in Proc : state'[q] # state[q] => state[q] = "zombie" /\ state'[q] = "reaped"
  BY <1>2, WaitFacts
<1>4. TypeOK'
  <2>1. ends' \in [Proc \cup {Sh} -> SUBSET End]
    OBVIOUS
  <2>2. pos' \in Nat /\ pc' \in {"unwind", "prompt"}
    OBVIOUS
  <2> QED BY <1>3, <2>1, <2>2
<1>5. Position'
  BY <1>1 DEF Position, AtWork, Length
<1>6. ShellEnds'
  <2>1. ends[Sh] = {<<self(i), "r">> : i \in 1 .. pos - 1}
    BY <1>1 DEF ShellEnds
  <2>2. ends'[Sh] = {<<self(i), "r">> : i \in 1 .. pos - 2}
    BY <2>1 DEF self
  <2>3. CASE pos > 1
    <3>1. AtWork' /\ pos' - 1 = pos - 2
      BY <2>3 DEF AtWork
    <3> QED BY <2>2, <3>1 DEF ShellEnds, self
  <2>4. CASE pos = 1
    BY <2>2, <2>4 DEF ShellEnds, AtWork
  <2> QED BY <1>1, <2>3, <2>4 DEF Position
<1>7. Unborn' /\ Unforked'
  BY <1>3 DEF Unborn, Unforked, Reached, Ran, Length
<1>8. Settled'
  <2> SUFFICES ASSUME NEW q \in Proc, ~ Gone(q)', ~ Excused(q)' PROVE Current(q)'
    BY DEF Settled
  <2>1. ~ Gone(q) /\ ~ Excused(q)
    BY <1>3 DEF Gone, Excused
  <2>2. q[1] = Len(lines) /\ q[2] <= pos /\ q[2] \in Nat \ {0} /\ q = <<q[1], q[2]>>
    BY <2>1, ProcFacts DEF Settled, Current
  <2>3. q[2] # pos
    <3> SUFFICES ASSUME q[2] = pos PROVE FALSE
      OBVIOUS
    <3>1. q = self(pos) /\ q \notin failed
      BY <1>2, <2>1, <2>2 DEF Gone, Unforked
    <3>2. CASE waitpid(self(pos))
      BY <1>2, <3>1, <3>2, WaitFacts DEF Gone
    <3>3. CASE current.background /\ pos = 1
      BY <2>1, <2>2, <3>3 DEF Excused, current
    <3> QED BY <3>2, <3>3
  <2> QED BY <2>2, <2>3 DEF Current, AtWork
<1> QED BY <1>4, <1>5, <1>6, <1>7, <1>8

\* Without a pipe the shell exits.
LEMMA PipeFailsInv == ASSUME Inv, PipeFails PROVE Inv'
<1> USE DEF Inv, TypeOK, PipeFails
<1>1. TypeOK'
  OBVIOUS
<1>2. ends'[Sh] = {}
  OBVIOUS
<1>3. Position' /\ ShellEnds' /\ Settled'
  BY <1>2 DEF Position, ShellEnds, Settled, AtWork
<1>4. Unborn' /\ Unforked'
  BY DEF Unborn, Unforked, Reached, Ran, Length
<1> QED BY <1>1, <1>3, <1>4

LEMMA PipelineInv == ASSUME Inv, run_pipeline PROVE Inv'
<1>1. CASE Unwind
  BY <1>1, UnwindInv DEF Unwind
<1>2. CASE Finish
  <2>1. ends[Sh] = {} /\ ends \in [Proc \cup {Sh} -> SUBSET End]
    BY <1>2 DEF Finish, Inv, TypeOK, ShellEnds, AtWork
  <2>2. ends' = [ends EXCEPT ![Sh] = @ \ {<<self(pos - 1), "r">>}]
    BY <1>2, <2>1 DEF Finish
  <2>3. waitpid(self(pos)) \/ (current.background /\ pos = 1 /\ state' = state)
    BY <1>2 DEF Finish
  <2> QED BY <1>2, <2>2, <2>3, UnwindInv DEF Finish
<1> QED BY <1>1, <1>2, SpawnInv, PipeFailsInv DEF run_pipeline

LEMMA NextInv == Inv /\ [Next]_vars => Inv'
<1> SUFFICES ASSUME Inv, [Next]_vars PROVE Inv'
  OBVIOUS
<1>1. CASE UNCHANGED vars
  BY <1>1 DEF vars, Inv, TypeOK, Position, ShellEnds, Unborn, Unforked, Settled, AtWork, Length,
              Ran, Reached, Gone, Excused, Current, self
<1> QED BY <1>1, RunInv, BuiltinInv, PipelineInv, ReadLineInv DEF Next

LEMMA Invariant == Spec => []Inv
BY InitInv, NextInv, PTL DEF Spec

\* At the prompt the shell has no pipe open, and no child is left but commands of
\* background lines, whatever forks have failed: each return of run_command has
\* waited for the next command and closed the pipe to it (execute.c:44-47, 109).
THEOREM NothingElseLeft == Spec => []OnlyBackgroundLeft
<1>1. Inv => OnlyBackgroundLeft
  BY DEF Inv, OnlyBackgroundLeft, ShellEnds, AtWork, Settled, Gone, Excused, Current, Started
<1> QED BY <1>1, Invariant, PTL

-----------------------------------------------------------------------------
(* What reaches the terminal *)

\* The lines Delivered is about, and processes that have ended
Good(k) == /\ pc # "exited" /\ k \in DOMAIN lines
           /\ PlainFilters(lines[k]) /\ ~ lines[k].background /\ ~ ForkFailed(k)
Over(p) == state[p] \in {"zombie", "reaped"}

\* In such a line every command the shell has come to has a process, the process
\* has its pipes open while it lives, and it outlives the one before it.
Born == \A p \in Proc : Good(p[1]) /\ Reached(p) => state[p] # "none"
Streams == \A p \in Proc : Good(p[1]) /\ Alive(p) =>
  /\ p[2] > 1 => <<Before(p), "r">> \in ends[p]
  /\ nonterminal(p) => <<p, "w">> \in ends[p]
InOrder == \A p \in Proc : Good(p[1]) /\ Over(p) /\ p[2] > 1 => Over(Before(p))

\* With what each process has written so far, no item is lost on the way: what one
\* command has written is in the pipe, in the hands of the next, or written by it.
Fresh(written) == \A p \in Proc : p[1] \notin DOMAIN lines =>
  written[p] = 0 /\ held[p] = 0 /\ todo[p] = 0 /\ shown[p[1]] = 0
Balance(written, p) ==
  /\ p[2] > 1 => written[Before(p)] = held[Before(p)] + todo[p] + written[p]
  /\ state[p] \in {"none", "child"} => written[p] = 0 /\ todo[p] = 0
  /\ p[2] = 1 /\ state[p] = "running" => written[p] + todo[p] = Amount
  /\ Over(p) => written[p] = Amount /\ todo[p] = 0
  /\ ~ nonterminal(p) => shown[p[1]] = written[p]
Flow(written) == \A p \in Proc : Good(p[1]) /\ Ran(p) => Balance(written, p)

Order == Born /\ Streams /\ InOrder
FlowInv == Order /\ \E written \in [Proc -> Nat] : Fresh(written) /\ Flow(written)

\* Commands of such a line read and write pipes, but for the first and the last.
LEMMA GoodFacts ==
  ASSUME TypeOK, NEW p \in Proc, Good(p[1]), Ran(p)
  PROVE  /\ Command(p) = [program |-> IF p[2] = 1 THEN "source" ELSE "filter",
                          input |-> "none", output |-> "none"]
         /\ ReadsPipe(p) <=> p[2] > 1
         /\ WritesPipe(p) <=> nonterminal(p)
<1>1. p[2] \in 1 .. Len(lines[p[1]].commands) /\ lines[p[1]] \in Lines
  <2>1. p[1] \in 1 .. Len(lines) /\ p[2] <= Length(p[1])
    BY DEF Ran, TypeOK
  <2>2. lines[p[1]] \in Lines /\ Length(p[1]) \in Nat
    BY <2>1, LineFacts
  <2>3. p[2] \in Nat /\ p[2] >= 1
    BY ProcFacts
  <2> QED BY <2>1, <2>2, <2>3 DEF Length
<1>2. Command(p) = [program |-> IF p[2] = 1 THEN "source" ELSE "filter",
                    input |-> "none", output |-> "none"]
  <2>1. p[2] \in DOMAIN lines[p[1]].commands
    BY <1>1, LinesAssumption
  <2>2. PlainFilters(lines[p[1]])
    BY DEF Good
  <2> QED BY <2>1, <2>2 DEF PlainFilters, Command
<1>3. Command(p).input = "none" /\ Command(p).output = "none"
  BY <1>2
<1> QED BY <1>2, <1>3 DEF ReadsPipe, WritesPipe, nonterminal

LEMMA BeforeFacts ==
  ASSUME NEW p \in Proc, p[2] > 1
  PROVE  Before(p) \in Proc /\ Before(p)[1] = p[1] /\ Before(p)[2] = p[2] - 1 /\ Before(p) # p
BY ProcFacts, BoundsAssumption DEF Before, Proc

LEMMA BeforeRan ==
  ASSUME TypeOK, NEW p \in Proc, Ran(p), p[2] > 1
  PROVE  Ran(Before(p)) /\ nonterminal(Before(p))
<1>1. p[1] \in 1 .. Len(lines) /\ p[2] <= Length(p[1]) /\ p[1] \in DOMAIN lines
  BY DEF Ran, TypeOK
<1>2. Length(p[1]) \in Nat
  BY <1>1, LineFacts
<1>3. Before(p)[1] = p[1] /\ Before(p)[2] = p[2] - 1
  BY BeforeFacts
<1>4. p[2] - 1 <= Length(p[1]) /\ p[2] - 1 < Length(p[1])
  <2>1. p[2] \in Nat
    BY ProcFacts
  <2> QED BY <1>1, <1>2, <2>1
<1> QED BY <1>1, <1>3, <1>4 DEF Ran, nonterminal, Length

\* Steps that do not concern such a line, but for a wait
LEMMA FlowFrame ==
  ASSUME FlowInv, lines' = lines, failed \subseteq failed', pc = "exited" => pc' = "exited",
         \A q \in Proc : Good(q[1])' =>
           /\ state'[q] = state[q] \/ (state[q] = "zombie" /\ state'[q] = "reaped")
           /\ ends'[q] = ends[q] /\ held'[q] = held[q] /\ todo'[q] = todo[q]
           /\ shown'[q[1]] = shown[q[1]]
           /\ Reached(q)' => Reached(q),
         \A q \in Proc : q[1] \notin DOMAIN lines =>
           held'[q] = held[q] /\ todo'[q] = todo[q] /\ shown'[q[1]] = shown[q[1]]
  PROVE  FlowInv'
<1>1. \A q \in Proc : Good(q[1])' => Good(q[1])
  BY DEF Good, ForkFailed
<1>2. Born'
  BY <1>1 DEF FlowInv, Order, Born
<1>3. Streams'
  BY <1>1 DEF FlowInv, Order, Streams, Alive, nonterminal, Before
<1>4. InOrder'
  <2> SUFFICES ASSUME NEW q \in Proc, Good(q[1])', Over(q)', q[2] > 1 PROVE Over(Before(q))'
    BY DEF InOrder, Before
  <2>1. Over(q)
    BY DEF Over
  <2>2. Before(q) \in Proc /\ Before(q)[1] = q[1] /\ Over(Before(q))
    BY <1>1, <2>1, BeforeFacts DEF FlowInv, Order, InOrder
  <2> QED BY <2>2 DEF Over
<1>5. PICK written \in [Proc -> Nat] : Fresh(written) /\ Flow(written)
  BY DEF FlowInv
<1>6. Fresh(written)'
  BY <1>5 DEF Fresh
<1>7. Flow(written)'
  <2> SUFFICES ASSUME NEW q \in Proc, Good(q[1])', Ran(q)' PROVE Balance(written, q)'
    BY DEF Flow
  <2>1. Balance(written, q)
    BY <1>1, <1>5 DEF Flow, Ran, Length
  <2>2. q[2] > 1 => held'[Before(q)] = held[Before(q)]
    BY BeforeFacts
  <2>3. Over(q)' => Over(q)
    BY DEF Over
  <2>4. state'[q] \in {"none", "child", "running"} => state'[q] = state[q]
    OBVIOUS
  <2> QED BY <2>1, <2>2, <2>3, <2>4 DEF Balance, nonterminal, Before
<1> QED BY <1>2, <1>3, <1>4, <1>5, <1>6, <1>7 DEF FlowInv, Order

LEMMA InitFlow == Init => FlowInv
<1> SUFFICES ASSUME Init PROVE FlowInv
  OBVIOUS
<1>1. \A k : ~ Good(k)
  BY DEF Good, Init
<1>2. Order
  BY <1>1 DEF Order, Born, Streams, InOrder
<1> DEFINE written == [p \in Proc |-> 0]
<1>3. written \in [Proc -> Nat] /\ Fresh(written) /\ Flow(written)
  BY <1>1, ProcFacts DEF Fresh, Flow, Init
<1> QED BY <1>2, <1>3 DEF FlowInv

LEMMA ReadLineFlow ==
  ASSUME Inv, FlowInv, NEW line \in Lines, ReadLine(line) PROVE FlowInv'
<1> USE DEF Inv, TypeOK
<1>1. /\ Len(lines) \in Nat /\ DOMAIN lines = 1 .. Len(lines)
      /\ Len(lines') = Len(lines) + 1 /\ DOMAIN lines' = 1 .. Len(lines')
      /\ \A k \in 1 .. Len(lines) : lines'[k] = lines[k]
      /\ lines'[Len(lines')] = line
  BY BoundsAssumption DEF ReadLine
<1>2. UNCHANGED <<failed, state, ends, held, todo, shown>> /\ pc = "prompt"
  BY DEF ReadLine, system
<1>3. ASSUME NEW q \in Proc, q[1] \in DOMAIN lines'
      PROVE  \/ /\ q[1] \in DOMAIN lines /\ lines'[q[1]] = lines[q[1]]
                /\ Good(q[1])' => Good(q[1])
                /\ Ran(q)' => Ran(q)
             \/ /\ q[1] = Len(lines') /\ q[1] \notin DOMAIN lines
                /\ state[q] = "none"
  <2>1. CASE q[1] \in 1 .. Len(lines)
    BY <1>1, <1>2, <2>1 DEF Good, ForkFailed, Ran, Length
  <2>2. CASE q[1] \notin 1 .. Len(lines)
    BY <1>1, <1>3, <2>2 DEF Unborn, Reached, Ran
  <2> QED BY <2>1, <2>2
<1>4. Born'
  <2> SUFFICES ASSUME NEW q \in Proc, Good(q[1])', Reached(q)' PROVE state[q] # "none"
    BY <1>2 DEF Born
  <2>1. CASE q[1] \in DOMAIN lines /\ Good(q[1]) /\ Ran(q)
    BY <1>2, <2>1 DEF FlowInv, Order, Born, Reached
  <2>2. q[1] # Len(lines')
    <3> SUFFICES ASSUME q[1] = Len(lines') PROVE FALSE
      OBVIOUS
    <3>1. PlainFilters(line)
      BY <1>1 DEF Good
    <3>2. check_consistency(line)
      <4> SUFFICES ASSUME NEW i \in DOMAIN line.commands PROVE line.commands[i].output = "none"
        BY DEF check_consistency
      <4>1. line.commands[i] = [program |-> IF i = 1 THEN "source" ELSE "filter",
                                input |-> "none", output |-> "none"]
        BY <3>1 DEF PlainFilters
      <4> QED BY <4>1
    <3>3. pc' = "spawn" /\ pos' = 1
      BY <3>2 DEF ReadLine
    <3>4. q[2] < 1
      BY <3>3 DEF Reached
    <3>5. q[2] \in Nat /\ q[2] >= 1
      BY ProcFacts
    <3> QED BY <3>4, <3>5
  <2> QED BY <1>3, <2>1, <2>2 DEF Good, Reached
<1>5. Streams' /\ InOrder'
  BY <1>2, <1>3 DEF FlowInv, Order, Streams, InOrder, Alive, Over, Good, nonterminal, Before
<1>6. PICK written \in [Proc -> Nat] : Fresh(written) /\ Flow(written)
  BY DEF FlowInv
<1>7. Fresh(written)'
  BY <1>1, <1>2, <1>6 DEF Fresh
<1>8. Flow(written)'
  <2> SUFFICES ASSUME NEW q \in Proc, Good(q[1])', Ran(q)' PROVE Balance(written, q)'
    BY DEF Flow
  <2>1. CASE q[1] \in DOMAIN lines /\ lines'[q[1]] = lines[q[1]] /\ Good(q[1]) /\ Ran(q)
    <3>1. Balance(written, q)
      BY <1>6, <2>1 DEF Flow
    <3> QED BY <1>2, <2>1, <3>1 DEF Balance, nonterminal, Before, Over
  <2>2. CASE q[1] \notin DOMAIN lines /\ state[q] = "none"
    <3>1. \A r \in Proc : r[1] = q[1] => written[r] = 0 /\ held[r] = 0 /\ todo[r] = 0 /\ shown[r[1]] = 0
      BY <1>6, <2>2 DEF Fresh
    <3>2. q[2] > 1 => written[Before(q)] = 0 /\ held[Before(q)] = 0
      BY <3>1, BeforeFacts
    <3> QED BY <1>2, <2>2, <3>1, <3>2 DEF Balance, Before, Over
  <2> QED BY <1>3, <2>1, <2>2 DEF Good
<1> QED BY <1>4, <1>5, <1>6, <1>7, <1>8 DEF FlowInv, Order

LEMMA SpawnFlow == ASSUME Inv, FlowInv, Spawn PROVE FlowInv'
<1> DEFINE p == self(pos)
           pipefd == IF nonterminal(p) THEN {<<p, "r">>, <<p, "w">>} ELSE {}
<1> USE DEF Inv, TypeOK
<1>1. AtWork /\ pc = "spawn"
  BY DEF Spawn, AtWork
<1>2. p \in Proc /\ p[1] = Len(lines) /\ p[2] = pos /\ Len(lines) \in DOMAIN lines
  BY <1>1, AtCommand
<1>3. UNCHANGED <<lines, target, held, todo, shown>>
  BY DEF Spawn
<1>4. \/ pos' = pos + 1 /\ pc' = "spawn"
      \/ ~ nonterminal(p) /\ pc' = "unwind" /\ pos' = pos
  BY DEF Spawn
<1>5. ASSUME NEW q \in Proc, q # p, Reached(q)' PROVE Reached(q)
  <2>1. q = <<q[1], q[2]>> /\ p = <<p[1], p[2]>> /\ q[2] \in Nat
    BY <1>2, ProcFacts
  <2>2. q[1] # p[1] \/ q[2] # p[2]
    BY <1>5, <2>1
  <2>3. CASE q[1] # Len(lines)
    BY <1>3, <1>5, <2>3 DEF Reached, Ran, Length
  <2>4. CASE q[1] = Len(lines)
    <3>1. q[2] # pos
      BY <1>2, <2>2, <2>4
    <3>2. Ran(q)
      BY <1>3, <1>5 DEF Reached, Ran, Length
    <3>3. CASE pos' = pos + 1 /\ pc' = "spawn"
      BY <1>3, <1>5, <2>1, <2>4, <3>1, <3>2, <3>3 DEF Reached
    <3>4. CASE ~ nonterminal(p)
      BY <1>2, <2>1, <2>4, <3>1, <3>2, <3>4, LineFacts DEF nonterminal, Ran, Reached, Length
    <3> QED BY <1>4, <3>3, <3>4
  <2> QED BY <2>3, <2>4
<1>6. CASE failed' = failed \cup {p} /\ ends' = [ends EXCEPT ![Sh] = @ \cup (pipefd \ {<<p, "w">>})]
           /\ state' = state
  <2>1. \A q \in Proc : Good(q[1])' => q # p
    BY <1>6 DEF Good, ForkFailed
  <2>2. \A q \in Proc : ends'[q] = ends[q]
    BY <1>6, ProcFacts
  <2> HIDE DEF p, pipefd
  <2> QED BY <1>1, <1>3, <1>5, <1>6, <2>1, <2>2, FlowFrame
<1>7. CASE /\ state' = [state EXCEPT ![p] = "child"]
           /\ ends' = [ends EXCEPT ![p] = ends[Sh] \cup pipefd, ![Sh] = @ \cup (pipefd \ {<<p, "w">>})]
           /\ failed' = failed
  <2> HIDE DEF p
  <2>1. /\ state[p] = "none" /\ state'[p] = "child" /\ ends'[p] = ends[Sh] \cup pipefd
        /\ \A q \in Proc : q # p => state'[q] = state[q] /\ ends'[q] = ends[q]
    <3>1. state[p] = "none"
      BY <1>1, <1>2 DEF Unborn, Reached
    <3> HIDE DEF pipefd
    <3> QED BY <1>2, <1>7, <3>1, ProcFacts
  <2>2. \A q \in Proc : Good(q[1])' => Good(q[1])
    BY <1>1, <1>3, <1>7 DEF Good, ForkFailed
  <2>3. Born'
    BY <1>5, <2>1, <2>2 DEF Born, FlowInv, Order
  <2>4. InOrder'
    <3> SUFFICES ASSUME NEW q \in Proc, Good(q[1])', Over(q)', q[2] > 1 PROVE Over(Before(q))'
      BY DEF InOrder, Before
    <3>1. q # p /\ Over(q)
      BY <2>1 DEF Over
    <3>2. Over(Before(q)) /\ Before(q) \in Proc
      BY <2>2, <3>1, BeforeFacts DEF FlowInv, Order, InOrder
    <3> QED BY <2>1, <3>2 DEF Over
  <2>5. Streams'
    <3> SUFFICES ASSUME NEW q \in Proc, Good(q[1])', Alive(q)'
                 PROVE  /\ q[2] > 1 => <<Before(q), "r">> \in ends'[q]
                        /\ nonterminal(q) => <<q, "w">> \in ends'[q]
      BY <1>3 DEF Streams, nonterminal, Before
    <3>1. CASE q = p
      <4>1. ASSUME q[2] > 1 PROVE <<Before(p), "r">> \in ends[Sh]
        <5>1. Before(p) = self(pos - 1) /\ pos - 1 \in 1 .. pos - 1
          BY <1>2, <3>1, <4>1 DEF Before, self
        <5> QED BY <1>1, <5>1 DEF ShellEnds
      <4> QED BY <2>1, <3>1, <4>1
    <3>2. CASE q # p
      BY <2>1, <2>2, <3>2 DEF FlowInv, Order, Streams, Alive
    <3> QED BY <3>1, <3>2
  <2>6. PICK written \in [Proc -> Nat] : Fresh(written) /\ Flow(written)
    BY DEF FlowInv
  <2>7. Fresh(written)'
    BY <1>3, <2>6 DEF Fresh
  <2>8. Flow(written)'
    <3> SUFFICES ASSUME NEW q \in Proc, Good(q[1])', Ran(q)' PROVE Balance(written, q)'
      BY DEF Flow
    <3>1. Balance(written, q)
      BY <1>3, <2>2, <2>6 DEF Flow, Ran, Length
    <3>2. CASE q = p
      BY <1>3, <2>1, <3>1, <3>2 DEF Balance, nonterminal, Before, Over
    <3>3. CASE q # p
      BY <1>3, <2>1, <3>1, <3>3 DEF Balance, nonterminal, Before, Over
    <3> QED BY <3>2, <3>3
  <2> QED BY <2>3, <2>4, <2>5, <2>6, <2>7, <2>8 DEF FlowInv, Order
<1> QED BY <1>6, <1>7 DEF Spawn

\* Going back over the commands, waiting at the prompt and doing nothing
LEMMA QuietFlow ==
  ASSUME Inv, FlowInv, pc' = "spawn" => pc = "spawn" /\ pos' = pos, pc = "spawn" => pc' = pc,
         pc = "exited" => pc' = pc,
         \A q \in Proc : state'[q] # state[q] => state[q] = "zombie" /\ state'[q] = "reaped",
         \A q \in Proc : ends'[q] = ends[q],
         UNCHANGED <<lines, failed, held, todo, shown>>
  PROVE  FlowInv'
<1>1. \A q \in Proc : Reached(q)' => Reached(q)
  BY DEF Reached, Ran, Length
<1> QED BY <1>1, FlowFrame

\* A shell that exits leaves no line to be delivered.
LEMMA PipeFailsFlow == ASSUME Inv, FlowInv, PipeFails PROVE FlowInv'
<1>1. \A q \in Proc : ~ Good(q[1])'
  BY DEF PipeFails, Good
<1> QED BY <1>1, FlowFrame DEF PipeFails

LEMMA ReturnFlow == ASSUME Inv, FlowInv, Unwind \/ Finish PROVE FlowInv'
<1>1. self(pos) \in Proc /\ (Finish => pos = 1)
  BY AtCommand DEF Unwind, Finish, AtWork, Position, Inv
<1>2. \A q \in Proc : state'[q] # state[q] => state[q] = "zombie" /\ state'[q] = "reaped"
  BY <1>1, WaitFacts DEF Unwind, Finish, Inv
<1>3. \A q \in Proc : ends'[q] = ends[q]
  BY ProcFacts DEF Unwind, Finish, Inv, TypeOK
<1> QED BY <1>2, <1>3, QuietFlow DEF Unwind, Finish

\* No process of such a line is left at the prompt, to be killed.
LEMMA BuiltinFlow == ASSUME Inv, FlowInv, run_builtin PROVE FlowInv'
<1> USE DEF Inv, TypeOK
<1>1. ASSUME NEW p \in Started \cup {Sh}, Wait(p) PROVE FlowInv'
  BY <1>1, QuietFlow DEF Wait, system
<1>2. CASE WaitReturns
  <2>1. \A q \in Proc : state'[q] # state[q] => state[q] = "zombie" /\ state'[q] = "reaped"
    BY <1>2 DEF WaitReturns, WaitAny, waitpid
  <2> QED BY <1>2, <2>1, QuietFlow DEF WaitReturns
<1>3. ASSUME NEW p \in Started, kill(p) PROVE FlowInv'
  <2>1. p \in Proc /\ Excused(p) /\ Ran(p)
    BY <1>3 DEF kill, Started, Settled, Gone, Current, AtWork, Alive, Unborn, Reached
  <2>2. ~ Good(p[1])'
    BY <1>3, <2>1 DEF Excused, Good, ForkFailed, kill
  <2>3. \A q \in Proc : q # p => state'[q] = state[q] /\ ends'[q] = ends[q]
    BY <1>3, <2>1, ProcFacts DEF kill, Ends
  <2>4. \A q \in Proc : Reached(q)' => Reached(q)
    BY <1>3 DEF Reached, Ran, Length, kill
  <2> QED BY <1>3, <2>2, <2>3, <2>4, FlowFrame DEF kill
<1>4. CASE Quit
  BY <1>4, QuietFlow DEF Quit, system
<1> QED BY <1>1, <1>2, <1>3, <1>4 DEF run_builtin

\* In such a line nobody writes to a pipe without a reader, ...
LEMMA ReaderThere ==
  ASSUME Inv, FlowInv, NEW p \in Proc, Good(p[1]), state[p] = "running", nonterminal(p)
  PROVE  Open(<<p, "r">>)
<1> DEFINE next == <<p[1], p[2] + 1>>
<1> USE DEF Inv, TypeOK
<1>1. Ran(p) /\ Reached(p) /\ p[1] \in 1 .. Len(lines)
  BY DEF Unborn, Reached, Ran
<1>2. Length(p[1]) \in 1 .. MaxLength
  BY <1>1, LineFacts
<1>3. p[1] \in 1 .. MaxLines /\ p[2] \in Nat /\ p[2] >= 1 /\ p = <<p[1], p[2]>>
  BY ProcFacts
<1>4. p[2] + 1 <= Length(p[1]) /\ p[2] + 1 \in 1 .. MaxLength
  <2>1. p[2] < Length(p[1])
    BY DEF nonterminal, Length
  <2>2. p[2] \in Nat
    BY <1>3
  <2> QED BY <1>2, <2>1, <2>2, BoundsAssumption
<1>5. next \in Proc /\ next[1] = p[1] /\ next[2] = p[2] + 1 /\ next[2] > 1 /\ Before(next) = p
  <2>1. next \in Proc
    BY <1>3, <1>4 DEF Proc
  <2>2. p[2] + 1 > 1 /\ (p[2] + 1) - 1 = p[2]
    BY <1>3
  <2> QED BY <1>3, <2>1, <2>2 DEF Before
<1>6. Ran(next)
  BY <1>1, <1>4, <1>5 DEF Ran
<1> HIDE DEF next
<1>7. CASE state[next] = "none"
  <2>1. ~ Reached(next)
    BY <1>5, <1>7 DEF FlowInv, Order, Born
  <2>2. pc = "spawn" /\ p[1] = Len(lines) /\ p[2] < pos /\ ~ (p[2] + 1 < pos)
    BY <1>1, <1>5, <1>6, <2>1 DEF Reached
  <2>3. p = self(pos - 1) /\ pos - 1 \in 1 .. pos - 1
    BY <1>3, <2>2 DEF self
  <2>4. <<p, "r">> \in ends[Sh]
    BY <2>2, <2>3 DEF ShellEnds, AtWork
  <2> QED BY <2>4 DEF Open
<1>8. CASE Alive(next)
  BY <1>5, <1>8 DEF FlowInv, Order, Streams, Open
<1>9. CASE Over(next)
  BY <1>5, <1>9 DEF FlowInv, Order, InOrder, Over
<1> QED BY <1>5, <1>7, <1>8, <1>9 DEF Alive, Over

\* ... and the end of the input means that the writer has ended.
LEMMA WriterOver ==
  ASSUME Inv, FlowInv, NEW p \in Proc, Good(p[1]), state[p] = "running", p[2] > 1,
         ~ Open(<<Before(p), "w">>)
  PROVE  Over(Before(p))
<1> USE DEF Inv, TypeOK
<1>1. /\ Before(p) \in Proc /\ Before(p)[1] = p[1] /\ Before(p)[2] = p[2] - 1
      /\ p[2] \in Nat
  BY BeforeFacts, ProcFacts
<1>2. Reached(p) /\ Ran(p) /\ p[1] \in 1 .. Len(lines) /\ p[2] <= Length(p[1])
  BY DEF Unborn, Reached, Ran
<1>3. Length(p[1]) \in Nat
  BY <1>2, LineFacts
<1>4. Reached(Before(p)) /\ nonterminal(Before(p))
  BY <1>1, <1>2, <1>3 DEF Reached, Ran, nonterminal, Length
<1>5. state[Before(p)] # "none"
  BY <1>1, <1>4 DEF FlowInv, Order, Born
<1>6. ~ Alive(Before(p))
  BY <1>1, <1>4 DEF FlowInv, Order, Streams, Open
<1> QED BY <1>1, <1>5, <1>6 DEF Alive, Over

\* What the processes of such a line do: start, write, read and end.
Starts(p) == /\ state[p] = "child"
             /\ state' = [state EXCEPT ![p] = "running"]
             /\ ends' = [ends EXCEPT ![p] = Leftover(p)]
             /\ todo' = [todo EXCEPT ![p] = IF p[2] = 1 THEN Amount ELSE 0]
             /\ UNCHANGED <<held, shown>>
Passes(p) == /\ state[p] = "running" /\ todo[p] > 0 /\ nonterminal(p)
             /\ held' = [held EXCEPT ![p] = @ + 1]
             /\ todo' = [todo EXCEPT ![p] = @ - 1]
             /\ UNCHANGED <<state, ends, shown>>
Shows(p) == /\ state[p] = "running" /\ todo[p] > 0 /\ ~ nonterminal(p)
            /\ shown' = [shown EXCEPT ![p[1]] = @ + 1]
            /\ todo' = [todo EXCEPT ![p] = @ - 1]
            /\ UNCHANGED <<state, ends, held>>
Takes(p) == /\ state[p] = "running" /\ todo[p] = 0 /\ p[2] > 1 /\ held[Before(p)] > 0
            /\ held' = [held EXCEPT ![Before(p)] = @ - 1]
            /\ todo' = [todo EXCEPT ![p] = 1]
            /\ UNCHANGED <<state, ends, shown>>
Stops(p) == /\ state[p] = "running" /\ todo[p] = 0
            /\ p[2] > 1 => held[Before(p)] = 0 /\ Over(Before(p))
            /\ Ends(p)
            /\ UNCHANGED <<held, todo, shown>>

LEMMA GoodSteps ==
  ASSUME Inv, FlowInv, NEW p \in Proc, Good(p[1]), process(p)
  PROVE  /\ Starts(p) \/ Passes(p) \/ Shows(p) \/ Takes(p) \/ Stops(p)
         /\ UNCHANGED <<lines, pc, pos, target, failed>> /\ Ran(p)
<1>1. UNCHANGED <<lines, pc, pos, target, failed>>
  BY DEF process, Exec, Write, Read, Exit
<1>2. Ran(p)
  BY DEF process, Exec, Write, Read, Exit, Inv, Unborn, Reached
<1>3. /\ Command(p).input = "none" /\ Command(p).output = "none"
      /\ Command(p).program = IF p[2] = 1 THEN "source" ELSE "filter"
      /\ ReadsPipe(p) <=> p[2] > 1
      /\ WritesPipe(p) <=> nonterminal(p)
  BY <1>2, GoodFacts DEF Inv
<1>4. p[2] \in Nat /\ p[2] >= 1
  BY ProcFacts
<1>5. CASE Exec(p)
  <2>1. (Command(p).program = "source") <=> p[2] = 1
    BY <1>3
  <2> QED BY <1>1, <1>2, <1>3, <1>5, <2>1 DEF Exec, Starts
<1>6. CASE Write(p)
  <2>1. CASE WritesPipe(p) /\ ~ Open(<<p, "r">>)
    BY <1>3, <1>6, <2>1, ReaderThere DEF Write
  <2>2. CASE WritesPipe(p) /\ Open(<<p, "r">>)
    BY <1>1, <1>2, <1>3, <1>6, <2>2 DEF Write, Passes
  <2>3. CASE ~ WritesPipe(p)
    BY <1>1, <1>2, <1>3, <1>6, <2>3 DEF Write, Shows
  <2> QED BY <2>1, <2>2, <2>3
<1>7. CASE Read(p)
  <2>1. p[2] > 1 /\ Command(p).program = "filter"
    BY <1>3, <1>7 DEF Read
  <2>2. CASE held[Before(p)] > 0
    BY <1>1, <1>2, <1>7, <2>1, <2>2 DEF Read, Takes
  <2>3. CASE held[Before(p)] = 0 /\ ~ Open(<<Before(p), "w">>) /\ Ends(p) /\ UNCHANGED <<held, todo>>
    BY <1>1, <1>2, <1>7, <2>1, <2>3, WriterOver DEF Read, Stops
  <2> QED BY <1>7, <2>2, <2>3 DEF Read
<1>8. CASE Exit(p)
  <2>1. p[2] = 1
    BY <1>3, <1>4, <1>8 DEF Exit
  <2> QED BY <1>1, <1>2, <1>8, <2>1 DEF Exit, Stops
<1> QED BY <1>5, <1>6, <1>7, <1>8 DEF process

LEMMA GoodOrder ==
  ASSUME Inv, FlowInv, NEW p \in Proc, Good(p[1]), process(p)
  PROVE  Order'
<1> USE DEF Inv, TypeOK
<1>1. /\ Starts(p) \/ Passes(p) \/ Shows(p) \/ Takes(p) \/ Stops(p)
      /\ UNCHANGED <<lines, pc, pos, failed>> /\ Ran(p)
  BY GoodSteps
<1>2. /\ \A q \in Proc : Good(q[1])' => Good(q[1])
      /\ \A q \in Proc : Reached(q)' => Reached(q)
  BY <1>1 DEF Good, ForkFailed, Reached, Ran, Length
<1>3. state[p] \in {"child", "running"} /\ state'[p] # "none"
  BY <1>1 DEF Starts, Passes, Shows, Takes, Stops, Ends
<1>4. \A q \in Proc : q # p => state'[q] = state[q] /\ ends'[q] = ends[q]
  <2>1. \/ state' = state /\ ends' = ends
        \/ state' = [state EXCEPT ![p] = "running"] /\ ends' = [ends EXCEPT ![p] = Leftover(p)]
        \/ state' = [state EXCEPT ![p] = "zombie"] /\ ends' = [ends EXCEPT ![p] = {}]
    BY <1>1 DEF Starts, Passes, Shows, Takes, Stops, Ends
  <2> QED BY <2>1, ProcFacts
<1>5. Born'
  BY <1>2, <1>3, <1>4 DEF Born, FlowInv, Order
<1>6. InOrder'
  <2> SUFFICES ASSUME NEW q \in Proc, Good(q[1])', Over(q)', q[2] > 1 PROVE Over(Before(q))'
    BY DEF InOrder, Before
  <2>1. Before(q) \in Proc /\ Over(Before(q))
    <3>1. CASE q = p
      <4>1. Stops(p)
        BY <1>1, <3>1 DEF Starts, Passes, Shows, Takes, Over
      <4> QED BY <3>1, <4>1, BeforeFacts DEF Stops
    <3>2. CASE q # p
      BY <1>2, <1>4, <3>2, BeforeFacts DEF FlowInv, Order, InOrder, Over
    <3> QED BY <3>1, <3>2
  <2> QED BY <1>3, <1>4, <2>1 DEF Over
<1>7. Streams'
  <2> SUFFICES ASSUME NEW q \in Proc, Good(q[1])', Alive(q)'
               PROVE  /\ q[2] > 1 => <<Before(q), "r">> \in ends'[q]
                      /\ nonterminal(q) => <<q, "w">> \in ends'[q]
    BY <1>1 DEF Streams, nonterminal, Before
  <2>1. CASE ends'[q] = ends[q] /\ Alive(q)
    BY <1>2, <2>1 DEF FlowInv, Order, Streams
  <2>2. CASE q = p /\ Starts(p)
    <3>1. ends'[p] = Leftover(p) /\ Alive(p)
      BY <2>2 DEF Starts, Alive
    <3>2. (ReadsPipe(p) <=> p[2] > 1) /\ (WritesPipe(p) <=> nonterminal(p))
      BY <1>1, GoodFacts
    <3>3. p[2] > 1 => <<Before(p), "r">> \in ends[p]
      BY <3>1 DEF FlowInv, Order, Streams
    <3>4. nonterminal(p) => <<p, "w">> \in ends[p]
      BY <3>1 DEF FlowInv, Order, Streams
    <3>5. p[2] > 1 => Before(p) # p
      BY BeforeFacts
    <3> QED BY <2>2, <3>1, <3>2, <3>3, <3>4, <3>5 DEF Leftover
  <2>3. q = p /\ ~ Starts(p) => ends'[q] = ends[q] /\ Alive(q)
    BY <1>1 DEF Passes, Shows, Takes, Stops, Ends, Alive
  <2>4. q # p => ends'[q] = ends[q] /\ Alive(q)
    BY <1>4 DEF Alive
  <2> QED BY <2>1, <2>2, <2>3, <2>4
<1> QED BY <1>5, <1>6, <1>7 DEF Order

\* Commands are told apart by the one before them, and by being the last.
LEMMA Distinct ==
  ASSUME TypeOK, NEW p \in Proc, NEW q \in Proc, Ran(p), Ran(q), q # p
  PROVE  /\ p[2] > 1 /\ q[2] > 1 => Before(p) # Before(q)
         /\ ~ nonterminal(p) /\ ~ nonterminal(q) => p[1] # q[1]
<1>1. /\ p = <<p[1], p[2]>> /\ p[2] \in Nat
      /\ q = <<q[1], q[2]>> /\ q[2] \in Nat
  BY ProcFacts
<1>2. p[1] # q[1] \/ p[2] # q[2]
  BY <1>1
<1>3. Length(p[1]) \in Nat /\ Length(q[1]) \in Nat
  <2>1. p[1] \in 1 .. Len(lines) /\ q[1] \in 1 .. Len(lines)
    BY DEF Ran, TypeOK
  <2> QED BY <2>1, LineFacts
<1>4. ASSUME ~ nonterminal(p), ~ nonterminal(q), p[1] = q[1] PROVE FALSE
  <2>1. p[2] <= Length(p[1]) /\ ~ (p[2] < Length(p[1]))
    BY <1>4 DEF Ran, nonterminal, Length
  <2>2. q[2] <= Length(p[1]) /\ ~ (q[2] < Length(p[1]))
    BY <1>4 DEF Ran, nonterminal, Length
  <2> QED BY <1>1, <1>2, <1>3, <1>4, <2>1, <2>2
<1>5. ASSUME p[2] > 1, q[2] > 1, Before(p) = Before(q) PROVE FALSE
  <2>1. p[1] = q[1] /\ p[2] - 1 = q[2] - 1
    BY <1>5 DEF Before
  <2> QED BY <1>1, <1>2, <2>1
<1> QED BY <1>4, <1>5

LEMMA OneMoved ==
  ASSUME NEW h \in Nat, NEW t \in Nat, NEW w \in Nat
  PROVE  h + t + w = h + (t - 1) + (w + 1)
OBVIOUS

\* An item moves on, and the account still balances.
LEMMA GoodFlow ==
  ASSUME Inv, FlowInv, NEW p \in Proc, Good(p[1]), process(p)
  PROVE  FlowInv'
<1> USE DEF Inv, TypeOK
<1>1. /\ Starts(p) \/ Passes(p) \/ Shows(p) \/ Takes(p) \/ Stops(p)
      /\ UNCHANGED <<lines, pc, pos, failed>> /\ Ran(p)
  BY GoodSteps
<1>2. PICK written \in [Proc -> Nat] : Fresh(written) /\ Flow(written)
  BY DEF FlowInv
<1>3. Balance(written, p)
  BY <1>1, <1>2 DEF Flow
<1>4. p[1] \in DOMAIN lines /\ p[1] \in 1 .. MaxLines
  BY <1>1, ProcFacts DEF Ran
<1>5. SUFFICES \E new \in [Proc -> Nat] : Fresh(new)' /\ Flow(new)'
  BY GoodOrder DEF FlowInv
<1>6. ASSUME NEW q \in Proc, Good(q[1])', Ran(q)'
      PROVE  Balance(written, q) /\ Ran(q) /\ written[q] \in Nat /\ todo[q] \in Nat /\ held[q] \in Nat
             /\ (q[2] > 1 => Before(q) \in Proc /\ Before(q) # q)
  BY <1>1, <1>2, <1>6, BeforeFacts DEF Flow, Ran, Length, Good, ForkFailed
<1>7. CASE Starts(p)
  <2>1. Fresh(written)'
    BY <1>1, <1>2, <1>4, <1>7 DEF Fresh, Starts
  <2>2. ASSUME NEW q \in Proc, Good(q[1])', Ran(q)' PROVE Balance(written, q)'
    <3>1. CASE q = p
      <4>1. written[p] = 0 /\ todo[p] = 0
        BY <1>3, <1>7 DEF Balance, Starts
      <4>2. state'[p] = "running" /\ todo'[p] = IF p[2] = 1 THEN Amount ELSE 0
        BY <1>7 DEF Starts
      <4> QED BY <1>1, <1>3, <1>7, <3>1, <4>1, <4>2, BoundsAssumption
              DEF Balance, Starts, nonterminal, Before, Over
    <3>2. CASE q # p
      <4>1. state'[q] = state[q] /\ todo'[q] = todo[q]
        BY <1>7, <3>2 DEF Starts
      <4> QED BY <1>1, <1>6, <1>7, <2>2, <4>1 DEF Balance, Starts, nonterminal, Before, Over
    <3> QED BY <3>1, <3>2
  <2> QED BY <1>2, <2>1, <2>2 DEF Flow
<1>8. CASE Takes(p)
  <2>1. Fresh(written)'
    BY <1>1, <1>2, <1>4, <1>8, BeforeFacts DEF Fresh, Takes
  <2>2. Before(p) \in Proc /\ held[Before(p)] \in Nat /\ held[Before(p)] > 0
        /\ written[p] \in Nat /\ written[Before(p)] \in Nat
    BY <1>2, <1>8, BeforeFacts DEF Takes
  <2>3. ASSUME NEW q \in Proc, Good(q[1])', Ran(q)' PROVE Balance(written, q)'
    <3>1. CASE q = p
      <4>1. written[Before(p)] = held[Before(p)] + 0 + written[p]
        BY <1>3, <1>8 DEF Balance, Takes
      <4>2. held'[Before(p)] = held[Before(p)] - 1 /\ todo'[p] = 1
        BY <1>8, <2>2 DEF Takes
      <4>3. written[Before(p)] = held'[Before(p)] + todo'[p] + written[p]
        BY <2>2, <4>1, <4>2
      <4> QED BY <1>1, <1>3, <1>8, <3>1, <4>3 DEF Balance, Takes, nonterminal, Before, Over
    <3>2. CASE q # p
      <4>1. todo'[q] = todo[q]
        BY <1>8, <3>2 DEF Takes
      <4>2. q[2] > 1 => held'[Before(q)] = held[Before(q)]
        BY <1>1, <1>6, <1>8, <2>2, <2>3, <3>2, Distinct DEF Takes
      <4>3. Balance(written, q) /\ UNCHANGED <<lines, state, shown>>
        BY <1>1, <1>6, <1>8, <2>3 DEF Takes
      <4> QED BY <4>1, <4>2, <4>3 DEF Balance, nonterminal, Before, Over
    <3> QED BY <3>1, <3>2
  <2> QED BY <1>2, <2>1, <2>3 DEF Flow
<1>9. CASE Stops(p)
  <2>1. Fresh(written)'
    BY <1>1, <1>2, <1>9 DEF Fresh, Stops
  <2>2. ASSUME NEW q \in Proc, Good(q[1])', Ran(q)' PROVE Balance(written, q)'
    <3>1. CASE q = p
      <4>1. todo[p] = 0 /\ written[p] = Amount
        <5>1. CASE p[2] > 1
          <6>1. Before(p) \in Proc /\ Good(Before(p)[1]) /\ Ran(Before(p)) /\ written[p] \in Nat
            BY <1>1, <1>2, <5>1, BeforeFacts, BeforeRan
          <6>2. written[Before(p)] = Amount /\ held[Before(p)] = 0 /\ todo[p] = 0
            BY <1>2, <1>9, <5>1, <6>1 DEF Flow, Balance, Stops
          <6>3. written[Before(p)] = held[Before(p)] + todo[p] + written[p]
            BY <1>3, <5>1 DEF Balance
          <6> QED BY <6>1, <6>2, <6>3, BoundsAssumption
        <5>2. CASE p[2] = 1
          BY <1>2, <1>3, <1>9, <5>2, BoundsAssumption DEF Balance, Stops
        <5>3. p[2] \in Nat /\ p[2] >= 1
          BY ProcFacts
        <5> QED BY <5>1, <5>2, <5>3
      <4>2. state'[p] = "zombie"
        BY <1>9 DEF Stops, Ends
      <4> QED BY <1>1, <1>3, <1>9, <3>1, <4>1, <4>2 DEF Balance, Stops, nonterminal, Before, Over
    <3>2. CASE q # p
      <4>1. state'[q] = state[q]
        BY <1>9, <3>2 DEF Stops, Ends
      <4> QED BY <1>1, <1>6, <1>9, <2>2, <4>1 DEF Balance, Stops, nonterminal, Before, Over
    <3> QED BY <3>1, <3>2
  <2> QED BY <1>2, <2>1, <2>2 DEF Flow
<1> DEFINE new == [written EXCEPT ![p] = @ + 1]
<1>10. /\ new \in [Proc -> Nat] /\ new[p] = written[p] + 1
       /\ \A q \in Proc : q # p => new[q] = written[q]
  BY <1>2
<1> HIDE DEF new
<1>11. CASE Passes(p)
  <2>1. Fresh(new)'
    BY <1>1, <1>2, <1>4, <1>10, <1>11 DEF Fresh, Passes
  <2>2. ASSUME NEW q \in Proc, Good(q[1])', Ran(q)' PROVE Balance(new, q)'
    <3>1. /\ held'[p] = held[p] + 1 /\ held[p] \in Nat /\ written[p] \in Nat
          /\ todo'[p] = todo[p] - 1 /\ todo[p] \in Nat /\ todo[p] > 0
          /\ \A r \in Proc : r # p => held'[r] = held[r] /\ todo'[r] = todo[r]
      BY <1>2, <1>11 DEF Passes
    <3>2. CASE q = p
      <4>1. p[2] > 1 => new[Before(p)] = held'[Before(p)] + todo'[p] + new[p]
        <5> SUFFICES ASSUME p[2] > 1 PROVE new[Before(p)] = held'[Before(p)] + todo'[p] + new[p]
          OBVIOUS
        <5>1. /\ new[Before(p)] = written[Before(p)] /\ held'[Before(p)] = held[Before(p)]
              /\ held[Before(p)] \in Nat
          BY <1>10, <3>1, BeforeFacts
        <5>2. written[Before(p)] = held[Before(p)] + todo[p] + written[p]
          BY <1>3 DEF Balance
        <5>3. written[Before(p)] = held[Before(p)] + (todo[p] - 1) + (written[p] + 1)
          BY <3>1, <5>1, <5>2, OneMoved
        <5> QED BY <1>10, <3>1, <5>1, <5>3
      <4>2. p[2] = 1 => new[p] + todo'[p] = Amount
        BY <1>3, <1>10, <1>11, <3>1, BoundsAssumption DEF Balance, Passes
      <4> QED BY <1>1, <1>11, <3>2, <4>1, <4>2 DEF Balance, Passes, nonterminal, Before, Over
    <3>3. CASE q # p
      <4>1. new[q] = written[q] /\ todo'[q] = todo[q] /\ written[q] \in Nat /\ todo[q] \in Nat
        BY <1>2, <1>10, <3>1, <3>3
      <4>2. q[2] > 1 => new[Before(q)] = held'[Before(q)] + todo'[q] + new[q]
        <5> SUFFICES ASSUME q[2] > 1 PROVE new[Before(q)] = held'[Before(q)] + todo'[q] + new[q]
          OBVIOUS
        <5>1. written[Before(q)] = held[Before(q)] + todo[q] + written[q] /\ Before(q) \in Proc
          BY <1>6, <2>2 DEF Balance
        <5>2. CASE Before(q) = p
          BY <1>10, <3>1, <4>1, <5>1, <5>2
        <5>3. CASE Before(q) # p
          BY <1>10, <3>1, <4>1, <5>1, <5>3
        <5> QED BY <5>2, <5>3
      <4>3. Balance(written, q)
        BY <1>6, <2>2
      <4> QED BY <1>1, <1>11, <4>1, <4>2, <4>3 DEF Balance, Passes, nonterminal, Before, Over
    <3> QED BY <3>2, <3>3
  <2> QED BY <1>10, <2>1, <2>2 DEF Flow
<1>12. CASE Shows(p)
  <2>1. Fresh(new)'
    <3> SUFFICES ASSUME NEW q \in Proc, q[1] \notin DOMAIN lines
                 PROVE  new[q] = 0 /\ held'[q] = 0 /\ todo'[q] = 0 /\ shown'[q[1]] = 0
      BY <1>1 DEF Fresh
    <3>1. q # p /\ q[1] # p[1] /\ q[1] \in 1 .. MaxLines
      BY <1>4, ProcFacts
    <3>2. todo'[q] = todo[q] /\ shown'[q[1]] = shown[q[1]] /\ held'[q] = held[q]
      BY <1>12, <3>1 DEF Shows
    <3> QED BY <1>2, <1>10, <3>1, <3>2 DEF Fresh
  <2>2. ASSUME NEW q \in Proc, Good(q[1])', Ran(q)' PROVE Balance(new, q)'
    <3>1. /\ written[p] \in Nat /\ todo'[p] = todo[p] - 1 /\ todo[p] \in Nat /\ todo[p] > 0
          /\ \A r \in Proc : r # p => todo'[r] = todo[r]
      BY <1>2, <1>12 DEF Shows
    <3>2. CASE q = p
      <4>1. p[2] > 1 => new[Before(p)] = held[Before(p)] + todo'[p] + new[p]
        <5> SUFFICES ASSUME p[2] > 1 PROVE new[Before(p)] = held[Before(p)] + todo'[p] + new[p]
          OBVIOUS
        <5>1. new[Before(p)] = written[Before(p)] /\ held[Before(p)] \in Nat
          BY <1>10, BeforeFacts
        <5>2. written[Before(p)] = held[Before(p)] + todo[p] + written[p]
          BY <1>3 DEF Balance
        <5>3. written[Before(p)] = held[Before(p)] + (todo[p] - 1) + (written[p] + 1)
          BY <3>1, <5>1, <5>2, OneMoved
        <5> QED BY <1>10, <3>1, <5>1, <5>3
      <4>2. p[2] = 1 => new[p] + todo'[p] = Amount
        BY <1>3, <1>10, <1>12, <3>1, BoundsAssumption DEF Balance, Shows
      <4>3. shown'[p[1]] = new[p]
        BY <1>3, <1>4, <1>10, <1>12 DEF Balance, Shows
      <4> QED BY <1>1, <1>12, <3>2, <4>1, <4>2, <4>3 DEF Balance, Shows, nonterminal, Before, Over
    <3>3. CASE q # p
      <4>1. new[q] = written[q] /\ todo'[q] = todo[q]
        BY <1>2, <1>10, <3>1, <3>3
      <4>2. Balance(written, q) /\ Ran(q)
        BY <1>6, <2>2
      <4>3. q[2] > 1 => new[Before(q)] = written[Before(q)]
        <5> SUFFICES ASSUME q[2] > 1 PROVE Before(q) # p /\ Before(q) \in Proc
          BY <1>10
        <5>1. nonterminal(Before(q))
          BY <4>2, BeforeRan
        <5> QED BY <1>12, <5>1, BeforeFacts DEF Shows
      <4>4. ~ nonterminal(q) => shown'[q[1]] = shown[q[1]]
        BY <1>1, <1>4, <1>12, <3>3, <4>2, Distinct, ProcFacts DEF Shows
      <4> QED BY <1>1, <1>12, <4>1, <4>2, <4>3, <4>4 DEF Balance, Shows, nonterminal, Before, Over
    <3> QED BY <3>2, <3>3
  <2> QED BY <1>10, <2>1, <2>2 DEF Flow
<1> QED BY <1>1, <1>7, <1>8, <1>9, <1>11, <1>12

LEMMA ProcessFlow == ASSUME Inv, FlowInv, NEW p \in Proc, process(p) PROVE FlowInv'
<1> USE DEF Inv, TypeOK
<1>1. UNCHANGED <<lines, pc, pos, target, failed>>
  BY DEF process, Exec, Write, Read, Exit
<1>2. Ran(p) /\ p[1] \in 1 .. MaxLines
  BY ProcFacts DEF process, Exec, Write, Read, Exit, Unborn, Reached
<1>3. CASE ~ Good(p[1])
  <2>1. \A q \in Proc : Good(q[1])' \/ q[1] \notin DOMAIN lines => q[1] # p[1]
    BY <1>1, <1>2, <1>3 DEF Good, ForkFailed, Ran
  <2>2. ReadsPipe(p) => Before(p)[1] = p[1]
    BY BeforeFacts DEF ReadsPipe
  <2>3. ASSUME NEW q \in Proc, q[1] # p[1]
        PROVE  /\ state'[q] = state[q] /\ ends'[q] = ends[q] /\ held'[q] = held[q]
               /\ todo'[q] = todo[q] /\ shown'[q[1]] = shown[q[1]]
    <3>1. q # p /\ q # Sh /\ q[1] \in 1 .. MaxLines /\ (ReadsPipe(p) => q # Before(p))
      BY <2>2, <2>3, ProcFacts
    <3>2. state'[q] = state[q] /\ ends'[q] = ends[q]
      BY <3>1 DEF process, Exec, Write, Read, Exit, Ends
    <3>3. held'[q] = held[q]
      BY <3>1 DEF process, Exec, Write, Read, Exit
    <3>4. todo'[q] = todo[q]
      BY <3>1 DEF process, Exec, Write, Read, Exit
    <3>5. shown'[q[1]] = shown[q[1]]
      BY <2>3, <3>1 DEF process, Exec, Write, Read, Exit
    <3> QED BY <3>2, <3>3, <3>4, <3>5
  <2>4. \A q \in Proc : Reached(q)' => Reached(q)
    BY <1>1 DEF Reached, Ran, Length
  <2> QED BY <1>1, <2>1, <2>3, <2>4, FlowFrame
<1> QED BY <1>3, GoodFlow

LEMMA NextFlow == Inv /\ FlowInv /\ [Next]_vars => FlowInv'
<1> SUFFICES ASSUME Inv, FlowInv, [Next]_vars PROVE FlowInv'
  OBVIOUS
<1>1. CASE UNCHANGED vars
  BY <1>1, QuietFlow DEF vars
<1> QED BY <1>1, ReadLineFlow, SpawnFlow, PipeFailsFlow, ReturnFlow, BuiltinFlow, ProcessFlow
        DEF Next, run_pipeline

\* When the prompt is back, every item of a foreground pipeline of filters whose
\* processes could all be made is on the terminal: no process writes to a pipe that
\* has no reader any more, none takes an empty pipe for its end, and the shell has
\* waited for the last command (execute.c:25-47, 109).
THEOREM EverythingDelivered == Spec => []Delivered
<1>1. ASSUME Inv, FlowInv PROVE Delivered
  <2> SUFFICES ASSUME pc = "prompt", NEW k \in DOMAIN lines, PlainFilters(lines[k]),
                      ~ lines[k].background, ~ ForkFailed(k)
               PROVE  shown[k] = Amount
    BY DEF Delivered
  <2> DEFINE p == <<k, Length(k)>>
  <2>1. k \in 1 .. Len(lines) /\ k \in 1 .. MaxLines /\ Length(k) \in 1 .. MaxLength
    BY <1>1, LineFacts, BoundsAssumption DEF Inv, TypeOK
  <2>2. p \in Proc /\ p[1] = k /\ p[2] = Length(k) /\ Length(k) \in Nat
    BY <2>1 DEF Proc
  <2> HIDE DEF p
  <2>3. Good(p[1]) /\ Ran(p) /\ ~ nonterminal(p) /\ Reached(p)
    BY <2>2 DEF Good, Ran, nonterminal, Reached, Length
  <2>4. Over(p)
    <3>1. state[p] # "none"
      BY <1>1, <2>2, <2>3 DEF FlowInv, Order, Born
    <3>2. ~ Excused(p) /\ ~ Current(p)
      BY <2>2 DEF Excused, Current, AtWork
    <3> QED BY <1>1, <2>2, <3>1, <3>2 DEF Inv, Settled, Gone, Over
  <2>5. PICK written \in [Proc -> Nat] : Flow(written)
    BY <1>1 DEF FlowInv
  <2> QED BY <2>2, <2>3, <2>4, <2>5 DEF Flow, Balance
<1>2. Init => Inv /\ FlowInv
  BY InitInv, InitFlow
<1>3. Inv /\ FlowInv /\ [Next]_vars => (Inv /\ FlowInv)'
  BY NextInv, NextFlow
<1> QED BY <1>1, <1>2, <1>3, PTL DEF Spec
=============================================================================
