---------------------------- MODULE ExternalSort -----------------------------
(***************************************************************************)
(* task0-sort/sort.cpp: blocks of lines are sorted and written to files by *)
(* a second thread while the main thread reads on, the last block is       *)
(* sorted by the main thread itself, and the blocks are merged.  A line is *)
(* a number, and the numbers are in the order of the comparison `lexi`.    *)
(*                                                                         *)
(* tmpnam(nullptr) returns a buffer that all threads share: the name a     *)
(* thread opens is what the buffer holds when it copies it.                *)
(***************************************************************************)
EXTENDS Naturals, Sequences, FiniteSets, TLC, SequencesExt

CONSTANTS Inputs,     \* the inputs, sequences of lines
          Size(_),    \* the length of a line
          BLOCK_SIZE,
          MaxFiles    \* files the process may have open

ASSUME SizeAssumption == BLOCK_SIZE \in Nat \ {0} /\ MaxFiles \in Nat

Thread == {"main", "sorter"}

VARIABLES input,     \* the whole input
          rest,      \* what has not been read yet
          fillingLines, fillingBlockSize,
          pc,        \* where each thread is
          lines,     \* thread -> the lines sortedBlock works on
          buffer,    \* the name in the buffer of tmpnam, names are numbers
          names,     \* the number of names handed out
          path,      \* thread -> the name it copied, 0 if there is no file
          disk,      \* name -> the lines in the file
          future,    \* the block the sorter has ready, <<>> if none
          blocks,    \* the blocks collected
          out,       \* what has been printed
          unopened   \* whether a file could not be opened

vars == <<input, rest, fillingLines, fillingBlockSize, pc, lines, buffer, names, path,
          disk, future, blocks, out, unopened>>

Init == /\ input \in Inputs
        /\ rest = input
        /\ fillingLines = <<>> /\ fillingBlockSize = 0
        /\ pc = [main |-> "read", sorter |-> "idle"]
        /\ lines = [t \in Thread |-> <<>>]
        /\ buffer = 0 /\ names = 0
        /\ path = [t \in Thread |-> 0]
        /\ disk = <<>>
        /\ future = <<>>
        /\ blocks = <<>>
        /\ out = <<>>
        /\ unopened = FALSE

-----------------------------------------------------------------------------
(* sortedBlock, in either thread *)

lexi(a, b) == a < b
Goto(t, label) == pc' = [pc EXCEPT ![t] = label]
reading == <<input, rest, fillingLines, fillingBlockSize>>

\* std::sort, and tmpnam fills the shared buffer with a new name.
Tmpnam(t) ==
  /\ pc[t] = "sort"
  /\ lines' = [lines EXCEPT ![t] = SortSeq(@, lexi)]
  /\ names' = names + 1
  /\ buffer' = names + 1
  /\ Goto(t, "name")
  /\ UNCHANGED <<reading, path, disk, future, blocks, out, unopened>>

\* The name is copied out of the buffer.
CopyName(t) ==
  /\ pc[t] = "name"
  /\ path' = [path EXCEPT ![t] = buffer]
  /\ Goto(t, "open")
  /\ UNCHANGED <<reading, lines, buffer, names, disk, future, blocks, out, unopened>>

OpenFiles == Len(blocks) + (IF future = <<>> THEN 0 ELSE 1)
               + Cardinality({t \in Thread : pc[t] = "write"})

\* The file is made empty.  If it cannot be opened the stream is in a failed state,
\* and nobody looks.
OpenFile(t) ==
  /\ pc[t] = "open"
  /\ IF OpenFiles < MaxFiles
       THEN /\ disk' = (path[t] :> <<>>) @@ disk
            /\ UNCHANGED <<path, unopened>>
       ELSE /\ path' = [path EXCEPT ![t] = 0]
            /\ unopened' = TRUE
            /\ UNCHANGED disk
  /\ Goto(t, "write")
  /\ UNCHANGED <<reading, lines, buffer, names, future, blocks, out>>

\* Every line but the first is written over what is in the file; the first stays in
\* the block.  The main thread's block joins the list, the sorter's the future.
WriteFile(t) ==
  /\ pc[t] = "write"
  /\ IF path[t] = 0 THEN UNCHANGED disk
     ELSE LET old == disk[path[t]]
              new == Tail(lines[t])
          IN  disk' = [disk EXCEPT ![path[t]] =
                         new \o SubSeq(old, Len(new) + 1, Len(old))]
  /\ LET block == [line |-> Head(lines[t]), file |-> path[t], next |-> 1] IN
     IF t = "main"
       THEN /\ blocks' = Append(blocks, block)
            /\ pc' = [pc EXCEPT !.main = "join"]
            /\ UNCHANGED future
       ELSE /\ future' = <<block>>
            /\ pc' = [pc EXCEPT !.sorter = "idle"]
            /\ UNCHANGED blocks
  /\ lines' = [lines EXCEPT ![t] = <<>>]
  /\ UNCHANGED <<reading, buffer, names, path, out, unopened>>

sortedBlock(t) == Tmpnam(t) \/ CopyName(t) \/ OpenFile(t) \/ WriteFile(t)

-----------------------------------------------------------------------------
(* sortedBlocks and mergeBlocks, in the main thread *)

ReadLine ==
  /\ pc.main = "read" /\ rest # <<>>
  /\ fillingLines' = Append(fillingLines, Head(rest))
  /\ fillingBlockSize' = fillingBlockSize + Size(Head(rest))
  /\ rest' = Tail(rest)
  /\ IF fillingBlockSize' >= BLOCK_SIZE THEN Goto("main", "launch") ELSE UNCHANGED pc
  /\ UNCHANGED <<input, lines, buffer, names, path, disk, future, blocks, out, unopened>>

\* Seeded fault: the block of the sorter before is not collected.
Launch_Forgets ==
  /\ pc.main = "launch" /\ pc.sorter = "idle"
  /\ future' = <<>>
  /\ lines' = [lines EXCEPT !.sorter = fillingLines]
  /\ pc' = [main |-> "read", sorter |-> "sort"]
  /\ fillingLines' = <<>> /\ fillingBlockSize' = 0
  /\ UNCHANGED <<input, rest, buffer, names, path, disk, blocks, out, unopened>>

\* Seeded fault: the lines are copied to the sorter, and the vector is not renewed.
Launch_Copies ==
  /\ pc.main = "launch" /\ pc.sorter = "idle"
  /\ blocks' = blocks \o future
  /\ future' = <<>>
  /\ lines' = [lines EXCEPT !.sorter = fillingLines]
  /\ pc' = [main |-> "read", sorter |-> "sort"]
  /\ fillingBlockSize' = 0
  /\ UNCHANGED <<input, rest, fillingLines, buffer, names, path, disk, out, unopened>>

\* A full block: wait for the sorter, collect its block, and start it again.
Launch ==
  /\ pc.main = "launch" /\ pc.sorter = "idle"
  /\ blocks' = blocks \o future
  /\ future' = <<>>
  /\ lines' = [lines EXCEPT !.sorter = fillingLines]
  /\ pc' = [main |-> "read", sorter |-> "sort"]
  /\ fillingLines' = <<>> /\ fillingBlockSize' = 0
  /\ UNCHANGED <<input, rest, buffer, names, path, disk, out, unopened>>

\* The end of the input: the main thread sorts what is left, while the sorter may
\* be at work.
EndOfInput ==
  /\ pc.main = "read" /\ rest = <<>>
  /\ IF fillingLines # <<>>
       THEN lines' = [lines EXCEPT !.main = fillingLines] /\ Goto("main", "sort")
       ELSE Goto("main", "join") /\ UNCHANGED lines
  /\ fillingLines' = <<>> /\ fillingBlockSize' = 0
  /\ UNCHANGED <<input, rest, buffer, names, path, disk, future, blocks, out, unopened>>

\* The last block of the sorter
Join ==
  /\ pc.main = "join" /\ pc.sorter = "idle"
  /\ blocks' = blocks \o future
  /\ future' = <<>>
  /\ Goto("main", "merge")
  /\ UNCHANGED <<reading, lines, buffer, names, path, disk, out, unopened>>

\* What a stream still has to give
Remaining(b) == IF b.file = 0 THEN <<>>
                ELSE SubSeq(disk[b.file], b.next, Len(disk[b.file]))

\* The first of the blocks with the smallest line
Smallest == CHOOSE i \in DOMAIN blocks :
  /\ \A j \in DOMAIN blocks : ~ lexi(blocks[j].line, blocks[i].line)
  /\ \A j \in 1 .. i - 1 : lexi(blocks[i].line, blocks[j].line)

\* One line is printed and the next one of its block read; a block whose stream
\* has ended is erased.
Merge ==
  /\ pc.main = "merge" /\ blocks # <<>>
  /\ LET i == Smallest
         b == blocks[i]
     IN  /\ out' = Append(out, b.line)
         /\ blocks' = IF Remaining(b) = <<>> THEN RemoveAt(blocks, i)
                      ELSE [blocks EXCEPT ![i].line = Head(Remaining(b)), ![i].next = @ + 1]
  /\ UNCHANGED <<reading, pc, lines, buffer, names, path, disk, future, unopened>>

Exit == /\ pc.main = "merge" /\ blocks = <<>>
        /\ Goto("main", "done")
        /\ UNCHANGED <<reading, lines, buffer, names, path, disk, future, blocks, out, unopened>>

main == ReadLine \/ Launch \/ EndOfInput \/ Join \/ Merge \/ Exit

Next == main \/ \E t \in Thread : sortedBlock(t)

Fairness == WF_vars(main) /\ \A t \in Thread : WF_vars(sortedBlock(t))

Spec == Init /\ [][Next]_vars /\ Fairness

-----------------------------------------------------------------------------
(* Properties *)

\* Both threads opened the same file.
Shared == path.main = path.sorter /\ path.main # 0

\* The program ends and has printed the lines of its input in order, whatever the
\* two threads do in between, unless they copied the same name out of the shared
\* buffer of tmpnam (sort.cpp:90, 137) or a file could not be opened
\* (sort.cpp:91): nothing else loses, doubles or misplaces a line.
Sorts == <>(/\ pc.main = "done"
            /\ Shared \/ unopened \/ out = SortSeq(input, lexi))

TotalSize(s) == FoldLeft(LAMBDA n, line : n + Size(line), 0, s)
LongestLine == CHOOSE n \in {Size(line) : line \in Range(input)} :
                 \A line \in Range(input) : Size(line) <= n

\* The lines that are in memory: those being read, those being sorted, and the
\* one line every finished block keeps beside its file (sort.cpp:61-64, 100).
InMemory == fillingLines \o lines.main \o lines.sorter
              \o [i \in DOMAIN (future \o blocks) |-> (future \o blocks)[i].line]

\* The lines in memory are never more than two blocks, each longer than BLOCK_SIZE
\* by less than one line, and one line for every finished block: the reader waits
\* for the sorter (sort.cpp:120-128).  The finished blocks are no more than the
\* input fills, and one for its end.
MemoryBounded == input # <<>> =>
  LET finished == Len(future) + Len(blocks) IN
  /\ TotalSize(InMemory) < 2 * (BLOCK_SIZE + LongestLine) + finished * LongestLine
  /\ finished * BLOCK_SIZE <= TotalSize(input) + BLOCK_SIZE
=============================================================================
