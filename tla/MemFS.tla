-------------------------------- MODULE MemFS --------------------------------
(***************************************************************************)
(* task2-fileio/memfs.cpp: the file system calls on the set of directories *)
(* and the map of files, both with whole paths as keys.  A path is the     *)
(* sequence of its characters, because readdir finds the members of a      *)
(* directory by comparing characters.  FUSE is started with -s: the calls  *)
(* come one after the other.  The calls that change nothing are operators. *)
(***************************************************************************)
EXTENDS Integers, Sequences, FiniteSets, SequencesExt, FiniteSetsExt

CONSTANTS Char,       \* the characters of paths
          Path,       \* the paths the user may ask for
          Data,       \* what the user writes, sequences of bytes
          MaxSize,    \* bound: bytes of a file
          MaxWrites,  \* bound: writes to one file
          Slash       \* the character

Byte == 0 .. 255

\* The kernel hands over paths that begin with a slash, have none at the end and
\* no two in a row.
ASSUME PathAssumption ==
  /\ Slash \in Char
  /\ \A p \in Path : /\ p \in Seq(Char) /\ Len(p) > 1
                     /\ p[1] = Slash /\ p[Len(p)] # Slash
                     /\ \A i \in 1 .. Len(p) - 1 : p[i] = Slash => p[i + 1] # Slash
ASSUME DataAssumption ==
  /\ MaxSize \in Nat /\ MaxWrites \in Nat
  /\ \A d \in Data : d \in Seq(Byte) /\ 0 < Len(d) /\ Len(d) <= MaxSize

Root == <<Slash>>
ENOENT == "ENOENT"

VARIABLES directories,  \* the set of paths
          files,        \* path -> contents
          history       \* path -> the writes so far, for the properties only

vars == <<directories, files, history>>

Init == /\ directories = {Root}
        /\ files = <<>>
        /\ history = <<>>

-----------------------------------------------------------------------------
(* The calls that only look *)

\* getattr: the type of a path; files come first.
getattr(p) == CASE p \in DOMAIN files -> "file"
                [] p \notin DOMAIN files /\ p \in directories -> "directory"
                [] OTHER -> ENOENT

\* Seeded fault: the search for a further slash starts one character early.
Member_Early(q, p) == /\ p # Root /\ Len(p) > Len(q) /\ IsPrefix(q, p)
                      /\ \A i \in Len(q) + 1 .. Len(p) : p[i] # Slash

\* What readdir takes for a member of the directory q: the query is a proper
\* prefix, and no slash comes after the next character.
Member(q, p) == /\ p # Root /\ Len(p) > Len(q) /\ IsPrefix(q, p)
                /\ \A i \in Len(q) + 2 .. Len(p) : p[i] # Slash

\* readdir, apart from "." and "..": the slash at the end of the query is removed,
\* and what follows the next character is the name.
readdir(p) ==
  LET q == IF Last(p) = Slash THEN Front(p) ELSE p
  IN  IF p \notin directories THEN {}
      ELSE {SubSeq(e, Len(q) + 2, Len(e)) :
              e \in {e \in directories \cup DOMAIN files : Member(q, e)}}

\* read: nothing behind the end, and no more than there is.
read(p, size, offset) ==
  IF p \notin DOMAIN files THEN ENOENT
  ELSE SubSeq(files[p], offset + 1, Min({offset + size, Len(files[p])}))

-----------------------------------------------------------------------------
(* What the kernel does before it calls mkdir and create (external) *)

\* The place of the last slash
LastSlash(p) == Max({i \in DOMAIN p : p[i] = Slash})
Parent(p) == IF LastSlash(p) = 1 THEN Root ELSE SubSeq(p, 1, LastSlash(p) - 1)

\* The kernel looks up the components of a path: a new name is made in a
\* directory, and only if it is not there yet.
MayMake(p) == getattr(Parent(p)) = "directory" /\ getattr(p) = ENOENT

-----------------------------------------------------------------------------
(* The calls that change the file system; open and utimens change nothing *)

\* Seeded fault: the vector is assigned anew instead of resized.
Resized_Renewed(contents, size) == [i \in 1 .. size |-> 0]

\* vector::resize: bytes are cut off or zero bytes are added.
Resized(contents, size) ==
  [i \in 1 .. size |-> IF i <= Len(contents) THEN contents[i] ELSE 0]

\* memcpy
Overlay(contents, data, offset) ==
  [i \in DOMAIN contents |-> IF i > offset /\ i <= offset + Len(data)
                               THEN data[i - offset] ELSE contents[i]]

write(p, data, offset) ==
  /\ p \in DOMAIN files
  /\ offset + Len(data) <= MaxSize /\ Len(history[p]) < MaxWrites
  /\ files' = [files EXCEPT ![p] = Overlay(Resized(@, offset + Len(data)), data, offset)]
  /\ history' = [history EXCEPT ![p] = Append(@, [data |-> data, offset |-> offset])]
  /\ UNCHANGED directories

\* files[path] = File(): a path gets an empty entry of the map.
Entered(map, p) == [q \in DOMAIN map \cup {p} |-> IF q = p THEN <<>> ELSE map[q]]

\* create: an empty file
create(p) == /\ MayMake(p)
             /\ files' = Entered(files, p)
             /\ history' = Entered(history, p)
             /\ UNCHANGED directories

mkdir(p) == /\ MayMake(p)
            /\ directories' = directories \cup {p}
            /\ UNCHANGED <<files, history>>

Next == \E p \in Path : \/ create(p) \/ mkdir(p)
                        \/ \E data \in Data, offset \in 0 .. MaxSize : write(p, data, offset)

Spec == Init /\ [][Next]_vars

-----------------------------------------------------------------------------
(* Properties *)

Name(p) == SubSeq(p, LastSlash(p) + 1, Len(p))
All == (directories \cup DOMAIN files) \ {Root}

\* A directory lists every file and directory in it under its name, and nothing
\* else as long as no neighbour's name continues its own: readdir finds its
\* members by comparing characters (memfs.cpp:70-79) and does not look whether the
\* prefix ends at a slash, so what it adds beside such a neighbour is left open.
ListsMembers == \A d \in directories :
  LET members == {p \in All : Parent(p) = d}
      longer == {p \in All : d # Root /\ Parent(p) = Parent(d) /\ p # d /\ IsPrefix(d, p)}
  IN  /\ {Name(p) : p \in members} \subseteq readdir(d)
      /\ longer = {} => readdir(d) = {Name(p) : p \in members}

\* Where a write ended
EndAt(w) == w.offset + Len(w.data)

\* The writes that put a byte at place i, and the byte the last of them left there
Setting(writes, i) == {k \in DOMAIN writes : writes[k].offset < i /\ i <= EndAt(writes[k])}
LastByte(writes, i) ==
  IF Setting(writes, i) = {} THEN 0
  ELSE LET w == writes[Max(Setting(writes, i))] IN w.data[i - w.offset]

\* Since then another write ended before i.
CutSince(writes, i) == \E k \in DOMAIN writes :
  EndAt(writes[k]) < i /\ \A s \in Setting(writes, i) : s < k

\* A read returns at every place the byte that was last written there, and a zero
\* byte where none was; only behind a later write that ended before the place may
\* it be a zero byte instead (memfs.cpp:135 cuts the file off there).  The last
\* write can be read back whole, and nothing behind the end of all writes
\* (memfs.cpp:116-124).
ReadsBack == \A p \in DOMAIN files, size \in 1 .. MaxSize, offset \in 0 .. MaxSize :
  LET bytes == read(p, size, offset)
      writes == history[p]
  IN  /\ \A j \in 1 .. Len(bytes) :
           \/ bytes[j] = LastByte(writes, offset + j)
           \/ bytes[j] = 0 /\ CutSince(writes, offset + j)
      /\ writes # <<>> => Len(bytes) >= Min({size, EndAt(Last(writes)) - offset})
      /\ Len(bytes) > 0 => \E k \in DOMAIN writes : offset + Len(bytes) <= EndAt(writes[k])
=============================================================================
