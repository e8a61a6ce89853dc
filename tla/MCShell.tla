------------------------------- MODULE MCShell -------------------------------
(* Finite instances of Shell. *)
EXTENDS Shell

Cmd(program, input, output) == [program |-> program, input |-> input, output |-> output]
source == Cmd("source", "none", "none")
filter == Cmd("filter", "none", "none")
head == Cmd("head", "none", "none")

Line(commands, background) == [commands |-> commands, background |-> background]

SomeLines ==
  { Line(<<source, filter, filter>>, FALSE),
    Line(<<source, head, filter, filter>>, FALSE),                   \* a reader leaves early
    Line(<<source, Cmd("filter", "file", "none"), head>>, FALSE),    \* nobody reads the first pipe
    Line(<<source, Cmd("filter", "missing", "none")>>, FALSE),
    Line(<<source, Cmd("missing", "none", "none"), filter>>, TRUE),
    Line(<<source, Cmd("filter", "none", "file")>>, TRUE),
    Line(<<source>>, TRUE),
    Line(<<Cmd("source", "none", "file"), filter>>, FALSE) }         \* ambiguous
=============================================================================
