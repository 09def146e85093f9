------------------------------- MODULE LogFile -------------------------------
(***************************************************************************)
(* The file of an event log: the calls whose lines were written to it, and *)
(* how it ends.  Appending a line is no atomic step of the filesystem.     *)
(***************************************************************************)

\* The file ends "whole"; "open" when its last line lacks only the newline; or
\* "torn" when it has a line that cannot be parsed, and so cannot be read.
End == {"whole", "open", "torn"}

NoLines == [lines |-> {}, end |-> "whole"]

\* A line added to a file that does not end whole runs into the one before.
Extended(log, i) ==
  [lines |-> log.lines \cup {i}, end |-> IF log.end = "whole" THEN "whole" ELSE "torn"]

\* What is left of an append that stops: inside its line, before the newline,
\* or when it was all written.
Stopped(log, i) ==
  {[log EXCEPT !.end = "torn"],
   [lines |-> log.lines \cup {i}, end |-> IF log.end = "whole" THEN "open" ELSE "torn"],
   Extended(log, i)}
=============================================================================
