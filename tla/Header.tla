------------------------------- MODULE Header -------------------------------
(***************************************************************************)
(* internal/header: what a header name or value may look like.  Names and  *)
(* values are classes of strings: only what the checks tell apart is kept. *)
(***************************************************************************)

\* "reserved" names are well formed and belong to a standard mail header.
Names  == {"empty", "padded", "badChar", "token", "reserved"}
\* "control" stands for control characters other than CR and LF.
Values == {"plain", "newline", "control"}

Headers == [name : Names, value : Values]

ValidFieldName(name)   == name \notin {"empty", "padded", "badChar"}
ContainsNewline(value) == value = "newline"
=============================================================================
