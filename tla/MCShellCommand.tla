--------------------------- MODULE MCShellCommand ---------------------------
(* ShellCommand with two descendants of the child. *)
EXTENDS ShellCommand
=============================================================================
