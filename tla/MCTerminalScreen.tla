-------------------------- MODULE MCTerminalScreen --------------------------
\* Instances of TerminalScreen: all screens show the same tmux session, or each
\* its own.
EXTENDS TerminalScreen

SameSession == [s \in Screens |-> "main"]
OwnSession == [s \in Screens |-> s]


\* The properties say nothing of a stray screen, and it stays one.
NotStray == stray = {}

=============================================================================
