------------------------------- MODULE MCSockets -------------------------------
(* Sockets for TLC.                                                             *)
EXTENDS Sockets

\* There is a connection to come, or one whose presence is still to be cleared.  Once
\* there is none the rest is of no interest: a socket is used once, and nothing but a
\* raced handler writes the presence of one that has gone.
Unfinished == \E k \in Sockets \ raced : off[k] # "done"
=============================================================================
