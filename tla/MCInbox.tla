------------------------------ MODULE MCInbox -------------------------------
(* A small instance of Inbox for TLC.                                      *)
EXTENDS Inbox

\* A DM thread of X, one of Instagram and the comments of a LinkedIn post.
MCPlatformOf == [x |-> "twitter", ig |-> "instagram", li |-> "linkedin"]
MCInThread == [m1 |-> "x", m2 |-> "x", m3 |-> "ig", m4 |-> "li"]
MCDrafts == {[kind |-> "none", length |-> 300, media |-> 0], [kind |-> "comment", length |-> 400, media |-> 0],
             [kind |-> "dm", length |-> 20000, media |-> 0]}
=============================================================================
