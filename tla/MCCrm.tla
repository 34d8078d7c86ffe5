------------------------------- MODULE MCCrm --------------------------------
(* Small instances of Crm for TLC.                                         *)
EXTENDS Crm

CONSTANTS ann

\* The first account writes its address with capitals in a message; the
\* profiles of the others may carry the same address.
MCAuthor == <<1, 2, 1>>
MCMailIn == <<Mail(ann, TRUE), NoMail, NoMail>>
MCWordsIn == <<Text(0, 1), Text(0, 2), Text(0, 0)>>
MCWindow == {2, 3}
MCProfiles == {[bio |-> Mail(ann, FALSE), followers |-> 1]}
=============================================================================
