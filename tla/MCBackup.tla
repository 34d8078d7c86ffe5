------------------------------ MODULE MCBackup ------------------------------
(* A small instance of Backup: a table of messages, its full-text index with a *)
(* shadow table, and the trigger that keeps the index up to date.             *)
EXTENDS Backup

object(type, name, on, shadow) == [type |-> type, name |-> name, on |-> on, shadow |-> shadow]

\* Names as numbers, in the order of the names: 1 social_messages, 2 social_messages_fts,
\* 3 social_messages_fts_data, 4 social_messages_fts_ai (trigger on 1).
MCObjects == { object("table", 1, 0, FALSE), object("table", 2, 0, FALSE),
               object("table", 3, 2, TRUE), object("trigger", 4, 1, FALSE) }
=============================================================================
