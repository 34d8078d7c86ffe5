------------------------------ MODULE Sessions ------------------------------
(***************************************************************************)
(* Transcript sessions: a ledger and a sidecar file for each, written by    *)
(* queued operations, one file operation at a time, read outside the queue, *)
(* and restored or created when a socket connects                           *)
(* (src/sessions/transcript-manager.ts, src/server/socket.ts).              *)
(***************************************************************************)
EXTENDS Integers, Sequences, SequencesExt

CONSTANTS SessionIds,         \* session ids
          MaxQueue,    \* operations asked for and not finished
          MaxEntries,  \* entries ever appended
          MaxSessionCrashes

ASSUME SessionsAssumption == {MaxQueue, MaxEntries, MaxSessionCrashes} \subseteq Nat

VARIABLES ledger,    \* <id>.jsonl: its entries, or Absent
          meta,      \* <id>.meta.json: its messageCount, NoMeta, or Torn
          queue,     \* operations; the first has done `done` of its steps
          done,
          counted,   \* the messageCount the first one read when it began
          kept,      \* entries whose append was acknowledged and that nobody deleted
          appended, sessionCrashes

sessionsVars == <<ledger, meta, queue, done, counted, kept, appended, sessionCrashes>>

Absent == <<0>>    \* no file; entries are numbered from 1
NoMeta == -1
Torn   == -2    \* opened for writing, which empties it
Count(i) == meta[i] \notin {NoMeta, Torn}

SessionsInit == /\ ledger = [i \in SessionIds |-> Absent] /\ meta = [i \in SessionIds |-> NoMeta]
                /\ queue = <<>> /\ done = 0 /\ counted = 0 /\ kept = {} /\ appended = 0 /\ sessionCrashes = 0

enqueue(kind, i, j, e) == /\ Len(queue) < MaxQueue
                          /\ queue' = Append(queue, [kind |-> kind, id |-> i, to |-> j, entry |-> e, count |-> meta[i]])

call == \E i \in SessionIds :
    /\ \/ enqueue("create", i, i, 0) /\ UNCHANGED appended
       \/ enqueue("delete", i, i, 0) /\ UNCHANGED appended
       \/ \E j \in SessionIds : enqueue("renameId", i, j, 0) /\ UNCHANGED appended
       \/ enqueue("append", i, i, appended + 1) /\ appended < MaxEntries /\ appended' = appended + 1
    /\ UNCHANGED <<ledger, meta, done, counted, kept, sessionCrashes>>

\* A socket connects: load reads the two files outside the queue, and any
\* failure of it asks for a new session.
loads(i) == Count(i) /\ ledger[i] # Absent
restoreSession == \E i \in SessionIds :
    /\ ~loads(i)
    /\ enqueue("create", i, i, 0)
    /\ UNCHANGED <<ledger, meta, done, counted, kept, appended, sessionCrashes>>

-----------------------------------------------------------------------------
(* The first operation of the queue.                                        *)

op == queue[1]
Set(f, i, v) == [f EXCEPT ![i] = v]

\* What it finds first and throws at.
refused == CASE op.kind = "create"   -> meta[op.id] # NoMeta
             [] op.kind = "append"   -> ~Count(op.id)
             [] op.kind = "renameId" -> ~Count(op.id) \/ meta[op.to] # NoMeta \/ ledger[op.id] = Absent
             [] op.kind = "delete"   -> FALSE
rejects == /\ queue # <<>> /\ done = 0 /\ refused /\ queue' = Tail(queue)
           /\ UNCHANGED <<ledger, meta, done, counted, kept, appended, sessionCrashes>>

\* Operations read the sidecar in their turn.
countRead_WhenAsked == op.count
countRead == meta[op.id]

begins == /\ queue # <<>> /\ done = 0 /\ ~refused /\ counted' = countRead /\ done' = 1
          /\ ledger' = CASE op.kind = "create"   -> Set(ledger, op.id, <<>>)
                         [] op.kind = "append"   -> Set(ledger, op.id, IF ledger[op.id] = Absent THEN <<op.entry>>
                                                                       ELSE Append(ledger[op.id], op.entry))
                         [] op.kind = "delete"   -> Set(ledger, op.id, Absent)
                         [] op.kind = "renameId" -> Set(Set(ledger, op.to, ledger[op.id]), op.id, Absent)
          /\ kept' = IF op.kind = "delete" THEN kept \ ToSet(ledger[op.id]) ELSE kept
          /\ UNCHANGED <<meta, queue, appended, sessionCrashes>>

sidecar == /\ done = 1 /\ done' = 2 /\ op.kind # "delete" /\ meta' = Set(meta, op.to, Torn)
           /\ UNCHANGED <<ledger, queue, counted, kept, appended, sessionCrashes>>

\* Its last write, and its answer.  (renameId removes the old sidecar last.)
ends == /\ done > 0 /\ done = (IF op.kind = "delete" THEN 1 ELSE 2) /\ done' = 0 /\ queue' = Tail(queue) /\ counted' = 0
        /\ meta' = CASE op.kind = "create"   -> Set(meta, op.id, 0)
                     [] op.kind = "append"   -> Set(meta, op.id, counted + 1)
                     [] op.kind = "delete"   -> Set(meta, op.id, NoMeta)
                     [] op.kind = "renameId" -> Set(Set(meta, op.to, counted), op.id, NoMeta)
        /\ kept' = IF op.kind = "append" THEN kept \cup {op.entry} ELSE kept
        /\ UNCHANGED <<ledger, appended, sessionCrashes>>

\* The process ends between two file operations and starts again.  A rename cut
\* short leaves a ledger without a sidecar, which the next create empties.
sessionCrash == /\ sessionCrashes < MaxSessionCrashes /\ sessionCrashes' = sessionCrashes + 1
                /\ queue' = <<>> /\ done' = 0 /\ counted' = 0
                /\ kept' = IF done > 0 /\ op.kind = "renameId" THEN kept \ ToSet(ledger[op.to]) ELSE kept
                /\ UNCHANGED <<ledger, meta, appended>>

SessionsNext == call \/ restoreSession \/ rejects \/ begins \/ sidecar \/ ends \/ sessionCrash

SessionsSpec == SessionsInit /\ [][SessionsNext]_sessionsVars

-----------------------------------------------------------------------------
(* Properties.                                                              *)

\* However operations on the same and on other sessions overlap, a session at
\* rest has both its files or neither and counts its entries; and an
\* acknowledged entry is in a ledger until it is deleted, through every crash
\* that does not cut a rename short.
TranscriptsAreWhole ==
    /\ (sessionCrashes = 0 /\ done = 0) => \A i \in SessionIds : IF ledger[i] = Absent THEN meta[i] = NoMeta ELSE meta[i] = Len(ledger[i])
    /\ kept \subseteq UNION {ToSet(ledger[i]) : i \in SessionIds}
=============================================================================
