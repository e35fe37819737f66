------------------------------ MODULE OperationLock ------------------------------
(***************************************************************************)
(* The file-backed browser operation dispatcher: one lock file per managed *)
(* profile and service, created with the flag wx, which names the process  *)
(* that holds it.  The file exists before its content does, a file that is *)
(* empty, gone or whose owner is dead is removed by whoever finds it so,   *)
(* and it is looked at before it is removed.                               *)
(***************************************************************************)
CONSTANTS Users,        \* whoever may hold the lock
          Nobody        \* not one of them

VARIABLES lock,   \* the lock file: its content, and who created it
          grip,   \* where every user is in acquire and release
          torn    \* history: a file was removed under the living user that created it
lockVars == <<lock, grip, torn>>

LockTypeOK ==
    /\ lock \in [content : {"absent", "empty", "owner", "dead owner"}, by : Users \cup {Nobody}]
    /\ grip \in [Users -> {"out", "asking", "stamping", "blocked", "removing", "holding", "unlinking"}]
    /\ torn \in BOOLEAN

NoFile == [content |-> "absent", by |-> Nobody]
FileOf(u) == [content |-> "owner", by |-> u]
EmptyFileOf(u) == [content |-> "empty", by |-> u]
Grips(u, g) == grip' = [grip EXCEPT ![u] = g]

LockInit == lock = NoFile /\ grip = [u \in Users |-> "out"] /\ torn = FALSE

Has(u) == grip[u] \in {"stamping", "holding", "unlinking"}

\* rm: whatever file is there now
Removes(u) ==
    /\ lock' = NoFile
    /\ torn' = (torn \/ \E v \in Users \ {u} : lock.by = v /\ Has(v))

\* open(lockPath, "wx")
Open(u) ==
    /\ grip[u] = "asking" /\ lock.content = "absent"
    /\ lock' = EmptyFileOf(u) /\ Grips(u, "stamping")
    /\ UNCHANGED torn

\* the content goes to the file that was opened, which may have been removed since
Stamp(u) ==
    /\ grip[u] = "stamping" /\ Grips(u, "holding")
    /\ lock' = IF lock = EmptyFileOf(u) THEN FileOf(u) ELSE lock
    /\ UNCHANGED torn

\* EEXIST: the file is there, and will be read
Blocked(u) ==
    /\ grip[u] = "asking" /\ lock.content # "absent"
    /\ Grips(u, "blocked")
    /\ UNCHANGED <<lock, torn>>

\* what is read names no living owner, or is gone by now: whatever is there is removed
\* and the attempt repeated
Look(u) ==
    /\ grip[u] = "blocked" /\ lock.content # "owner"
    /\ Grips(u, "removing")
    /\ UNCHANGED <<lock, torn>>

Remove(u) == grip[u] = "removing" /\ Removes(u) /\ Grips(u, "asking")

Acquire(u) == Open(u) \/ Stamp(u) \/ Blocked(u) \/ Look(u) \/ Remove(u)

\* the attempt found a living owner: acquire returns the busy result
Busy(u) == grip[u] = "blocked" /\ lock.content = "owner"

\* release removes the file if it still names this operation
Release(u) ==
    /\ grip[u] = "holding"
    /\ Grips(u, IF lock = FileOf(u) THEN "unlinking" ELSE "out")
    /\ UNCHANGED <<lock, torn>>

Unlink(u) == grip[u] = "unlinking" /\ Removes(u) /\ Grips(u, "out")

\* a process dies: its users are gone, and the owner in its lock file is dead
Orphan(U) ==
    /\ grip' = [u \in Users |-> IF u \in U THEN "out" ELSE grip[u]]
    /\ lock' = IF lock.content = "owner" /\ lock.by \in U
               THEN [lock EXCEPT !.content = "dead owner"] ELSE lock
    /\ UNCHANGED torn
=============================================================================
