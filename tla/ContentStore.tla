----------------------------- MODULE ContentStore -----------------------------
(***************************************************************************)
(* What a chunk cache promises, without files, buffers or offsets: a set   *)
(* of chunks that only grows while a process has it open, of which an      *)
(* earlier state survives the process.  Either all of what was made        *)
(* durable last is found again, or the store is damaged as a whole and is  *)
(* refused.                                                                *)
(***************************************************************************)
CONSTANT Chunk

VARIABLES
    stored,     \* the chunks a reader of the store finds
    durable,    \* the chunks that are found after the process ended
    damaged     \* whether the store is refused

vars == <<stored, durable, damaged>>

Init ==
    /\ stored = {}
    /\ durable = {}
    /\ damaged = FALSE

\* A chunk is added once.
Add(c) ==
    /\ ~damaged
    /\ c \notin stored
    /\ stored' = stored \cup {c}
    /\ UNCHANGED <<durable, damaged>>

\* All of what was added becomes durable, in one step.
Sync ==
    /\ ~damaged
    /\ durable' = stored
    /\ UNCHANGED <<stored, damaged>>

\* The process ends, having made all or nothing more of it durable.
End ==
    /\ ~damaged
    /\ \/ stored' = durable /\ durable' = durable
       \/ stored' = stored /\ durable' = stored
    /\ UNCHANGED damaged

\* The process dies inside a write.
Damage ==
    /\ stored' = {}
    /\ durable' = {}
    /\ damaged' = TRUE

Next ==
    \/ \E c \in Chunk : Add(c)
    \/ Sync
    \/ End
    \/ Damage

Spec == Init /\ [][Next]_vars
=============================================================================
