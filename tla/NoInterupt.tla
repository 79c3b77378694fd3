------------------------------ MODULE NoInterupt ------------------------------
(***************************************************************************)
(* The lock that keeps SIGINT from cutting a write of a bundle or a resume *)
(* file in two.  There is no mutex: a writer counts itself in while the    *)
(* handler does not run, and the handler ends the program when it finds no *)
(* writer counted.  The handler runs on the thread Main, which stands still *)
(* until it returns.  exit runs the destructors of static objects, on the  *)
(* same thread and with lock_ still held: in rman-mount the cache is one,  *)
(* and writes what it has buffered.                                        *)
(***************************************************************************)
EXTENDS Integers, FiniteSets

CONSTANTS
    Thread,
    Main,           \* the thread that gets the signal
    Length,         \* the pieces a write is done in
    MaxWrites,      \* bound on the writes of a thread
    MaxSignals,     \* bound on the signals
    Programs        \* records [threads, static]: the threads that write, and
                    \* whether the cache is destroyed by exit

ASSUME Assumption ==
    /\ Main \in Thread
    /\ Length \in Nat \ {0} /\ MaxWrites \in Nat /\ MaxSignals \in Nat
    /\ Programs \subseteq [threads : SUBSET Thread, static : BOOLEAN]

\* Only rman-mount writes from threads that the handler does not stop, and its
\* cache is a static object.
ASSUME ProgramsAssumption ==
    \A p \in Programs : p.threads \subseteq {Main} \/ p.static

VARIABLES
    lock_, count_,
    pc,         \* where a thread is in IO::File::write
    at,         \* the pieces of its write that were done
    writes,     \* its writes
    buffered,   \* the cache has something to write
    handler,    \* where the handler is
    signals,
    ended,      \* the process ended
    program     \* the program that runs

vars == <<lock_, count_, pc, at, writes, buffered, handler, signals, ended, program>>

TypeOK ==
    /\ lock_ \in {0, 1} /\ count_ \in {0, 1}
    /\ pc \in [Thread -> {"out", "entering", "writing", "done", "leaving"}]
    /\ at \in [Thread -> 0 .. Length]
    /\ writes \in [Thread -> 0 .. MaxWrites]
    /\ buffered \in BOOLEAN
    /\ handler \in {"none", "locked", "exit"}
    /\ signals \in 0 .. MaxSignals
    /\ ended \in BOOLEAN /\ program \in Programs

Init ==
    /\ lock_ = 0 /\ count_ = 0
    /\ pc = [t \in Thread |-> "out"] /\ at = [t \in Thread |-> 0]
    /\ writes = [t \in Thread |-> 0]
    /\ buffered = FALSE
    /\ handler = "none" /\ signals = 0
    /\ ended = FALSE /\ program \in Programs

\* The thread runs: not below the handler.
Runs(t) == ~ended /\ t \in program.threads /\ (t = Main => handler = "none")

-----------------------------------------------------------------------------
\* A chunk is added to the buffer of the cache, which its mutex protects.
Buffer(t) ==
    /\ Runs(t) /\ \A u \in Thread : pc[u] = "out"
    /\ writes[t] < MaxWrites
    /\ buffered' = TRUE
    /\ UNCHANGED <<lock_, count_, pc, at, writes, handler, signals, ended, program>>

\* The buffer is to be written, and the constructor has seen lock_ = 0.
Enter(t) ==
    /\ Runs(t) /\ \A u \in Thread : pc[u] = "out"
    /\ buffered /\ writes[t] < MaxWrites
    /\ lock_ = 0
    /\ pc' = [pc EXCEPT ![t] = "entering"]
    /\ writes' = [writes EXCEPT ![t] = @ + 1]
    /\ UNCHANGED <<lock_, count_, at, buffered, handler, signals, ended, program>>

CountLate(t) ==  \* mutant: the writer is not counted
    /\ Runs(t) /\ pc[t] = "entering"
    /\ at' = [at EXCEPT ![t] = 0]
    /\ pc' = [pc EXCEPT ![t] = "writing"]
    /\ UNCHANGED <<lock_, count_, writes, buffered, handler, signals, ended, program>>

\* ++count_.
Count(t) ==
    /\ Runs(t) /\ pc[t] = "entering"
    /\ count_' = count_ + 1
    /\ at' = [at EXCEPT ![t] = 0]
    /\ pc' = [pc EXCEPT ![t] = "writing"]
    /\ UNCHANGED <<lock_, writes, buffered, handler, signals, ended, program>>

\* One pwrite of the loop.
WritePiece(t) ==
    /\ Runs(t) /\ pc[t] = "writing"
    /\ at' = [at EXCEPT ![t] = @ + 1]
    /\ pc' = [pc EXCEPT ![t] = IF at[t] + 1 = Length THEN "done" ELSE "writing"]
    /\ UNCHANGED <<lock_, count_, writes, buffered, handler, signals, ended, program>>

\* The destructor has seen lock_ = 0.
Leave(t) ==
    /\ Runs(t) /\ pc[t] = "done"
    /\ lock_ = 0
    /\ pc' = [pc EXCEPT ![t] = "leaving"]
    /\ UNCHANGED <<lock_, count_, at, writes, buffered, handler, signals, ended, program>>

\* --count_; then the buffer is cleared.  The two are one step: a handler between
\* them finds nobody counted and something buffered, as after Buffer.
Uncount(t) ==
    /\ Runs(t) /\ pc[t] = "leaving"
    /\ count_' = count_ - 1
    /\ pc' = [pc EXCEPT ![t] = "out"]
    /\ buffered' = FALSE
    /\ UNCHANGED <<lock_, at, writes, handler, signals, ended, program>>

\* The handler is called: ++lock_.
Signal ==
    /\ ~ended /\ handler = "none" /\ signals < MaxSignals
    /\ lock_' = lock_ + 1
    /\ handler' = "locked"
    /\ signals' = signals + 1
    /\ UNCHANGED <<count_, pc, at, writes, buffered, ended, program>>

IgnoreLocked ==  \* mutant: lock_ is not given back
    /\ ~ended /\ handler = "locked" /\ count_ # 0
    /\ handler' = "none"
    /\ UNCHANGED <<lock_, count_, pc, at, writes, buffered, signals, ended, program>>

\* Somebody writes: --lock_, and the signal is lost.
Ignore ==
    /\ ~ended /\ handler = "locked" /\ count_ # 0
    /\ lock_' = lock_ - 1
    /\ handler' = "none"
    /\ UNCHANGED <<count_, pc, at, writes, buffered, signals, ended, program>>

\* Nobody writes: exit(1).
Exit ==
    /\ ~ended /\ handler = "locked" /\ count_ = 0
    /\ handler' = "exit"
    /\ UNCHANGED <<lock_, count_, pc, at, writes, buffered, signals, ended, program>>

\* The end of exit: the process is gone, its other threads with it.  A static
\* cache that has something buffered writes it first, which waits for lock_ = 0.
End ==
    /\ ~ended /\ handler = "exit"
    /\ program.static /\ buffered => lock_ = 0
    /\ ended' = TRUE
    /\ UNCHANGED <<lock_, count_, pc, at, writes, buffered, handler, signals, program>>

Next ==
    \/ \E t \in Thread :
          \/ Buffer(t) \/ Enter(t) \/ Count(t) \/ WritePiece(t)
          \/ Leave(t) \/ Uncount(t)
    \/ Signal \/ Ignore \/ Exit \/ End

Spec == Init /\ [][Next]_vars

\* Threads that are not waiting for lock_, and the handler, go on.
FairSpec ==
    /\ Spec
    /\ \A t \in Thread :
          WF_vars(Count(t)) /\ WF_vars(WritePiece(t)) /\ WF_vars(Leave(t)) /\ WF_vars(Uncount(t))
    /\ WF_vars(Ignore) /\ WF_vars(Exit) /\ WF_vars(End)

-----------------------------------------------------------------------------
\* SIGINT does not cut a write: when it ends the process, no thread has done a
\* part of the pieces of its write.  What is in a bundle or a resume file is a
\* sequence of whole writes.
NeverCut == ended => \A t \in Thread : ~(pc[t] = "writing" /\ at[t] > 0)

\* Every write that was begun is finished, whenever signals arrive, or the
\* process ends: neither the writer nor the handler waits for the other forever.
\* Where exit hangs, because a static cache waits for the lock_ that the handler
\* below it holds, no write is left half done.
Hangs == handler = "exit" /\ program.static
WritesFinish ==
    \A t \in Thread :
        pc[t] # "out" ~> (pc[t] = "out" \/ ended \/ (Hangs /\ pc[t] # "writing"))
=============================================================================
