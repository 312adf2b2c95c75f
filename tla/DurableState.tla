---------------------------- MODULE DurableState ----------------------------
(***************************************************************************)
(* What op-flowd promises about its cumulative state: memory runs ahead of *)
(* the state file, the file only ever takes a state that continues from    *)
(* the one it holds, and whatever ends the process, the next run continues *)
(* from a complete state that was saved.  A power loss may also undo saves *)
(* that the file system has not written back yet.                          *)
(*                                                                         *)
(* A state is a version: every change of the tracker makes a new one.      *)
(***************************************************************************)
EXTENDS Naturals

VARIABLES
    up,      \* the process runs
    memory,  \* version of the tracker's state
    saved,   \* version in the state file
    durable  \* version that a power loss leaves in the state file

vars == <<up, memory, saved, durable>>

Init == up = FALSE /\ memory = 0 /\ saved = 0 /\ durable = 0

Update ==
    /\ up
    /\ memory' = memory + 1
    /\ UNCHANGED <<up, saved, durable>>

Commit ==
    /\ up
    /\ saved' \in saved..memory
    /\ UNCHANGED <<up, memory, durable>>

Writeback ==
    /\ durable' = saved
    /\ UNCHANGED <<up, memory, saved>>

Stop ==
    /\ up' = FALSE
    /\ memory' = 0
    /\ saved' \in {saved, durable}
    /\ UNCHANGED durable

Start ==
    /\ ~up
    /\ up' = TRUE
    /\ memory' = saved
    /\ UNCHANGED <<saved, durable>>

Next == Update \/ Commit \/ Writeback \/ Stop \/ Start

Spec == Init /\ [][Next]_vars
=============================================================================
