----------------------------- MODULE StateFile ------------------------------
(***************************************************************************)
(* How the cumulative state of op-flowd reaches the state file:            *)
(* Tracker.Save (internal/collector/collector.go) and store.Save           *)
(* (internal/store/store.go), system call by system call.                  *)
(*                                                                         *)
(* Three goroutines save: the collector's loop (periodically and when the  *)
(* daemon is told to stop), the HTTP handler of a manual reset, and main   *)
(* before it returns.  saveMu lets one of them at a time copy the state    *)
(* and replace the file.  Every system call may fail, the process may end  *)
(* at every step, and a power loss leaves of the file system what had been *)
(* written back.                                                           *)
(*                                                                         *)
(* A state is a version, as in DurableState, which this module implements. *)
(***************************************************************************)
EXTENDS Naturals

CONSTANTS
    Loop, Handler, Main, \* the goroutines that save
    None,                \* nobody, or no file
    RenameMayFail,       \* os.Rename may fail, so that the fallback is taken
    ReadMayFail,         \* os.ReadFile may fail although the file exists
    MaxVersion,          \* bound: changes of the state
    MaxStarts            \* bound: starts of the daemon

Savers == {Loop, Handler, Main}

ASSUME SaverAssumption == None \notin Savers
ASSUME BoundsAssumption ==
    /\ {MaxVersion, MaxStarts} \subseteq Nat
    /\ RenameMayFail \in BOOLEAN /\ ReadMayFail \in BOOLEAN

VARIABLES
    up,        \* the process runs
    memory,    \* version of the tracker's state
    pc,        \* where each saver is in Save
    saveMu,    \* its holder, or None
    copy,      \* version each saver has copied under the read lock
    tmp,       \* each saver's temporary file
    file,      \* the file at the state path
    stable,    \* the same after a power loss
    saveError, \* lastSaveError # ""
    starts,    \* bound
    \* History.
    request,   \* version when Save was called
    acked,     \* newest version whose Save has returned nil, of those that
               \* a power loss must leave
    kept,      \* its value when the directory was last written back
    attempted, \* newest version this run has tried to save
    unread     \* a start could not read the file

saving == <<pc, saveMu, copy, tmp>>
history == <<request, acked, kept, attempted, unread>>
vars == <<up, memory, saving, file, stable, saveError, starts, history>>

-----------------------------------------------------------------------------
(* Data *)

\* A file is complete once it is synced: before that a power loss takes its
\* contents.
File == [version : Nat, synced : BOOLEAN]

NoTmp == [version |-> 0, synced |-> FALSE]

\* No file, or one that cannot be decoded: Load starts from the empty state.
NoFile == [version |-> 0, synced |-> TRUE]

AfterPowerLoss(f) == IF f.synced THEN f ELSE NoFile

Steps == {"idle", "wait", "create", "write", "sync", "close", "rename",
          "replace", "ok", "failed"}

-----------------------------------------------------------------------------
Init ==
    /\ up = FALSE
    /\ memory = 0
    /\ pc = [s \in Savers |-> "idle"]
    /\ saveMu = None
    /\ copy = [s \in Savers |-> 0]
    /\ tmp = [s \in Savers |-> NoTmp]
    /\ file = NoFile
    /\ stable = NoFile
    /\ saveError = FALSE
    /\ starts = 0
    /\ request = [s \in Savers |-> 0]
    /\ acked = 0
    /\ kept = 0
    /\ attempted = 0
    /\ unread = FALSE

Goto(s, step) == pc' = [pc EXCEPT ![s] = step]

\* A poll, a destroy event or a reset changes the state.
Update ==
    /\ up
    /\ memory < MaxVersion
    /\ memory' = memory + 1
    /\ UNCHANGED <<up, saving, file, stable, saveError, starts, history>>

CallSave(s) ==
    /\ up
    /\ pc[s] = "idle"
    /\ Goto(s, "wait")
    /\ request' = [request EXCEPT ![s] = memory]
    /\ UNCHANGED <<up, memory, saveMu, copy, tmp, file, stable, saveError,
                   starts, acked, kept, attempted, unread>>

\* Faulty variant: saveMu is not taken.
FreeForAll == TRUE

Free == saveMu = None

\* saveMu is taken and the state copied under the read lock.
Copy(s) ==
    /\ pc[s] = "wait"
    /\ Free
    /\ saveMu' = s
    /\ copy' = [copy EXCEPT ![s] = memory]
    /\ attempted' = memory
    /\ Goto(s, "create")
    /\ UNCHANGED <<up, memory, tmp, file, stable, saveError, starts, request,
                   acked, kept, unread>>

\* os.MkdirAll and os.CreateTemp; a temporary file has a name of its own.
Create(s) ==
    /\ pc[s] = "create"
    /\ \/ Goto(s, "write") \/ Goto(s, "failed")
    /\ UNCHANGED <<up, memory, saveMu, copy, tmp, file, stable, saveError,
                   starts, history>>

Write(s) ==
    /\ pc[s] = "write"
    /\ \/ Goto(s, "sync")
          /\ tmp' = [tmp EXCEPT ![s] = [version |-> copy[s], synced |-> FALSE]]
       \/ Goto(s, "failed") /\ UNCHANGED tmp
    /\ UNCHANGED <<up, memory, saveMu, copy, file, stable, saveError, starts,
                   history>>

\* Faulty variant: the file is not synced.
Unsynced(f) == f

Synced(f) == [version |-> f.version, synced |-> TRUE]

Sync(s) ==
    /\ pc[s] = "sync"
    /\ \/ Goto(s, "close") /\ tmp' = [tmp EXCEPT ![s] = Synced(@)]
       \/ Goto(s, "failed") /\ UNCHANGED tmp
    /\ UNCHANGED <<up, memory, saveMu, copy, file, stable, saveError, starts,
                   history>>

\* Chmod and Close.
Close(s) ==
    /\ pc[s] = "close"
    /\ \/ Goto(s, "rename") \/ Goto(s, "failed")
    /\ UNCHANGED <<up, memory, saveMu, copy, tmp, file, stable, saveError,
                   starts, history>>

\* os.Rename; if it fails, os.Remove of the state file, which may fail too.
Rename(s) ==
    /\ pc[s] = "rename"
    /\ \/ Goto(s, "ok") /\ file' = tmp[s]
       \/ RenameMayFail /\ Goto(s, "replace") /\ file' = NoFile
       \/ RenameMayFail /\ Goto(s, "failed") /\ UNCHANGED file
    /\ UNCHANGED <<up, memory, saveMu, copy, tmp, stable, saveError, starts,
                   history>>

\* The second os.Rename of the fallback.
Replace(s) ==
    /\ pc[s] = "replace"
    /\ \/ Goto(s, "ok") /\ file' = tmp[s]
       \/ Goto(s, "failed") /\ UNCHANGED file
    /\ UNCHANGED <<up, memory, saveMu, copy, tmp, stable, saveError, starts,
                   history>>

\* Faulty variant: a failure is not noticed.
NeverReported(ok) == FALSE

Reported(ok) == ~ok

\* Faulty variant: saveMu is only released on success.
ReleasedOnSuccess(ok) == IF ok THEN None ELSE saveMu

Released(ok) == None

\* The deferred os.Remove of the temporary file; lastSaveError; saveMu.
Return(s) ==
    /\ pc[s] \in {"ok", "failed"}
    /\ Goto(s, "idle")
    /\ tmp' = [tmp EXCEPT ![s] = NoTmp]
    /\ copy' = [copy EXCEPT ![s] = 0]
    /\ request' = [request EXCEPT ![s] = 0]
    /\ saveError' = Reported(pc[s] = "ok")
    /\ saveMu' = Released(pc[s] = "ok")
    /\ acked' = IF pc[s] = "ok" /\ request[s] > acked THEN request[s] ELSE acked
    /\ UNCHANGED <<up, memory, file, stable, starts, kept, attempted, unread>>

Save(s) ==
    \/ CallSave(s) \/ Copy(s) \/ Create(s) \/ Write(s) \/ Sync(s) \/ Close(s)
    \/ Rename(s) \/ Replace(s) \/ Return(s)

\* The kernel writes the directory back: what has been acknowledged until now
\* is to survive a power loss.
Writeback ==
    /\ stable' = file
    /\ kept' = acked
    /\ UNCHANGED <<up, memory, saving, file, saveError, starts, request, acked,
                   attempted, unread>>

\* The process is gone: crash, kill, or main returns after its Save while the
\* others are in the middle of theirs.  Temporary files stay behind, unread.
Down ==
    /\ up
    /\ up' = FALSE
    /\ memory' = 0
    /\ pc' = [s \in Savers |-> "idle"]
    /\ saveMu' = None
    /\ tmp' = [s \in Savers |-> NoTmp]
    /\ copy' = [s \in Savers |-> 0]
    /\ request' = [s \in Savers |-> 0]
    /\ saveError' = FALSE
    /\ attempted' = 0
    /\ UNCHANGED <<stable, starts, kept, unread>>

Crash == Down /\ UNCHANGED <<file, acked>>

PowerLoss ==
    /\ Down
    /\ file' = AfterPowerLoss(stable)
    /\ acked' = kept

\* New: store.Load, or the empty state.
Start ==
    /\ ~up
    /\ starts < MaxStarts
    /\ starts' = starts + 1
    /\ up' = TRUE
    /\ \/ memory' = file.version /\ UNCHANGED unread
       \/ ReadMayFail /\ file # NoFile /\ memory' = 0 /\ unread' = TRUE
    /\ UNCHANGED <<saving, file, stable, saveError, request, acked, kept, attempted>>

Next ==
    \/ Update \/ Writeback \/ Crash \/ PowerLoss \/ Start
    \/ \E s \in Savers : Save(s)

Spec == Init /\ [][Next]_vars

\* Every system call returns, and a sync.Mutex does not starve a waiter.
FairSpec ==
    Spec /\ \A s \in Savers :
              /\ SF_vars(Copy(s))
              /\ WF_vars(Create(s) \/ Write(s) \/ Sync(s) \/ Close(s)
                           \/ Rename(s) \/ Replace(s) \/ Return(s))

-----------------------------------------------------------------------------
(* Properties *)

\* The types, and what saveMu protects: whoever has copied the state and not
\* returned yet holds it.
TypeOK ==
    /\ \A s \in Savers : pc[s] \notin {"idle", "wait"} <=> saveMu = s
    /\ up \in BOOLEAN
    /\ memory \in Nat
    /\ pc \in [Savers -> Steps]
    /\ saveMu \in Savers \cup {None}
    /\ copy \in [Savers -> Nat]
    /\ tmp \in [Savers -> File]
    /\ file \in File
    /\ stable \in File
    /\ saveError \in BOOLEAN
    /\ starts \in Nat
    /\ request \in [Savers -> Nat]
    /\ acked \in Nat
    /\ kept \in Nat
    /\ attempted \in Nat
    /\ unread \in BOOLEAN

\* What Save has reported as saved stays saved: no concurrent save replaces it
\* by a state copied earlier, no crash takes it back, and no power loss does if
\* the directory has been written back since (saveMu, the rename, the sync).
AcknowledgedKept == ~unread => acked <= file.version

\* If no save is in progress and the health warning is off, the state that was
\* copied last is in the file (lastSaveError).
NoWarningMeansSaved ==
    up /\ saveMu = None /\ ~saveError => attempted <= file.version

\* The module implements DurableState: saved is what a restart of the process
\* would load, durable what it would load after a power loss.
Durable ==
    INSTANCE DurableState WITH saved <- file.version, durable <- stable.version

Implements == Durable!Spec

\* A save that was asked for returns: the three savers cannot block each other
\* (saveMu is released on every path).
SaveReturns == \A s \in Savers : pc[s] = "wait" ~> pc[s] = "idle"
=============================================================================
