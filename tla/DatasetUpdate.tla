--------------------------- MODULE DatasetUpdate ----------------------------
(***************************************************************************)
(* The updates of the offline datasets of op-flowd: Coordinator            *)
(* (internal/server/server.go), autoUpdate (cmd/op-flowd/main.go), Update  *)
(* (internal/dataset/updater.go) and Manager (internal/dataset/database.go). *)
(*                                                                         *)
(* The daemon starts an update when it is asked to or when its status says *)
(* that one is due, in a goroutine of its own and never two at once.  The  *)
(* command update-data (Tool) does the same work in another process on the *)
(* same directory.  An update asks for each source on condition that it    *)
(* has changed since the ETag in update-meta.json, replaces the changed    *)
(* files one by one, writes the new ETags when it is through with all of   *)
(* them, and loads the files into memory.                                  *)
(*                                                                         *)
(* A version stands for the contents of a source, and for its ETag.        *)
(***************************************************************************)
EXTENDS Integers

CONSTANTS
    Jobs,           \* goroutines of Trigger
    Tool,           \* the process of the command update-data
    WithTool,       \* that command is used
    PowerMayFail,
    NumSources,     \* the sources of allSpecs, in its order
    MaxVersion,     \* bound: versions of a source
    MaxStarts       \* bound: starts of the daemon

Updaters == Jobs \cup {Tool}
Sources == 1..NumSources

ASSUME UpdaterAssumption == Tool \notin Jobs
ASSUME BoundsAssumption ==
    /\ {NumSources, MaxStarts} \subseteq Nat
    /\ MaxVersion \in Nat \ {0}
    /\ {WithTool, PowerMayFail} \subseteq BOOLEAN

VARIABLES
    remote,   \* version each source has published
    file,     \* version in its file, 0: none
    meta,     \* version of the ETag in update-meta.json, 0: none
    fresh,    \* files whose modification time is within update_interval
    volatile, \* files a power loss empties: Update does not sync them
    up,       \* the daemon runs
    db,       \* versions in the daemon's memory
    running,  \* Coordinator.running
    status,   \* Manager.status: UpdateRunning, LastUpdateError # "", and
              \* whether UpdatedAt is zero or older than update_interval
    starts,   \* bound
    \* Of each update.
    pc,
    source,   \* source it is at
    etags,    \* the metadata it has in memory
    got,      \* version it has downloaded
    failed,   \* it will return an error
    \* History.
    unreadable, \* sources the last Load of the daemon could not read; all of
              \* them if it could read none and Reload kept what it had
    lost,     \* files a power loss has emptied and no update has replaced
    overlap,  \* updates that are not alone: another was at work meanwhile
    raced     \* files replaced or removed by such an update, and by none since
              \* that was alone

disk == <<file, meta, fresh, volatile>>
daemon == <<up, db, running, status, starts>>
work == <<source, etags, got, failed>>
history == <<unreadable, lost, overlap, raced>>
vars == <<remote, disk, daemon, pc, work, history>>

-----------------------------------------------------------------------------
Version == 0..MaxVersion
None == [s \in Sources |-> 0]

Status == [running : BOOLEAN, error : BOOLEAN, due : BOOLEAN]

Init ==
    /\ remote = [s \in Sources |-> 1]
    /\ file = None
    /\ meta = None
    /\ fresh = {}
    /\ volatile = {}
    /\ up = FALSE
    /\ db = None
    /\ running = FALSE
    /\ status = [running |-> FALSE, error |-> FALSE, due |-> TRUE]
    /\ starts = 0
    /\ pc = [u \in Updaters |-> "idle"]
    /\ source = [u \in Updaters |-> 1]
    /\ etags = [u \in Updaters |-> None]
    /\ got = [u \in Updaters |-> 0]
    /\ failed = [u \in Updaters |-> FALSE]
    /\ unreadable = {}
    /\ lost = {}
    /\ overlap = {}
    /\ raced = {}

\* The update is not over: one of the daemon holds Coordinator.running.
Working(u) == pc[u] \notin {"idle", "report"}

Goto(u, step) == pc' = [pc EXCEPT ![u] = step]

Publish(s) ==
    /\ remote[s] < MaxVersion
    /\ remote' = [remote EXCEPT ![s] = @ + 1]
    /\ UNCHANGED <<disk, daemon, pc, work, history>>

\* update_interval goes by: the files are old, and so is what was loaded.
Age ==
    /\ fresh # {} \/ ~status.due
    /\ fresh' = {}
    /\ status' = [status EXCEPT !.due = TRUE]
    /\ UNCHANGED <<remote, file, meta, volatile, up, db, running, starts, pc,
                   work, history>>

\* An update begins, perhaps while another is at work.
Begin(u) ==
    LET others == {v \in Updaters \ {u} : Working(v)}
    IN  /\ pc[u] = "idle"
        /\ Goto(u, "begin")
        /\ overlap' = IF others = {} THEN overlap
                      ELSE overlap \cup others \cup {u}

-----------------------------------------------------------------------------
(* Coordinator *)

\* Faulty variant: a running update does not keep another from starting.
AlwaysAccepted == TRUE

Accepted == ~running

\* Trigger, for the API or for autoUpdate.
Trigger(j) ==
    /\ up
    /\ Accepted
    /\ Begin(j)
    /\ running' = TRUE
    /\ status' = [status EXCEPT !.running = TRUE]
    /\ UNCHANGED <<remote, disk, up, db, starts, work, unreadable, lost, raced>>

\* Faulty variant: what has been loaded does not grow old.
RetryOnly == status.error

Due == status.error \/ status.due

\* The hourly check of autoUpdate.
Check(j) == Due /\ Trigger(j)

\* UpdateSync of the command update-data.
UpdateSync ==
    /\ WithTool
    /\ Begin(Tool)
    /\ UNCHANGED <<remote, disk, daemon, work, unreadable, lost, raced>>

\* Trigger's goroutine has returned from update.
Free(j) ==
    /\ pc[j] = "free"
    /\ running' = FALSE
    /\ overlap' = overlap \ {j}
    /\ Goto(j, "report")
    /\ UNCHANGED <<remote, disk, up, db, status, starts, work, unreadable, lost,
                   raced>>

\* Only now SetUpdateState(false, err), when another update may be under way.
Report(j) ==
    /\ pc[j] = "report"
    /\ status' = [status EXCEPT !.running = FALSE, !.error = failed[j]]
    /\ failed' = [failed EXCEPT ![j] = FALSE]
    /\ Goto(j, "idle")
    /\ UNCHANGED <<remote, disk, up, db, running, starts, source, etags, got,
                   history>>

-----------------------------------------------------------------------------
(* Update *)

\* MkdirAll, which may fail, and readMeta.
ReadMeta(u, ok) ==
    /\ pc[u] = "begin"
    /\ IF ok
       THEN /\ Goto(u, "download")
            /\ etags' = [etags EXCEPT ![u] = meta]
            /\ UNCHANGED failed
       ELSE /\ Goto(u, "reload")
            /\ failed' = [failed EXCEPT ![u] = TRUE]
            /\ UNCHANGED etags
    /\ UNCHANGED <<remote, disk, daemon, source, got, history>>

Past(u) == source' = [source EXCEPT ![u] = @ + 1]

\* downloadOne: no answer, an HTTP error, or a body that is incomplete, too
\* large or not valid.
RequestFails(u) ==
    /\ pc[u] = "download"
    /\ source[u] \in Sources
    /\ failed' = [failed EXCEPT ![u] = TRUE]
    /\ Past(u)
    /\ UNCHANGED <<remote, disk, daemon, pc, etags, got, history>>

\* 304: the file, if there is one, is as good as new.
NotModified(u, s) ==
    /\ pc[u] = "download"
    /\ source[u] = s
    /\ etags[u][s] = remote[s]
    /\ fresh' = IF file[s] = 0 THEN fresh ELSE fresh \cup {s}
    /\ Past(u)
    /\ UNCHANGED <<remote, file, meta, volatile, daemon, pc, etags, got,
                   failed, history>>

\* 200, and a body that passes.
Downloaded(u, s) ==
    /\ pc[u] = "download"
    /\ source[u] = s
    /\ etags[u][s] # remote[s]
    /\ got' = [got EXCEPT ![u] = remote[s]]
    /\ Goto(u, "replace")
    /\ UNCHANGED <<remote, disk, daemon, source, etags, failed, history>>

\* Faulty variant: the ETag is that of the response, whatever became of it.
RecordedAnyway(u, ok) == [etags EXCEPT ![u][source[u]] = got[u]]

\* The metadata after replaceFile.
Recorded(u, ok) ==
    IF ok THEN [etags EXCEPT ![u][source[u]] = got[u]] ELSE etags

\* replaceFile: a rename, or the second one when the first has failed and the
\* fallback has removed the file.  Without ok, the file that is there (if the
\* first rename and the removal have failed) or none (if the second has) stays.
ReplaceFile(u, s, ok) ==
    /\ pc[u] \in {"replace", "removed"}
    /\ source[u] = s
    /\ IF ok
       THEN /\ file' = [file EXCEPT ![s] = got[u]]
            /\ fresh' = fresh \cup {s}
            /\ volatile' = volatile \cup {s}
            /\ lost' = lost \ {s}
            /\ raced' = IF u \in overlap THEN raced \cup {s} ELSE raced \ {s}
            /\ UNCHANGED failed
       ELSE /\ failed' = [failed EXCEPT ![u] = TRUE]
            /\ UNCHANGED <<file, fresh, volatile, lost, raced>>
    /\ etags' = Recorded(u, ok)
    /\ got' = [got EXCEPT ![u] = 0]
    /\ Past(u)
    /\ Goto(u, "download")
    /\ UNCHANGED <<remote, meta, daemon, unreadable, overlap>>

\* The fallback of replaceFile: the rename has failed, for whatever reason.
RemoveFile(u, s) ==
    /\ pc[u] = "replace"
    /\ source[u] = s
    /\ file' = [file EXCEPT ![s] = 0]
    /\ fresh' = fresh \ {s}
    /\ volatile' = volatile \ {s}
    /\ raced' = IF u \in overlap THEN raced \cup {s} ELSE raced
    /\ Goto(u, "removed")
    /\ UNCHANGED <<remote, meta, daemon, work, unreadable, lost, overlap>>

\* writeAtomic, of the metadata of all sources at once; an error is ignored.
WriteMeta(u) ==
    /\ pc[u] \in {"download", "removed"}
    /\ source[u] \notin Sources
    /\ meta' \in {meta, etags[u]}
    /\ source' = [source EXCEPT ![u] = 1]
    /\ etags' = [etags EXCEPT ![u] = None]
    /\ Goto(u, "reload")
    /\ UNCHANGED <<remote, file, fresh, volatile, daemon, got, failed,
                   history>>

\* The same fallback: there is no metadata until the second rename.
RemoveMeta(u) ==
    /\ pc[u] = "download"
    /\ source[u] \notin Sources
    /\ meta' = None
    /\ Goto(u, "removed")
    /\ UNCHANGED <<remote, file, fresh, volatile, daemon, work, history>>

-----------------------------------------------------------------------------
(* Manager *)

Present == {s \in Sources : file[s] # 0}

\* Load cannot read the files of bad.  If that is all there are, Reload keeps
\* what it has; otherwise it takes the rest, and the error only goes into the
\* status.
Loaded(bad) == [s \in Sources |-> IF s \in bad THEN 0 ELSE file[s]]

\* Faulty variant: update does not reload after a failed download.
ReloadedUnlessFailed(u) == ~failed[u]

Reloaded(u) == TRUE

Reload(j) ==
    /\ pc[j] = "reload"
    /\ IF Reloaded(j)
       THEN \E bad \in SUBSET Present :
              /\ IF bad # {} /\ bad = Present
                 THEN /\ status' = [status EXCEPT !.error = TRUE]
                      /\ failed' = [failed EXCEPT ![j] = TRUE]
                      /\ unreadable' = Sources
                      /\ UNCHANGED db
                 ELSE /\ db' = Loaded(bad)
                      /\ unreadable' = bad
                      /\ status' = [status EXCEPT
                                      !.error = @ \/ bad # {},
                                      !.due = fresh \cap (Present \ bad) = {}]
                      /\ UNCHANGED failed
       ELSE UNCHANGED <<db, status, failed, unreadable>>
    /\ Goto(j, "free")
    /\ UNCHANGED <<remote, disk, up, running, starts, source, etags, got, lost,
                   overlap, raced>>

\* The command loads the files to report on them, and ends.
ToolReturns ==
    /\ pc[Tool] = "reload"
    /\ failed' = [failed EXCEPT ![Tool] = FALSE]
    /\ Goto(Tool, "idle")
    /\ overlap' = overlap \ {Tool}
    /\ UNCHANGED <<remote, disk, daemon, source, etags, got, unreadable, lost,
                   raced>>

-----------------------------------------------------------------------------
(* Lifecycle *)

\* The updates of gone processes leave nothing but temporary files.
Forget(gone) ==
    /\ pc' = [u \in Updaters |-> IF u \in gone THEN "idle" ELSE pc[u]]
    /\ source' = [u \in Updaters |-> IF u \in gone THEN 1 ELSE source[u]]
    /\ etags' = [u \in Updaters |-> IF u \in gone THEN None ELSE etags[u]]
    /\ got' = [u \in Updaters |-> IF u \in gone THEN 0 ELSE got[u]]
    /\ failed' = [u \in Updaters |-> IF u \in gone THEN FALSE ELSE failed[u]]
    /\ overlap' = overlap \ gone

DaemonGone ==
    /\ up' = FALSE
    /\ db' = None
    /\ running' = FALSE
    /\ status' = [running |-> FALSE, error |-> FALSE, due |-> TRUE]
    /\ unreadable' = {}

\* The command "daemon": Reload, which may fail, before anything else.
Start ==
    /\ ~up
    /\ starts < MaxStarts
    /\ starts' = starts + 1
    /\ up' = TRUE
    /\ \E bad \in SUBSET Present :
         /\ unreadable' = bad
         /\ db' = Loaded(bad)
         /\ status' = [running |-> FALSE, error |-> bad # {},
                       due |-> fresh \cap (Present \ bad) = {}]
    /\ UNCHANGED <<remote, disk, running, pc, work, lost, overlap, raced>>

Crash ==
    /\ up
    /\ DaemonGone
    /\ Forget(Jobs)
    /\ UNCHANGED <<remote, disk, starts, lost, raced>>

ToolCrash ==
    /\ pc[Tool] # "idle"
    /\ Forget({Tool})
    /\ UNCHANGED <<remote, disk, daemon, unreadable, lost, raced>>

\* The kernel writes the files back.
Writeback ==
    /\ PowerMayFail
    /\ volatile' = {}
    /\ UNCHANGED <<remote, file, meta, fresh, daemon, pc, work, history>>

\* The metadata is synced before its rename; the files are not.
PowerLoss ==
    /\ PowerMayFail
    /\ DaemonGone
    /\ Forget(Updaters)
    /\ \E emptied \in SUBSET volatile :
         /\ file' = [s \in Sources |-> IF s \in emptied THEN 0 ELSE file[s]]
         /\ lost' = lost \cup emptied
    /\ volatile' = {}
    /\ UNCHANGED <<remote, meta, fresh, starts, raced>>

-----------------------------------------------------------------------------
UpdateStep(u) ==
    \/ \E ok \in BOOLEAN : ReadMeta(u, ok)
    \/ RequestFails(u)
    \/ \E s \in Sources : NotModified(u, s) \/ Downloaded(u, s)
    \/ \E s \in Sources, ok \in BOOLEAN : ReplaceFile(u, s, ok)
    \/ \E s \in Sources : RemoveFile(u, s)
    \/ WriteMeta(u) \/ RemoveMeta(u)

JobStep(j) == UpdateStep(j) \/ Reload(j) \/ Free(j) \/ Report(j)

Next ==
    \/ Age \/ Start \/ Crash \/ Writeback \/ PowerLoss
    \/ \E s \in Sources : Publish(s)
    \/ \E j \in Jobs : Trigger(j) \/ Check(j) \/ JobStep(j)
    \/ UpdateSync \/ UpdateStep(Tool) \/ ToolReturns \/ ToolCrash

Spec == Init /\ [][Next]_vars

\* Time passes, autoUpdate checks every hour, a goroutine goes on, and neither
\* downloads nor replacements nor loads fail for ever.  The fallback of
\* replaceFile is not taken for ever ("OpenWrt takes the atomic branch").
FairSpec ==
    /\ Spec
    /\ WF_vars(Age)
    /\ WF_vars(\E j \in Jobs : Check(j))
    /\ WF_vars(\E j \in Jobs : JobStep(j))
    /\ SF_vars(\E j \in Jobs : ReadMeta(j, TRUE))
    /\ \A s \in Sources :
         /\ SF_vars(\E j \in Jobs : NotModified(j, s) \/ Downloaded(j, s))
         /\ SF_vars(\E j \in Jobs : ReplaceFile(j, s, TRUE))
    /\ SF_vars(\E j \in Jobs : Reload(j) /\ db' = file)
    /\ <>[][\A j \in Jobs, s \in Sources : ~RemoveFile(j, s)]_vars

-----------------------------------------------------------------------------
(* Properties *)

Types ==
    /\ remote \in [Sources -> Version]
    /\ file \in [Sources -> Version]
    /\ meta \in [Sources -> Version]
    /\ fresh \in SUBSET Sources
    /\ volatile \in SUBSET Sources
    /\ up \in BOOLEAN
    /\ db \in [Sources -> Version]
    /\ running \in BOOLEAN
    /\ status \in Status
    /\ starts \in Nat
    /\ pc \in [Updaters -> {"idle", "begin", "download", "replace", "removed",
                            "reload", "free", "report"}]
    /\ source \in [Updaters -> 1..NumSources + 1]
    /\ etags \in [Updaters -> [Sources -> Version]]
    /\ got \in [Updaters -> Version]
    /\ failed \in [Updaters -> BOOLEAN]
    /\ unreadable \in SUBSET Sources
    /\ lost \in SUBSET Sources
    /\ overlap \in SUBSET Updaters
    /\ raced \in SUBSET Sources

\* The types; at most one update of the daemon works on the files at a time
\* (Coordinator.running).
TypeOK ==
    /\ Types
    /\ \A j, k \in Jobs : Working(j) /\ Working(k) => j = k

\* A stored ETag vouches for the file: a source that would be answered 304 is
\* in its file, wherever an update failed half-way or the process ended, also
\* where the file or the metadata has been removed and not yet replaced
\* (downloadOne, replaceFile, the order of files and metadata in Update).  An
\* older ETag may be left without its file: the next update downloads it.  Not
\* spoken for: a file that a power loss has emptied, as Update does not sync it,
\* and one that two processes have updated at the same time.
EtagVouchesForFile ==
    \A s \in Sources \ (lost \cup raced) :
        meta[s] = remote[s] => file[s] = meta[s]

\* While no update works on the files, lookups use what is installed, also
\* after an update that failed in part or has left a file removed; only a file
\* that could not be read is missing, and if none could be read the old contents
\* are kept (Reload after every Update, and at the start).
LookupsUseFiles ==
    up /\ ~running => \A s \in Sources \ unreadable : db[s] = file[s]

\* The lookups of a running daemon are up to date again and again, with every
\* source at once, whatever failed before: a publication arrives in the end, and
\* what one update could not get a later one does (autoUpdate, the ETags, Reload).
UpdatesArrive ==
    []<>(~up \/ \A s \in Sources \ lost : db[s] = remote[s])
=============================================================================
