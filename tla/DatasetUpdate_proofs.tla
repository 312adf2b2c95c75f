------------------------ MODULE DatasetUpdate_proofs ------------------------
(***************************************************************************)
(* Proofs about DatasetUpdate, for any number of sources, versions and     *)
(* starts: the daemon never runs two updates at once, a stored ETag vouches *)
(* for its file, and lookups use the files that are installed, as long as  *)
(* nothing but the daemon replaces them.                                   *)
(***************************************************************************)
EXTENDS DatasetUpdate, TLAPS

\* An update of the daemon that works on the files holds Coordinator.running,
\* and so there is one at most; the command has a process of its own.
Exclusive ==
    /\ \A j \in Jobs : Working(j) => running /\ up
    /\ \A j, k \in Jobs : Working(j) /\ Working(k) => j = k
    /\ ~WithTool => pc[Tool] = "idle"

(* What follows is about the versions on the disk, in the memory of the    *)
(* updates and published.                                                  *)

\* Whoever is not marked as overlapping works alone.
Alone ==
    \A u, v \in Updaters :
        Working(u) /\ Working(v) /\ u \notin overlap => u = v

\* The update has metadata in memory that it will write.
HoldsEtags(u) == pc[u] \in {"download", "replace", "removed"}

\* The update has downloaded what will replace the file it is at.
Replacing(u) == pc[u] \in {"replace", "removed"} /\ source[u] \in Sources

\* What EtagVouchesForFile says of the metadata on the disk, of any metadata m.
Vouches(m, s) ==
    /\ m[s] <= remote[s]
    /\ s \notin lost \cup raced /\ m[s] = remote[s] => file[s] = m[s]

\* What is downloaded is newer than the ETag it was asked for with.
Newer(u) ==
    /\ pc[u] = "replace" => source[u] \in Sources
    /\ Replacing(u) => /\ etags[u][source[u]] < got[u]
                       /\ got[u] <= remote[source[u]]

\* The ETags of the sources that are still to be done are those on the disk.
Rest(u) ==
    HoldsEtags(u) =>
        \A s \in Sources : s >= source[u] => etags[u][s] = meta[s]

EtagInv ==
    /\ Alone
    /\ \A s \in Sources : remote[s] >= 1
    /\ \A s \in Sources : Vouches(meta, s)
    /\ \A u \in Updaters, s \in Sources : HoldsEtags(u) => Vouches(etags[u], s)
    /\ \A u \in Updaters : Newer(u)
    /\ \A u \in Updaters \ overlap : Rest(u)

\* An update of the daemon has not yet loaded the files it may have replaced.
Unloaded(j) == pc[j] \in {"begin", "download", "replace", "removed", "reload"}

LookupInv ==
    up /\ (\A j \in Jobs : ~Unloaded(j)) =>
        \A s \in Sources \ unreadable : db[s] = file[s]

-----------------------------------------------------------------------------
(* Types *)

LEMMA NoneType == None \in [Sources -> Version] /\ 0 \in Version
<1>1. 0 \in Version
  BY BoundsAssumption DEF Version
<1> QED
  BY <1>1 DEF None

LEMMA TypesInit == Init => Types
<1> SUFFICES ASSUME Init PROVE Types
  OBVIOUS
<1>1. 1 \in Version /\ 1 \in 1..NumSources + 1
  BY BoundsAssumption DEF Version
<1>2. status \in Status
  BY DEF Init, Status
<1> QED
  BY <1>1, <1>2, NoneType DEF Init, Types

\* The updates of gone processes.
LEMMA TypesForget ==
    ASSUME Types, NEW gone, Forget(gone)
    PROVE  /\ pc' \in [Updaters -> {"idle", "begin", "download", "replace",
                                    "removed", "reload", "free", "report"}]
           /\ source' \in [Updaters -> 1..NumSources + 1]
           /\ etags' \in [Updaters -> [Sources -> Version]]
           /\ got' \in [Updaters -> Version]
           /\ failed' \in [Updaters -> BOOLEAN]
           /\ overlap' \in SUBSET Updaters
<1>1. 1 \in 1..NumSources + 1
  BY BoundsAssumption
<1> QED
  BY <1>1, NoneType DEF Forget, Types

LEMMA TypesBegin ==
    ASSUME Types, NEW u \in Updaters, Begin(u)
    PROVE  /\ pc' \in [Updaters -> {"idle", "begin", "download", "replace",
                                    "removed", "reload", "free", "report"}]
           /\ overlap' \in SUBSET Updaters
<1> DEFINE others == {v \in Updaters \ {u} : Working(v)}
<1>1. overlap' \in {overlap, overlap \cup others \cup {u}}
  BY DEF Begin
<1>2. others \subseteq Updaters
  OBVIOUS
<1> HIDE DEF others
<1>3. overlap' \in SUBSET Updaters
  BY <1>1, <1>2 DEF Types
<1> QED
  BY <1>3 DEF Begin, Goto, Types

LEMMA TypesGone ==
    ASSUME DaemonGone
    PROVE  /\ up' \in BOOLEAN
           /\ db' \in [Sources -> Version]
           /\ running' \in BOOLEAN
           /\ status' \in Status
           /\ unreadable' \in SUBSET Sources
<1>1. status' \in Status
  BY DEF DaemonGone, Status
<1> QED
  BY <1>1, NoneType DEF DaemonGone

LEMMA LoadedType ==
    ASSUME Types, NEW bad
    PROVE  Loaded(bad) \in [Sources -> Version]
BY BoundsAssumption DEF Types, Loaded, Version

LEMMA PastType ==
    ASSUME Types, NEW u \in Updaters, source[u] \in Sources, Past(u)
    PROVE  source' \in [Updaters -> 1..NumSources + 1]
<1>1. source[u] + 1 \in 1..NumSources + 1
  BY BoundsAssumption DEF Sources
<1> QED
  BY <1>1 DEF Past, Types

\* The types are kept by every step of an update.
LEMMA TypesUpdate ==
    ASSUME Types, NEW u \in Updaters, UpdateStep(u)
    PROVE  Types'
<1> USE DEF disk, daemon, work, history
<1>1. ASSUME NEW ok \in BOOLEAN, ReadMeta(u, ok) PROVE Types'
  BY <1>1 DEF ReadMeta, Goto, Types
<1>2. CASE RequestFails(u)
  <2>1. source' \in [Updaters -> 1..NumSources + 1]
    BY <1>2, PastType DEF RequestFails
  <2> QED
    BY <1>2, <2>1 DEF RequestFails, Types
<1>3. ASSUME NEW s \in Sources, NotModified(u, s) PROVE Types'
  <2>1. source' \in [Updaters -> 1..NumSources + 1]
    BY <1>3, PastType DEF NotModified
  <2> QED
    BY <1>3, <2>1 DEF NotModified, Types
<1>4. ASSUME NEW s \in Sources, Downloaded(u, s) PROVE Types'
  BY <1>4 DEF Downloaded, Goto, Types
<1>5. ASSUME NEW s \in Sources, NEW ok \in BOOLEAN, ReplaceFile(u, s, ok)
      PROVE  Types'
  <2>1. source' \in [Updaters -> 1..NumSources + 1]
    BY <1>5, PastType DEF ReplaceFile
  <2>2. etags' \in [Updaters -> [Sources -> Version]]
    BY <1>5 DEF ReplaceFile, Recorded, Types
  <2>3. got' \in [Updaters -> Version]
    BY <1>5, BoundsAssumption DEF ReplaceFile, Types, Version
  <2>4. file' \in [Sources -> Version]
    BY <1>5 DEF ReplaceFile, Types
  <2>5. /\ fresh' \in SUBSET Sources
        /\ volatile' \in SUBSET Sources
        /\ lost' \in SUBSET Sources
        /\ raced' \in SUBSET Sources
        /\ failed' \in [Updaters -> BOOLEAN]
    BY <1>5 DEF ReplaceFile, Types
  <2>6. pc' \in [Updaters -> {"idle", "begin", "download", "replace",
                               "removed", "reload", "free", "report"}]
    BY <1>5 DEF ReplaceFile, Goto, Types
  <2> QED
    BY <1>5, <2>1, <2>2, <2>3, <2>4, <2>5, <2>6 DEF ReplaceFile, Types
<1>6. CASE WriteMeta(u)
  <2>1. meta' \in [Sources -> Version]
    BY <1>6 DEF WriteMeta, Types
  <2>2. source' \in [Updaters -> 1..NumSources + 1]
    BY <1>6, BoundsAssumption DEF WriteMeta, Types
  <2>3. etags' \in [Updaters -> [Sources -> Version]]
    BY <1>6, NoneType DEF WriteMeta, Types
  <2> QED
    BY <1>6, <2>1, <2>2, <2>3 DEF WriteMeta, Goto, Types
<1>7. ASSUME NEW s \in Sources, RemoveFile(u, s) PROVE Types'
  <2>1. file' \in [Sources -> Version]
    BY <1>7, NoneType DEF RemoveFile, Types
  <2>2. raced' \in SUBSET Sources
    BY <1>7 DEF RemoveFile, Types
  <2> QED
    BY <1>7, <2>1, <2>2 DEF RemoveFile, Goto, Types
<1>8. CASE RemoveMeta(u)
  BY <1>8, NoneType DEF RemoveMeta, Goto, Types
<1> QED
  BY <1>1, <1>2, <1>3, <1>4, <1>5, <1>6, <1>7, <1>8 DEF UpdateStep

\* What a reload leaves alone, and what it loads.
LEMMA ReloadStep ==
    ASSUME NEW j \in Jobs, Reload(j)
    PROVE  /\ pc[j] = "reload"
           /\ pc' = [pc EXCEPT ![j] = "free"]
           /\ UNCHANGED <<remote, file, meta, fresh, volatile, up, running,
                          starts, source, etags, got, lost, overlap, raced>>
BY Zenon DEF Reload, Goto, disk

LEMMA ReloadLoads ==
    ASSUME NEW j \in Jobs, Reload(j)
    PROVE  \E bad \in SUBSET Present :
             \/ /\ unreadable' = Sources
                /\ db' = db
                /\ status' = [status EXCEPT !.error = TRUE]
                /\ failed' = [failed EXCEPT ![j] = TRUE]
             \/ /\ unreadable' = bad
                /\ db' = Loaded(bad)
                /\ status' = [status EXCEPT
                                !.error = @ \/ bad # {},
                                !.due = fresh \cap (Present \ bad) = {}]
                /\ failed' = failed
BY Zenon DEF Reload, Reloaded

\* The types are kept by every step.
LEMMA TypesNext ==
    ASSUME Types, [Next]_vars
    PROVE  Types'
<1> USE DEF disk, daemon, work, history
<1>1. CASE Age
  BY <1>1 DEF Age, Types, Status
<1>2. CASE Start
  <2>1. PICK bad \in SUBSET Present :
          /\ unreadable' = bad
          /\ db' = Loaded(bad)
          /\ status' = [running |-> FALSE, error |-> bad # {},
                        due |-> fresh \cap (Present \ bad) = {}]
    BY <1>2 DEF Start
  <2>2. unreadable' \in SUBSET Sources
    BY <2>1 DEF Present
  <2>3. db' \in [Sources -> Version]
    BY <2>1, LoadedType
  <2>4. status' \in Status
    BY <2>1 DEF Status
  <2>5. starts' \in Nat
    BY <1>2 DEF Start, Types
  <2> QED
    BY <1>2, <2>2, <2>3, <2>4, <2>5 DEF Start, Types
<1>3. CASE Crash
  BY <1>3, TypesForget, TypesGone DEF Crash, Types
<1>4. CASE Writeback
  BY <1>4 DEF Writeback, Types
<1>5. CASE PowerLoss
  <2>1. PICK emptied \in SUBSET volatile :
          /\ file' = [s \in Sources |-> IF s \in emptied THEN 0 ELSE file[s]]
          /\ lost' = lost \cup emptied
    BY <1>5 DEF PowerLoss
  <2>2. file' \in [Sources -> Version]
    BY <2>1, BoundsAssumption DEF Types, Version
  <2>3. lost' \in SUBSET Sources
    BY <2>1 DEF Types
  <2> QED
    BY <1>5, <2>2, <2>3, TypesForget, TypesGone DEF PowerLoss, Types
<1>6. ASSUME NEW s \in Sources, Publish(s) PROVE Types'
  BY <1>6, BoundsAssumption DEF Publish, Types, Version
<1>7. ASSUME NEW j \in Jobs, Trigger(j) PROVE Types'
  BY <1>7, TypesBegin DEF Trigger, Types, Status, Updaters
<1>8. ASSUME NEW j \in Jobs, Reload(j) PROVE Types'
  <2>1. PICK bad \in SUBSET Present :
             \/ /\ unreadable' = Sources
                /\ db' = db
                /\ status' = [status EXCEPT !.error = TRUE]
                /\ failed' = [failed EXCEPT ![j] = TRUE]
             \/ /\ unreadable' = bad
                /\ db' = Loaded(bad)
                /\ status' = [status EXCEPT
                                !.error = @ \/ bad # {},
                                !.due = fresh \cap (Present \ bad) = {}]
                /\ failed' = failed
    BY <1>8, ReloadLoads, Zenon
  <2>2. unreadable' \in SUBSET Sources
    BY <2>1, Zenon DEF Present
  <2>3. db' \in [Sources -> Version]
    BY <2>1, LoadedType DEF Types
  <2>4. status' \in Status
    BY <2>1 DEF Status, Types
  <2>5. failed' \in [Updaters -> BOOLEAN]
    BY <2>1 DEF Types
  <2> QED
    BY <1>8, <2>2, <2>3, <2>4, <2>5, ReloadStep DEF Types, Updaters
<1>9. ASSUME NEW j \in Jobs, Free(j) PROVE Types'
  BY <1>9 DEF Free, Goto, Types
<1>10. ASSUME NEW j \in Jobs, Report(j) PROVE Types'
  <2>1. status' \in Status
    BY <1>10 DEF Report, Types, Status, Updaters
  <2> QED
    BY <1>10, <2>1 DEF Report, Goto, Types
<1>11. CASE UpdateSync
  BY <1>11, TypesBegin DEF UpdateSync, Types, Updaters
<1>12. CASE ToolReturns
  BY <1>12 DEF ToolReturns, Goto, Types
<1>13. CASE ToolCrash
  BY <1>13, TypesForget DEF ToolCrash, Types
<1>14. CASE UNCHANGED vars
  BY <1>14 DEF vars, Types
<1> QED
  BY <1>1, <1>2, <1>3, <1>4, <1>5, <1>6, <1>7, <1>8, <1>9, <1>10, <1>11,
     <1>12, <1>13, <1>14, TypesUpdate DEF Next, JobStep, Check, Updaters

-----------------------------------------------------------------------------
(* One update of the daemon at a time *)

LEMMA ExclusiveInit == Init => Exclusive
BY DEF Init, Exclusive, Working, Updaters

\* The steps within an update neither start nor end it.
LEMMA ExclusiveUpdate ==
    ASSUME Types, Exclusive, NEW u \in Updaters, UpdateStep(u)
    PROVE  Exclusive'
<1>1. /\ pc[u] \in {"begin", "download", "replace", "removed"}
      /\ \/ pc' = pc
         \/ \E step \in {"download", "replace", "removed", "reload"} :
              Goto(u, step)
      /\ UNCHANGED <<up, running>>
  BY DEF UpdateStep, ReadMeta, RequestFails, NotModified, Downloaded,
         ReplaceFile, RemoveFile, WriteMeta, RemoveMeta, daemon, Goto
<1>2. \A v \in Updaters : Working(v)' = Working(v)
  BY <1>1 DEF Types, Goto, Working
<1>3. ~WithTool => pc'[Tool] = "idle"
  BY <1>1 DEF Types, Exclusive, Goto, Updaters
<1> QED
  BY <1>1, <1>2, <1>3 DEF Exclusive, Updaters

LEMMA ExclusiveNext ==
    ASSUME Types, Exclusive, [Next]_vars
    PROVE  Exclusive'
<1> USE UpdaterAssumption DEF disk, daemon, work, history, Goto, Begin
<1>1. CASE UNCHANGED <<pc, up, running>>
  BY <1>1 DEF Exclusive, Working
<1>2. ASSUME NEW gone, Jobs \subseteq gone, Forget(gone)
      PROVE  Exclusive'
  BY <1>2 DEF Forget, Exclusive, Working, Updaters
<1>3. CASE Start
  BY <1>3 DEF Start, Exclusive, Working
<1>4. CASE Crash
  BY <1>2, <1>4 DEF Crash
<1>5. CASE PowerLoss
  BY <1>2, <1>5 DEF PowerLoss, Updaters
<1>6. ASSUME NEW j \in Jobs, Trigger(j) PROVE Exclusive'
  <2>1. \A k \in Jobs : ~Working(k)
    BY <1>6 DEF Trigger, Accepted, Exclusive
  <2> QED
    BY <1>6, <2>1 DEF Trigger, Exclusive, Working, Types, Updaters
<1>7. ASSUME NEW j \in Jobs, Reload(j) PROVE Exclusive'
  <2>1. pc[j] = "reload" /\ pc' = [pc EXCEPT ![j] = "free"]
    BY <1>7, ReloadStep
  <2>2. \A k \in Jobs : Working(k)' = Working(k)
    BY <2>1 DEF Working, Types, Updaters
  <2> QED
    BY <1>7, <2>1, <2>2, ReloadStep DEF Exclusive, Types, Updaters
<1>8. ASSUME NEW j \in Jobs, Free(j) PROVE Exclusive'
  <2>1. Working(j)
    BY <1>8 DEF Free, Working
  <2>2. \A k \in Jobs : ~Working(k)'
    BY <1>8, <2>1 DEF Free, Working, Exclusive, Types, Updaters
  <2> QED
    BY <1>8, <2>2 DEF Free, Exclusive, Types, Updaters
<1>9. ASSUME NEW j \in Jobs, Report(j) PROVE Exclusive'
  <2>1. \A k \in Jobs : Working(k)' = Working(k)
    BY <1>9 DEF Report, Working, Types, Updaters
  <2> QED
    BY <1>9, <2>1 DEF Report, Exclusive, Types, Updaters
<1>10. CASE UpdateSync
  <2>1. \A k \in Jobs : Working(k)' = Working(k)
    BY <1>10 DEF UpdateSync, Working, Types, Updaters
  <2> QED
    BY <1>10, <2>1 DEF UpdateSync, Exclusive
<1>11. ASSUME pc' = [pc EXCEPT ![Tool] = "idle"], UNCHANGED <<up, running>>
       PROVE  Exclusive'
  <2>1. \A k \in Jobs : Working(k)' = Working(k)
    BY <1>11 DEF Working, Types, Updaters
  <2> QED
    BY <1>11, <2>1 DEF Exclusive, Types, Updaters
<1>12. CASE ToolReturns
  BY <1>11, <1>12 DEF ToolReturns
<1>13. CASE ToolCrash
  <2>1. pc' = [pc EXCEPT ![Tool] = "idle"]
    BY <1>13 DEF ToolCrash, Forget, Types, Updaters
  <2> QED
    BY <1>11, <1>13, <2>1 DEF ToolCrash
<1>14. CASE Age \/ Writeback \/ (\E s \in Sources : Publish(s))
            \/ UNCHANGED vars
  BY <1>1, <1>14 DEF Age, Writeback, Publish, vars
<1> QED
  BY <1>3, <1>4, <1>5, <1>6, <1>7, <1>8, <1>9, <1>10, <1>12, <1>13, <1>14,
     ExclusiveUpdate DEF Next, JobStep, Check, Updaters

\* Every variable has its type, and the daemon never runs two updates at a
\* time, whatever ends first, its goroutine or the report on it (Coordinator).
THEOREM TypeCorrect == Spec => []TypeOK
<1>1. Init => Types /\ Exclusive
  BY TypesInit, ExclusiveInit
<1>2. Types /\ Exclusive /\ [Next]_vars => (Types /\ Exclusive)'
  BY TypesNext, ExclusiveNext
<1>3. Types /\ Exclusive => TypeOK
  BY DEF TypeOK, Exclusive
<1> QED
  BY <1>1, <1>2, <1>3, PTL DEF Spec

-----------------------------------------------------------------------------
(* Alone *)

LEMMA AloneInit == Init => Alone
BY DEF Init, Alone, Working

LEMMA AloneBegin ==
    ASSUME Types, Alone, NEW u \in Updaters, Begin(u)
    PROVE  Alone'
<1> DEFINE others == {v \in Updaters \ {u} : Working(v)}
<1>1. overlap' = IF others = {} THEN overlap ELSE overlap \cup others \cup {u}
  BY DEF Begin
<1>2. \A v \in Updaters \ {u} : Working(v)' = Working(v)
  BY DEF Begin, Goto, Working, Types
<1>3. CASE others = {}
  BY <1>1, <1>2, <1>3 DEF Alone
<1>4. CASE others # {}
  <2>1. \A v \in Updaters : Working(v)' => v \in overlap'
    BY <1>1, <1>2, <1>4
  <2> QED
    BY <2>1 DEF Alone
<1> QED
  BY <1>3, <1>4

\* Nobody begins, and marks go away only from those who end.
LEMMA AloneFrame ==
    ASSUME Alone,
           \A u \in Updaters : Working(u)' =>
             Working(u) /\ (u \in overlap => u \in overlap')
    PROVE  Alone'
BY DEF Alone

LEMMA AloneNext ==
    ASSUME Types, Alone, [Next]_vars
    PROVE  Alone'
<1> USE DEF disk, daemon, work, history, Goto
<1>1. ASSUME NEW u \in Updaters, UpdateStep(u) PROVE Alone'
  <2>1. /\ pc[u] \in {"begin", "download", "replace", "removed"}
        /\ \/ pc' = pc
           \/ \E step \in {"download", "replace", "removed", "reload"} :
                pc' = [pc EXCEPT ![u] = step]
        /\ overlap' = overlap
    BY <1>1 DEF UpdateStep, ReadMeta, RequestFails, NotModified, Downloaded,
                ReplaceFile, RemoveFile, WriteMeta, RemoveMeta
  <2>2. \A v \in Updaters : Working(v)' => Working(v)
    BY <2>1 DEF Working, Types
  <2> QED
    BY <2>1, <2>2, AloneFrame
<1>2. ASSUME NEW gone, Forget(gone) PROVE Alone'
  BY <1>2, AloneFrame DEF Forget, Working
<1>3. CASE Crash \/ ToolCrash \/ PowerLoss
  BY <1>2, <1>3 DEF Crash, ToolCrash, PowerLoss
<1>4. ASSUME NEW u \in Updaters, NEW step \in {"idle", "report", "free"},
             Working(u) \/ step # "free",
             pc' = [pc EXCEPT ![u] = step],
             overlap' = overlap \/ (step # "free" /\ overlap' = overlap \ {u})
      PROVE  Alone'
  <2>1. \A v \in Updaters : Working(v)' =>
          Working(v) /\ (v \in overlap => v \in overlap')
    BY <1>4 DEF Working, Types
  <2> QED
    BY <2>1, AloneFrame
<1>5. ASSUME NEW j \in Jobs, Reload(j) PROVE Alone'
  <2>1. Working(j)
    BY <1>5, ReloadStep DEF Working
  <2> QED
    BY <1>4, <1>5, <2>1, ReloadStep DEF Updaters
<1>6. ASSUME NEW j \in Jobs, Free(j) \/ Report(j) PROVE Alone'
  BY <1>4, <1>6 DEF Free, Report, Updaters
<1>7. CASE ToolReturns
  BY <1>4, <1>7 DEF ToolReturns, Updaters
<1>8. CASE UpdateSync \/ \E j \in Jobs : Trigger(j)
  BY <1>8, AloneBegin DEF UpdateSync, Trigger, Updaters
<1>9. CASE Age \/ Start \/ Writeback \/ (\E s \in Sources : Publish(s))
           \/ UNCHANGED vars
  BY <1>9 DEF Age, Start, Writeback, Publish, vars, Alone, Working
<1> QED
  BY <1>1, <1>3, <1>5, <1>6, <1>7, <1>8, <1>9 DEF Next, JobStep, Check, Updaters

-----------------------------------------------------------------------------
(* ETags *)

LEMMA EtagInvInit == Init => EtagInv
<1> SUFFICES ASSUME Init PROVE EtagInv
  OBVIOUS
<1>1. \A s \in Sources : remote[s] = 1 /\ meta[s] = 0
  BY DEF Init, None
<1>2. \A u \in Updaters : ~HoldsEtags(u) /\ ~Replacing(u) /\ pc[u] # "replace"
  BY DEF Init, HoldsEtags, Replacing
<1> QED
  BY <1>1, <1>2, AloneInit DEF EtagInv, Vouches, Newer, Rest

\* Steps that replace no file and no metadata: metadata is read, versions are
\* published, updates begin, a power loss empties files, and processes end.
EtagFrame ==
    /\ \A s \in Sources : remote'[s] >= remote[s]
    /\ \A s \in Sources \ (lost' \cup raced') :
         s \notin lost \cup raced /\ file'[s] = file[s]
    /\ meta' = meta
    /\ \A u \in Updaters :
         /\ pc'[u] = "replace" => pc[u] = "replace"
         /\ pc'[u] = "removed" => pc[u] = "removed"
         /\ pc'[u] \in {"replace", "removed"} =>
              /\ source'[u] = source[u]
              /\ got'[u] = got[u]
              /\ etags'[u] = etags[u]
         /\ HoldsEtags(u)' =>
              \/ etags'[u] = meta
              \/ /\ HoldsEtags(u)
                 /\ etags'[u] = etags[u]
                 /\ source'[u] >= source[u]
                 /\ u \in overlap => u \in overlap'

LEMMA Numbers ==
    ASSUME Types
    PROVE  /\ \A s \in Sources : remote[s] \in Nat /\ meta[s] \in Nat
           /\ \A u \in Updaters : got[u] \in Nat /\ source[u] \in Nat
           /\ \A u \in Updaters, s \in Sources : etags[u][s] \in Nat
           /\ NumSources \in Nat
           /\ \A s \in Sources : s \in Nat
<1>1. NumSources \in Nat /\ MaxVersion \in Nat
  BY BoundsAssumption
<1>2. Version \subseteq Nat /\ 1..NumSources + 1 \subseteq Nat
  BY <1>1 DEF Version
<1>3. \A s \in Sources : s \in Nat
  BY <1>1 DEF Sources
<1>4. \A s \in Sources : remote[s] \in Nat /\ meta[s] \in Nat
  BY <1>2 DEF Types
<1>5. \A u \in Updaters : got[u] \in Nat /\ source[u] \in Nat
  BY <1>2 DEF Types
<1>6. \A u \in Updaters, s \in Sources : etags[u][s] \in Nat
  BY <1>2 DEF Types
<1> QED
  BY <1>1, <1>3, <1>4, <1>5, <1>6

LEMMA EtagInvFrame ==
    ASSUME Types, Types', Alone', EtagInv, EtagFrame
    PROVE  EtagInv'
<1>1. /\ \A s \in Sources : remote[s] \in Nat /\ remote'[s] \in Nat
      /\ \A u \in Updaters : got[u] \in Nat
      /\ \A u \in Updaters : source[u] \in Nat /\ source'[u] \in Nat
      /\ \A s \in Sources : s \in Nat
  BY Numbers, BoundsAssumption DEF Types, Version
<1>2. \A s \in Sources : remote'[s] >= 1
  BY <1>1 DEF EtagInv, EtagFrame
<1>3. ASSUME NEW m \in [Sources -> Version], NEW s \in Sources, Vouches(m, s)
      PROVE  /\ m[s] <= remote'[s]
             /\ s \notin lost' \cup raced' /\ m[s] = remote'[s] => file'[s] = m[s]
  <2>1. m[s] \in Nat
    BY BoundsAssumption DEF Version
  <2>2. m[s] <= remote[s] /\ remote[s] <= remote'[s]
    BY <1>1, <1>3 DEF Vouches, EtagFrame
  <2>3. m[s] <= remote'[s] /\ (m[s] = remote'[s] => m[s] = remote[s])
    BY <1>1, <2>1, <2>2
  <2> QED
    BY <1>3, <2>3 DEF Vouches, EtagFrame
<1>4. ASSUME NEW s \in Sources PROVE Vouches(meta, s)'
  <2>1. meta \in [Sources -> Version] /\ Vouches(meta, s) /\ meta' = meta
    BY DEF EtagFrame, EtagInv, Types
  <2> QED
    BY <1>3, <2>1 DEF Vouches
<1>5. ASSUME NEW u \in Updaters, NEW s \in Sources, HoldsEtags(u)'
      PROVE  Vouches(etags[u], s)'
  <2>1. PICK m \in [Sources -> Version] : Vouches(m, s) /\ etags'[u] = m
    BY <1>5 DEF EtagFrame, EtagInv, Types
  <2> QED
    BY <1>3, <2>1 DEF Vouches
<1>6. ASSUME NEW u \in Updaters PROVE Newer(u)'
  <2>1. Newer(u)
    BY DEF EtagInv
  <2>2. pc'[u] = "replace" => source'[u] \in Sources
    BY <2>1 DEF Newer, EtagFrame
  <2>3. ASSUME Replacing(u)'
        PROVE  etags'[u][source'[u]] < got'[u] /\ got'[u] <= remote'[source'[u]]
    <3>1. /\ Replacing(u)
          /\ source'[u] = source[u] /\ got'[u] = got[u] /\ etags'[u] = etags[u]
          /\ source[u] \in Sources
      BY <2>3 DEF Replacing, EtagFrame
    <3>2. got[u] <= remote'[source[u]]
      BY <1>1, <2>1, <3>1 DEF Newer, EtagFrame
    <3> QED
      BY <2>1, <3>1, <3>2 DEF Newer
  <2> QED
    BY <2>2, <2>3 DEF Newer
<1>7. ASSUME NEW u \in Updaters, u \notin overlap' PROVE Rest(u)'
  <2>1. SUFFICES ASSUME HoldsEtags(u)', NEW s \in Sources, s >= source'[u]
                 PROVE  etags'[u][s] = meta'[s]
    BY DEF Rest
  <2>2. CASE etags'[u] = meta
    BY <2>2 DEF EtagFrame
  <2>3. CASE etags'[u] # meta
    <3>1. /\ HoldsEtags(u) /\ etags'[u] = etags[u] /\ u \notin overlap
          /\ source'[u] >= source[u]
      BY <1>7, <2>1, <2>3 DEF EtagFrame
    <3>2. s >= source[u]
      BY <1>1, <2>1, <3>1
    <3> QED
      BY <3>1, <3>2 DEF EtagInv, Rest, EtagFrame
  <2> QED
    BY <2>2, <2>3
<1> QED
  BY <1>2, <1>4, <1>5, <1>6, <1>7 DEF EtagInv

LEMMA EtagInvDownloaded ==
    ASSUME Types, Types', Alone', EtagInv, NEW u \in Updaters, NEW s \in Sources,
           Downloaded(u, s)
    PROVE  EtagInv'
<1> USE DEF disk, daemon, history
<1>1. /\ UNCHANGED <<remote, meta, etags, file, lost, raced, overlap, source>>
      /\ pc[u] = "download" /\ source[u] = s /\ etags[u][s] # remote[s]
  BY DEF Downloaded
<1>2. /\ pc'[u] = "replace" /\ got'[u] = remote[s]
      /\ \A v \in Updaters \ {u} : pc'[v] = pc[v] /\ got'[v] = got[v]
  BY DEF Downloaded, Goto, Types
<1>3. \A v \in Updaters : HoldsEtags(v)' = HoldsEtags(v)
  BY <1>1, <1>2 DEF HoldsEtags
<1>4. ASSUME NEW v \in Updaters PROVE Newer(v)'
  <2>1. CASE v = u
    <3>1. etags[u][s] <= remote[s]
      BY <1>1 DEF EtagInv, HoldsEtags, Vouches
    <3>2. etags[u][s] < remote[s] /\ remote[s] <= remote[s]
      BY <1>1, <3>1, Numbers
    <3> QED
      BY <1>1, <1>2, <2>1, <3>2 DEF Newer
  <2>2. CASE v # u
    BY <1>1, <1>2, <2>2 DEF EtagInv, Newer, Replacing
  <2> QED
    BY <2>1, <2>2
<1> QED
  BY <1>1, <1>3, <1>4 DEF EtagInv, Vouches, Rest

\* A file is replaced, or removed, by an update that is marked or alone.  Alone
\* it is what vouches: no ETag for the file is as new as its download.
LEMMA OldEtags ==
    ASSUME Types, EtagInv, NEW u \in Updaters, NEW s \in Sources,
           Replacing(u), source[u] = s, u \notin overlap
    PROVE  /\ meta[s] < got[u] /\ etags[u][s] < got[u] /\ got[u] <= remote[s]
           /\ meta[s] # remote[s] /\ etags[u][s] # remote[s]
           /\ \A v \in Updaters \ {u} : ~HoldsEtags(v)
<1>1. HoldsEtags(u)
  BY DEF Replacing, HoldsEtags
<1>2. \A v \in Updaters : HoldsEtags(v) => Working(v)
  BY DEF HoldsEtags, Working
<1>3. etags[u][s] < got[u] /\ got[u] <= remote[s]
  BY DEF EtagInv, Newer
<1>4. etags[u][s] = meta[s]
  BY <1>1, Numbers DEF EtagInv, Rest
<1>5. \A v \in Updaters \ {u} : ~HoldsEtags(v)
  BY <1>1, <1>2 DEF EtagInv, Alone
<1> QED
  BY <1>3, <1>4, <1>5, Numbers

LEMMA EtagInvReplaceFile ==
    ASSUME Types, Types', Alone', EtagInv,
           NEW u \in Updaters, NEW s \in Sources, NEW ok \in BOOLEAN,
           ReplaceFile(u, s, ok)
    PROVE  EtagInv'
<1>1. /\ UNCHANGED <<remote, meta, overlap>>
      /\ Replacing(u) /\ HoldsEtags(u) /\ source[u] = s
      /\ pc'[u] = "download" /\ source'[u] = s + 1
      /\ \A v \in Updaters \ {u} :
           /\ pc'[v] = pc[v]
           /\ got'[v] = got[v]
           /\ source'[v] = source[v]
           /\ etags'[v] = etags[v]
  BY DEF ReplaceFile, Replacing, HoldsEtags, Goto, Types, Past, Recorded
<1>2. \A v \in Updaters : HoldsEtags(v)' = HoldsEtags(v)
  BY <1>1 DEF HoldsEtags
<1>3. \A r \in Sources \ {s} :
        /\ file'[r] = file[r]
        /\ r \in lost' <=> r \in lost
        /\ r \in raced' <=> r \in raced
        /\ etags'[u][r] = etags[u][r]
  BY DEF ReplaceFile, Recorded, Types
<1>4. \A v \in Updaters : Newer(v)'
  BY <1>1 DEF EtagInv, Newer, Replacing
<1>5. \A v \in Updaters \ overlap' : Rest(v)'
  <2>1. SUFFICES ASSUME NEW v \in Updaters \ overlap, HoldsEtags(v)',
                        NEW r \in Sources, r >= source'[v]
                 PROVE  etags'[v][r] = meta[r]
    BY <1>1 DEF Rest
  <2>2. CASE v = u
    <3>1. r # s /\ r >= source[u]
      BY <1>1, <2>1, <2>2, Numbers
    <3> QED
      BY <1>1, <1>2, <1>3, <2>1, <2>2, <3>1 DEF EtagInv, Rest
  <2>3. CASE v # u
    BY <1>1, <1>2, <2>1, <2>3 DEF EtagInv, Rest
  <2> QED
    BY <2>2, <2>3
<1>6. ASSUME NEW r \in Sources \ {s}
      PROVE  /\ Vouches(meta, r)'
             /\ \A v \in Updaters : HoldsEtags(v)' => Vouches(etags[v], r)'
  <2>1. Vouches(meta, r)'
    BY <1>1, <1>3 DEF EtagInv, Vouches
  <2>2. ASSUME NEW v \in Updaters, HoldsEtags(v)' PROVE Vouches(etags[v], r)'
    <3>1. Vouches(etags[v], r) /\ etags'[v][r] = etags[v][r]
      BY <1>1, <1>2, <1>3, <2>2 DEF EtagInv
    <3> QED
      BY <1>1, <1>3, <3>1 DEF Vouches
  <2> QED
    BY <2>1, <2>2
<1>7. got[u] <= remote[s]
  BY <1>1 DEF EtagInv, Newer
<1>8. /\ etags'[u][s] = IF ok THEN got[u] ELSE etags[u][s]
      /\ ok => file'[s] = got[u]
  BY <1>1 DEF ReplaceFile, Recorded, Types
<1>9. \A v \in Updaters : HoldsEtags(v)' => etags'[v][s] <= remote[s]
  BY <1>1, <1>2, <1>7, <1>8 DEF EtagInv, Vouches
<1>10. ASSUME s \notin lost' \cup raced'
       PROVE  /\ meta[s] = remote[s] => file'[s] = meta[s]
              /\ \A v \in Updaters : HoldsEtags(v)' /\ etags'[v][s] = remote[s] =>
                   file'[s] = etags'[v][s]
  <2>1. CASE u \notin overlap
    BY <1>1, <1>2, <1>8, <2>1, OldEtags
  <2>2. CASE u \in overlap
    <3>1. ~ok
      BY <1>10, <2>2 DEF ReplaceFile
    <3>2. UNCHANGED <<file, lost, raced>> /\ etags' = etags
      BY <3>1 DEF ReplaceFile, Recorded
    <3> QED
      BY <1>1, <1>2, <1>10, <3>2 DEF EtagInv, Vouches
  <2> QED
    BY <2>1, <2>2
<1>11. /\ Vouches(meta, s)'
       /\ \A v \in Updaters : HoldsEtags(v)' => Vouches(etags[v], s)'
  BY <1>1, <1>9, <1>10 DEF EtagInv, Vouches
<1> QED
  BY <1>1, <1>4, <1>5, <1>6, <1>11 DEF EtagInv

LEMMA EtagInvRemoveFile ==
    ASSUME Types, Types', Alone', EtagInv,
           NEW u \in Updaters, NEW s \in Sources, RemoveFile(u, s)
    PROVE  EtagInv'
<1> USE DEF work
<1>1. /\ UNCHANGED <<remote, meta, overlap, lost, source, etags, got>>
      /\ Replacing(u) /\ source[u] = s /\ pc[u] = "replace"
      /\ pc'[u] = "removed"
      /\ \A v \in Updaters \ {u} : pc'[v] = pc[v]
  BY DEF RemoveFile, Replacing, Goto, Types
<1>2. \A v \in Updaters : HoldsEtags(v)' = HoldsEtags(v)
  BY <1>1 DEF HoldsEtags
<1>3. \A r \in Sources \ {s} : file'[r] = file[r] /\ (r \in raced' <=> r \in raced)
  BY DEF RemoveFile, Types
<1>4. \A v \in Updaters : Newer(v)'
  BY <1>1 DEF EtagInv, Newer, Replacing
<1>5. \A v \in Updaters \ overlap' : Rest(v)'
  BY <1>1, <1>2 DEF EtagInv, Rest
<1>6. ASSUME NEW m, m = meta \/ \E v \in Updaters : HoldsEtags(v) /\ m = etags[v],
             NEW r \in Sources
      PROVE  /\ m[r] <= remote[r]
             /\ r \notin lost \cup raced' /\ m[r] = remote[r] => file'[r] = m[r]
  <2>1. Vouches(m, r)
    BY <1>6 DEF EtagInv
  <2>2. CASE r # s
    BY <1>3, <2>1, <2>2 DEF Vouches
  <2>3. CASE r = s /\ u \in overlap
    BY <2>1, <2>3 DEF Vouches, RemoveFile
  <2>4. CASE r = s /\ u \notin overlap
    <3>1. m[s] # remote[s]
      BY <1>1, <1>6, <2>4, OldEtags
    <3> QED
      BY <2>1, <2>4, <3>1 DEF Vouches
  <2> QED
    BY <2>2, <2>3, <2>4
<1>7. \A r \in Sources : Vouches(meta, r)'
  BY <1>1, <1>6 DEF Vouches
<1>8. \A v \in Updaters, r \in Sources : HoldsEtags(v)' => Vouches(etags[v], r)'
  BY <1>1, <1>2, <1>6 DEF Vouches
<1> QED
  BY <1>1, <1>4, <1>5, <1>7, <1>8 DEF EtagInv

\* The metadata is replaced by that of an update which is through with all
\* sources, or removed.
LEMMA EtagInvMeta ==
    ASSUME Types, Types', Alone', EtagInv, NEW u \in Updaters,
           WriteMeta(u) \/ RemoveMeta(u)
    PROVE  EtagInv'
<1> USE DEF work, history, Goto
<1>1. /\ UNCHANGED <<remote, file, lost, raced, overlap, got>>
      /\ HoldsEtags(u) /\ source[u] \notin Sources /\ pc[u] # "replace"
      /\ meta' \in {meta, etags[u], None}
      /\ pc'[u] \in {"reload", "removed"}
      /\ pc'[u] = "removed" => source'[u] = source[u] /\ etags'[u] = etags[u]
      /\ \A v \in Updaters \ {u} :
           pc'[v] = pc[v] /\ source'[v] = source[v] /\ etags'[v] = etags[v]
  BY DEF WriteMeta, RemoveMeta, HoldsEtags, Types
<1>2. \A v \in Updaters : HoldsEtags(v)' =>
        /\ HoldsEtags(v)
        /\ etags'[v] = etags[v]
        /\ source'[v] = source[v]
  BY <1>1 DEF HoldsEtags
<1>3. ASSUME NEW s \in Sources PROVE Vouches(meta, s)'
  <2>1. CASE meta' \in {meta, etags[u]}
    BY <1>1, <2>1 DEF EtagInv, Vouches
  <2>2. CASE meta' = None
    <3>1. meta'[s] = 0 /\ remote[s] >= 1 /\ remote[s] \in Nat
      BY <2>2, Numbers DEF None, EtagInv
    <3> QED
      BY <1>1, <3>1 DEF Vouches
  <2> QED
    BY <1>1, <2>1, <2>2
<1>4. \A v \in Updaters, s \in Sources : HoldsEtags(v)' => Vouches(etags[v], s)'
  BY <1>1, <1>2 DEF EtagInv, Vouches
<1>5. \A v \in Updaters : Newer(v)'
  BY <1>1 DEF EtagInv, Newer, Replacing
<1>6. ASSUME NEW v \in Updaters \ overlap PROVE Rest(v)'
  <2>1. SUFFICES ASSUME HoldsEtags(v)', NEW s \in Sources, s >= source'[v]
                 PROVE  etags'[v][s] = meta'[s]
    BY DEF Rest
  <2>2. v = u
    <3>1. Working(v) /\ Working(u)
      BY <1>1, <1>2, <2>1 DEF HoldsEtags, Working
    <3> QED
      BY <3>1 DEF EtagInv, Alone
  <2>3. source[u] = NumSources + 1
    <3>1. source[u] \in 1..NumSources + 1 /\ source[u] \notin 1..NumSources
      BY <1>1 DEF Types, Sources
    <3> QED
      BY <3>1, Numbers
  <2> QED
    BY <1>2, <2>1, <2>2, <2>3, Numbers DEF Sources
<1> QED
  BY <1>1, <1>3, <1>4, <1>5, <1>6 DEF EtagInv

\* The updates of gone processes hold nothing.
LEMMA ForgetFrame ==
    ASSUME Types, NEW gone, Forget(gone)
    PROVE  \A u \in Updaters :
             /\ pc'[u] = "replace" => pc[u] = "replace"
             /\ pc'[u] = "removed" => pc[u] = "removed"
             /\ pc'[u] # "idle" =>
                  /\ source'[u] = source[u]
                  /\ got'[u] = got[u]
                  /\ etags'[u] = etags[u]
                  /\ pc'[u] = pc[u]
                  /\ u \in overlap => u \in overlap'
BY DEF Forget

\* Steps outside the updates, and those that neither begin nor end one.
LEMMA EtagFrameOther ==
    ASSUME Types,
           UNCHANGED <<meta, source, etags, got>>,
           \A s \in Sources : remote'[s] >= remote[s],
           \A s \in Sources \ (lost' \cup raced') :
             s \notin lost \cup raced /\ file'[s] = file[s],
           \A u \in Updaters :
             /\ pc'[u] \in {"replace", "removed"} => pc'[u] = pc[u]
             /\ HoldsEtags(u)' =>
                  HoldsEtags(u) /\ (u \in overlap => u \in overlap')
    PROVE  EtagFrame
<1>1. \A u \in Updaters : source'[u] >= source[u]
  BY Numbers
<1> QED
  BY <1>1 DEF EtagFrame

LEMMA EtagInvNext ==
    ASSUME Types, Types', EtagInv, [Next]_vars
    PROVE  EtagInv'
<1> USE DEF disk, daemon, work, history, Goto
<1>0. Alone'
  BY AloneNext DEF EtagInv
<1>1. SUFFICES ASSUME \/ Age \/ Start \/ Crash \/ Writeback \/ PowerLoss
                      \/ \E s \in Sources : Publish(s)
                      \/ \E j \in Jobs : Trigger(j) \/ Reload(j) \/ Free(j)
                                           \/ Report(j)
                      \/ UpdateSync \/ ToolReturns \/ ToolCrash
                      \/ UNCHANGED vars
                      \/ \E u \in Updaters : \/ \E ok \in BOOLEAN : ReadMeta(u, ok)
                                             \/ RequestFails(u)
                                             \/ \E s \in Sources : NotModified(u, s)
               PROVE  EtagFrame
  BY <1>0, EtagInvFrame, EtagInvDownloaded, EtagInvReplaceFile,
     EtagInvRemoveFile, EtagInvMeta
     DEF Next, JobStep, UpdateStep, Check, Updaters
<1>2. \A s \in Sources : remote[s] \in Nat /\ remote[s] >= remote[s]
  BY Numbers
<1>3. ASSUME NEW s \in Sources, Publish(s) PROVE EtagFrame
  <2>1. \A r \in Sources : remote'[r] >= remote[r]
    BY <1>2, <1>3 DEF Publish, Types
  <2> QED
    BY <1>3, <2>1, EtagFrameOther DEF Publish, HoldsEtags
<1>4. CASE Crash
  BY <1>2, <1>4, ForgetFrame, Numbers
     DEF Crash, DaemonGone, EtagFrame, HoldsEtags
<1>5. CASE ToolCrash
  BY <1>2, <1>5, ForgetFrame, Numbers DEF ToolCrash, EtagFrame, HoldsEtags
<1>6. CASE PowerLoss
  BY <1>2, <1>6, ForgetFrame, Numbers
     DEF PowerLoss, DaemonGone, EtagFrame, HoldsEtags
<1>7. CASE Age \/ Writeback \/ Start \/ UNCHANGED vars
  BY <1>2, <1>7, EtagFrameOther DEF Age, Writeback, Start, vars, HoldsEtags
<1>8. ASSUME NEW u \in Updaters, Begin(u),
             UNCHANGED <<remote, file, meta, lost, raced, source, etags, got>>
      PROVE  EtagFrame
  <2>1. \A v \in Updaters :
          /\ pc'[v] \in {"replace", "removed"} => pc'[v] = pc[v]
          /\ HoldsEtags(v)' => HoldsEtags(v) /\ (v \in overlap => v \in overlap')
    BY <1>8 DEF Begin, HoldsEtags, Types
  <2> QED
    BY <1>2, <1>8, <2>1, EtagFrameOther
<1>9. CASE UpdateSync
  BY <1>8, <1>9 DEF UpdateSync, Updaters
<1>10. ASSUME NEW j \in Jobs, Trigger(j) PROVE EtagFrame
  BY <1>8, <1>10 DEF Trigger, Updaters
<1>11. ASSUME NEW u \in Updaters, NEW step \in {"idle", "free", "report"},
              pc' = [pc EXCEPT ![u] = step],
              overlap' \in {overlap, overlap \ {u}},
              UNCHANGED <<remote, file, meta, lost, raced, source, etags, got>>
       PROVE  EtagFrame
  <2>1. \A v \in Updaters :
          /\ pc'[v] \in {"replace", "removed"} => pc'[v] = pc[v]
          /\ HoldsEtags(v)' => HoldsEtags(v) /\ (v \in overlap => v \in overlap')
    BY <1>11 DEF HoldsEtags, Types
  <2> QED
    BY <1>2, <1>11, <2>1, EtagFrameOther
<1>12. CASE ToolReturns
  BY <1>11, <1>12 DEF ToolReturns, Updaters
<1>13. ASSUME NEW j \in Jobs, Reload(j) PROVE EtagFrame
  BY <1>11, <1>13, ReloadStep DEF Updaters
<1>14. ASSUME NEW j \in Jobs, Free(j) \/ Report(j) PROVE EtagFrame
  BY <1>11, <1>14 DEF Free, Report, Updaters
<1>15. ASSUME NEW u \in Updaters, NEW ok \in BOOLEAN, ReadMeta(u, ok)
       PROVE  EtagFrame
  <2>1. /\ UNCHANGED <<remote, file, meta, lost, raced, overlap, source, got>>
        /\ pc[u] = "begin" /\ pc'[u] \in {"download", "reload"}
        /\ pc'[u] = "download" => etags'[u] = meta
        /\ \A v \in Updaters \ {u} : pc'[v] = pc[v] /\ etags'[v] = etags[v]
    BY <1>15 DEF ReadMeta, Types
  <2> QED
    BY <1>2, <2>1, Numbers DEF EtagFrame, HoldsEtags
<1>16. ASSUME NEW u \in Updaters,
              RequestFails(u) \/ \E s \in Sources : NotModified(u, s)
       PROVE  EtagFrame
  <2>1. /\ UNCHANGED <<remote, file, meta, lost, raced, overlap, pc, got, etags>>
        /\ pc[u] = "download" /\ source' = [source EXCEPT ![u] = @ + 1]
    BY <1>16 DEF RequestFails, NotModified, Past
  <2>2. \A v \in Updaters :
          source'[v] >= source[v] /\ (v # u => source'[v] = source[v])
    BY <2>1, Numbers DEF Types
  <2> QED
    BY <1>2, <2>1, <2>2 DEF EtagFrame, HoldsEtags
<1> QED
  BY <1>1, <1>3, <1>4, <1>5, <1>6, <1>7, <1>9, <1>10, <1>12, <1>13, <1>14,
     <1>15, <1>16

\* A source that would be answered 304 is in its file, wherever an update or the
\* process ended and whether or not the fallback of replaceFile had removed the
\* file, unless a power loss has emptied it or two processes have updated it at
\* the same time (downloadOne, replaceFile, Update).
THEOREM EtagVouches == Spec => []EtagVouchesForFile
<1> DEFINE Inv == Types /\ EtagInv
<1>1. Init => Inv
  BY TypesInit, EtagInvInit
<1>2. Inv /\ [Next]_vars => Inv'
  BY TypesNext, EtagInvNext
<1>3. Inv => EtagVouchesForFile
  BY DEF EtagInv, Vouches, EtagVouchesForFile
<1> QED
  BY <1>1, <1>2, <1>3, PTL DEF Spec

-----------------------------------------------------------------------------
(* Lookups *)

LEMMA LookupInvInit == Init => LookupInv
BY DEF Init, LookupInv

\* Steps that replace no file, load none and are not the last of an update.
LEMMA LookupInvFrame ==
    ASSUME LookupInv,
           UNCHANGED <<up, db, file, unreadable>>,
           \A j \in Jobs : Unloaded(j) => Unloaded(j)'
    PROVE  LookupInv'
BY DEF LookupInv

LEMMA LookupInvLoad ==
    ASSUME NEW bad, db' = Loaded(bad), unreadable' = bad, file' = file
    PROVE  LookupInv'
<1>1. \A s \in Sources : db'[s] = IF s \in bad THEN 0 ELSE file[s]
  BY DEF Loaded
<1> QED
  BY <1>1 DEF LookupInv

\* Within an update, the files are about to be loaded.
LEMMA LookupInvUpdate ==
    ASSUME Types, Exclusive, ~WithTool, NEW u \in Updaters, UpdateStep(u)
    PROVE  LookupInv'
<1> USE DEF Goto
<1>1. u \in Jobs
  BY DEF UpdateStep, Exclusive, ReadMeta, RequestFails, NotModified, Downloaded,
         ReplaceFile, RemoveFile, WriteMeta, RemoveMeta, Updaters
<1>2. Unloaded(u)'
  BY <1>1 DEF UpdateStep, ReadMeta, RequestFails, NotModified, Downloaded,
              ReplaceFile, RemoveFile, WriteMeta, RemoveMeta, Unloaded, Types
<1> QED
  BY <1>1, <1>2 DEF LookupInv

LEMMA LookupInvNext ==
    ASSUME Types, Exclusive, LookupInv, ~WithTool, [Next]_vars
    PROVE  LookupInv'
<1> USE DEF disk, daemon, work, history, Goto
<1>1. CASE Start
  <2>1. PICK bad \in SUBSET Present : db' = Loaded(bad) /\ unreadable' = bad
    BY <1>1 DEF Start
  <2> QED
    BY <1>1, <2>1, LookupInvLoad DEF Start
<1>2. CASE Crash \/ PowerLoss
  BY <1>2 DEF Crash, PowerLoss, DaemonGone, LookupInv
<1>3. ASSUME NEW j \in Jobs, Trigger(j) PROVE LookupInv'
  <2>1. \A k \in Jobs : Unloaded(k) => Unloaded(k)'
    BY <1>3 DEF Trigger, Begin, Unloaded, Types, Updaters
  <2> QED
    BY <1>3, <2>1, LookupInvFrame DEF Trigger
<1>4. ASSUME NEW j \in Jobs, Reload(j) PROVE LookupInv'
  <2>1. \/ unreadable' = Sources
        \/ \E bad \in SUBSET Present : unreadable' = bad /\ db' = Loaded(bad)
    BY <1>4, ReloadLoads, Zenon
  <2>2. CASE unreadable' = Sources
    BY <2>2 DEF LookupInv
  <2> QED
    BY <1>4, <2>1, <2>2, ReloadStep, LookupInvLoad
<1>5. ASSUME NEW j \in Jobs, Free(j) \/ Report(j) PROVE LookupInv'
  <2>1. \A k \in Jobs : Unloaded(k) => Unloaded(k)'
    BY <1>5 DEF Free, Report, Unloaded, Types, Updaters
  <2> QED
    BY <1>5, <2>1, LookupInvFrame DEF Free, Report
<1>6. CASE Age \/ Writeback \/ (\E s \in Sources : Publish(s))
           \/ UNCHANGED vars
  BY <1>6, LookupInvFrame DEF Age, Writeback, Publish, vars, Unloaded
<1>7. ~(UpdateSync \/ ToolReturns \/ ToolCrash)
  BY DEF UpdateSync, ToolReturns, ToolCrash, Exclusive
<1> QED
  BY <1>1, <1>2, <1>3, <1>4, <1>5, <1>6, <1>7, LookupInvUpdate
     DEF Next, JobStep, Check, Updaters

\* While no update of the daemon works on the files, and no command does, the
\* lookups use what is installed, also after an update that failed half-way, left
\* a file removed or could not reload all of them (Reload, Load).
THEOREM LookupsCurrent ==
    ASSUME ~WithTool
    PROVE  Spec => []LookupsUseFiles
<1> DEFINE Inv == Types /\ Exclusive /\ LookupInv
<1>1. Init => Inv
  BY TypesInit, ExclusiveInit, LookupInvInit
<1>2. Inv /\ [Next]_vars => Inv'
  BY TypesNext, ExclusiveNext, LookupInvNext
<1>3. Inv => LookupsUseFiles
  BY DEF Exclusive, LookupInv, LookupsUseFiles, Working, Unloaded
<1> QED
  BY <1>1, <1>2, <1>3, PTL DEF Spec

=============================================================================
