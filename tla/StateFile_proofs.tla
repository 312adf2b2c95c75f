-------------------------- MODULE StateFile_proofs --------------------------
(***************************************************************************)
(* Proofs about StateFile, for every bound: saveMu protects what it should, *)
(* and no failed save goes unreported, whatever fails; as long as the      *)
(* rename that replaces the state file and the read of New do not fail,    *)
(* the module implements DurableState, and no acknowledged save is ever    *)
(* taken back.                                                             *)
(***************************************************************************)
EXTENDS StateFile, TLAPS

\* The file operations that DurableState abstracts from work.
Works == ~RenameMayFail /\ ~ReadMayFail

(* The inductive invariant *)

\* A saver has copied the state and not returned.
Busy(s) == pc[s] \notin {"idle", "wait"}

\* The versions a saver moves between, while it holds saveMu.
SaverInv(s) ==
    /\ pc[s] # "idle" => up
    /\ pc[s] # "idle" => request[s] <= memory
    /\ Busy(s) =>
         /\ request[s] <= copy[s]
         /\ copy[s] <= memory
         /\ file.version <= copy[s]
    /\ pc[s] = "close" => tmp[s] = [version |-> copy[s], synced |-> TRUE]
    /\ pc[s] = "rename" => tmp[s] = [version |-> copy[s], synced |-> TRUE]
    /\ pc[s] = "sync" => tmp[s].version = copy[s]
    /\ pc[s] # "replace"
    /\ pc[s] = "ok" => file.version = copy[s]

IInv ==
    /\ TypeOK
    /\ \A s \in Savers : SaverInv(s)
    /\ up => file.version <= memory
    /\ ~up => memory = 0
    /\ file.synced /\ stable.synced
    /\ acked <= file.version
    /\ kept <= stable.version
    /\ ~unread

-----------------------------------------------------------------------------
LEMMA IInvInit == Init => IInv
<1> SUFFICES ASSUME Init PROVE IInv
  OBVIOUS
<1>1. TypeOK
  BY SaverAssumption DEF Init, TypeOK, Steps, File, NoTmp, NoFile
<1> QED
  BY <1>1 DEF Init, IInv, SaverInv, Busy, NoFile

LEMMA SyncedFile ==
    ASSUME NEW f \in File
    PROVE  /\ Synced(f) \in File
           /\ Synced(f) = [version |-> f.version, synced |-> TRUE]
BY DEF File, Synced

\* The types are kept by every step.
LEMMA TypeNext ==
    ASSUME TypeOK, [Next]_vars
    PROVE  TypeOK'
<1> USE DEF saving, history, Goto
<1>1. CASE Update
  BY <1>1 DEF Update, TypeOK
<1>2. CASE Writeback
  BY <1>2 DEF Writeback, TypeOK
<1>3. CASE Down /\ file' \in File /\ acked' \in Nat
  BY <1>3, SaverAssumption DEF Down, TypeOK, Steps, File, NoTmp
<1>4. CASE Crash
  BY <1>3, <1>4 DEF Crash, TypeOK
<1>5. CASE PowerLoss
  <2>1. file' \in File
    BY <1>5 DEF PowerLoss, AfterPowerLoss, NoFile, TypeOK, File
  <2>2. acked' \in Nat
    BY <1>5 DEF PowerLoss, TypeOK
  <2> QED
    BY <1>3, <1>5, <2>1, <2>2 DEF PowerLoss
<1>6. CASE Start
  <2>1. file.version \in Nat
    BY DEF TypeOK, File
  <2>2. memory' \in Nat
    BY <1>6, <2>1 DEF Start
  <2>3. unread' \in BOOLEAN
    BY <1>6 DEF Start, TypeOK
  <2> QED
    BY <1>6, <2>2, <2>3 DEF Start, TypeOK
<1>7. ASSUME NEW s \in Savers, CallSave(s) PROVE TypeOK'
  BY <1>7 DEF CallSave, TypeOK, Steps
<1>8. ASSUME NEW s \in Savers, Copy(s) PROVE TypeOK'
  BY <1>8, SaverAssumption DEF Copy, Free, TypeOK, Steps
<1>9. ASSUME NEW s \in Savers, Create(s) PROVE TypeOK'
  BY <1>9 DEF Create, TypeOK, Steps
<1>10. ASSUME NEW s \in Savers, Write(s) PROVE TypeOK'
  <2>1. [version |-> copy[s], synced |-> FALSE] \in File
    BY DEF TypeOK, File
  <2> DEFINE written == [version |-> copy[s], synced |-> FALSE]
  <2>2. tmp' = [tmp EXCEPT ![s] = written] \/ tmp' = tmp
    BY <1>10 DEF Write
  <2>3. written \in File /\ tmp \in [Savers -> File]
    BY <2>1 DEF TypeOK
  <2> HIDE DEF written
  <2>4. tmp' \in [Savers -> File]
    BY <2>2, <2>3
  <2> QED
    BY <1>10, <2>4 DEF Write, TypeOK, Steps
<1>11. ASSUME NEW s \in Savers, Sync(s) PROVE TypeOK'
  <2> DEFINE written == Synced(tmp[s])
  <2>1. tmp' = [tmp EXCEPT ![s] = written] \/ tmp' = tmp
    BY <1>11 DEF Sync
  <2>2. tmp \in [Savers -> File]
    BY DEF TypeOK
  <2>3. written \in File
    BY <2>2, SyncedFile
  <2> HIDE DEF written
  <2>4. tmp' \in [Savers -> File]
    BY <2>1, <2>2, <2>3
  <2> QED
    BY <1>11, <2>4 DEF Sync, TypeOK, Steps
<1>12. ASSUME NEW s \in Savers, Close(s) PROVE TypeOK'
  BY <1>12 DEF Close, TypeOK, Steps
<1>13. ASSUME NEW s \in Savers, Rename(s) PROVE TypeOK'
  <2>1. tmp[s] \in File /\ NoFile \in File
    BY DEF TypeOK, File, NoFile
  <2>2. file' \in File
    BY <1>13, <2>1 DEF Rename, TypeOK
  <2> QED
    BY <1>13, <2>2 DEF Rename, TypeOK, Steps
<1>14. ASSUME NEW s \in Savers, Replace(s) PROVE TypeOK'
  <2>1. tmp[s] \in File
    BY DEF TypeOK
  <2>2. file' \in File
    BY <1>14, <2>1 DEF Replace, TypeOK
  <2> QED
    BY <1>14, <2>2 DEF Replace, TypeOK, Steps
<1>15. ASSUME NEW s \in Savers, Return(s) PROVE TypeOK'
  BY <1>15, SaverAssumption
     DEF Return, Released, Reported, TypeOK, Steps, File, NoTmp
<1>16. CASE UNCHANGED vars
  BY <1>16 DEF vars, TypeOK
<1> QED
  BY <1>1, <1>2, <1>4, <1>5, <1>6, <1>7, <1>8, <1>9, <1>10, <1>11, <1>12,
     <1>13, <1>14, <1>15, <1>16 DEF Next, Save

\* While one saver is busy, the others have not copied anything.
LEMMA OneBusy ==
    ASSUME TypeOK, NEW s \in Savers, NEW t \in Savers, Busy(s), Busy(t)
    PROVE  s = t
BY DEF TypeOK, Busy

LEMMA IInvNext ==
    ASSUME IInv, Works, [Next]_vars
    PROVE  IInv'
<1> USE DEF saving, history, Goto
<1>1. TypeOK /\ TypeOK'
  BY TypeNext DEF IInv
<1>2. CASE Update
  BY <1>1, <1>2 DEF Update, IInv, SaverInv, Busy, TypeOK, File
<1>3. CASE Writeback
  BY <1>1, <1>3 DEF Writeback, IInv, SaverInv, Busy
<1>4. CASE Crash
  BY <1>1, <1>4 DEF Crash, Down, IInv, SaverInv, Busy, TypeOK
<1>5. CASE PowerLoss
  <2>1. file' = stable
    BY <1>5 DEF PowerLoss, AfterPowerLoss, IInv
  <2>2. acked' <= file'.version
    BY <1>5, <2>1 DEF PowerLoss, IInv
  <2> QED
    BY <1>1, <1>5, <2>1, <2>2 DEF PowerLoss, Down, IInv, SaverInv, Busy, TypeOK
<1>6. CASE Start
  <2>1. memory' = file.version /\ unread' = unread
    BY <1>6 DEF Start, Works
  <2>2. \A s \in Savers : pc[s] = "idle"
    BY <1>6 DEF Start, IInv, SaverInv
  <2> QED
    BY <1>1, <1>6, <2>1, <2>2 DEF Start, IInv, SaverInv, Busy, TypeOK, File
<1>7. ASSUME NEW s \in Savers, CallSave(s) PROVE IInv'
  BY <1>1, <1>7 DEF CallSave, IInv, SaverInv, Busy, TypeOK
<1>8. ASSUME NEW s \in Savers, Copy(s) PROVE IInv'
  <2>1. \A t \in Savers : ~Busy(t)
    BY <1>1, <1>8, SaverAssumption DEF Copy, Free, TypeOK, Busy
  <2>2. SaverInv(s)'
    BY <1>1, <1>8 DEF Copy, IInv, SaverInv, Busy, TypeOK, File
  <2>3. ASSUME NEW t \in Savers, t # s PROVE SaverInv(t)'
    BY <1>1, <1>8, <2>1, <2>3 DEF Copy, IInv, SaverInv, Busy, TypeOK
  <2> QED
    BY <1>1, <1>8, <2>2, <2>3 DEF Copy, IInv
<1>9. ASSUME NEW s \in Savers, Create(s) PROVE IInv'
  BY <1>1, <1>9 DEF Create, IInv, SaverInv, Busy, TypeOK
<1>10. ASSUME NEW s \in Savers, Write(s) PROVE IInv'
  BY <1>1, <1>10 DEF Write, IInv, SaverInv, Busy, TypeOK
<1>11. ASSUME NEW s \in Savers, Sync(s) PROVE IInv'
  <2>1. tmp[s] \in File /\ Synced(tmp[s]) = [version |-> tmp[s].version, synced |-> TRUE]
    <3>1. tmp \in [Savers -> File]
      BY <1>1 DEF TypeOK
    <3> QED
      BY <3>1, SyncedFile
  <2>2. SaverInv(s)'
    BY <1>1, <1>11, <2>1 DEF Sync, IInv, SaverInv, Busy, TypeOK
  <2>3. ASSUME NEW t \in Savers, t # s PROVE SaverInv(t)'
    BY <1>1, <1>11, <2>3 DEF Sync, IInv, SaverInv, Busy, TypeOK
  <2> QED
    BY <1>1, <1>11, <2>2, <2>3 DEF Sync, IInv
<1>12. ASSUME NEW s \in Savers, Close(s) PROVE IInv'
  BY <1>1, <1>12 DEF Close, IInv, SaverInv, Busy, TypeOK
<1>13. ASSUME NEW s \in Savers, Rename(s) PROVE IInv'
  <2>1. Busy(s) /\ tmp[s] = [version |-> copy[s], synced |-> TRUE]
        /\ file.version <= copy[s] /\ copy[s] <= memory /\ request[s] <= copy[s]
    BY <1>13 DEF Rename, IInv, SaverInv, Busy
  <2>2. pc' = [pc EXCEPT ![s] = "ok"] /\ file' = tmp[s]
        /\ UNCHANGED <<up, memory, saveMu, copy, tmp, stable, saveError, starts,
                       request, acked, kept, attempted, unread>>
    BY <1>13 DEF Rename, Works
  <2>3. file'.version = copy[s] /\ file'.synced
    BY <2>1, <2>2
  <2>4. copy[s] \in Nat /\ file.version \in Nat /\ acked \in Nat
    BY <1>1 DEF TypeOK, File
  <2>5. acked' <= file'.version
    BY <2>1, <2>2, <2>3, <2>4 DEF IInv
  <2>6. SaverInv(s)'
    BY <1>1, <2>1, <2>2, <2>3, <2>4 DEF IInv, SaverInv, Busy, TypeOK
  <2>7. ASSUME NEW t \in Savers, t # s PROVE SaverInv(t)'
    <3>1. ~Busy(t)
      BY <1>1, <2>1, <2>7, OneBusy
    <3> QED
      BY <1>1, <2>2, <2>7, <3>1 DEF IInv, SaverInv, Busy, TypeOK
  <2> QED
    BY <1>1, <2>1, <2>2, <2>3, <2>5, <2>6, <2>7 DEF IInv
<1>14. ASSUME NEW s \in Savers, Replace(s) PROVE FALSE
  BY <1>14 DEF Replace, IInv, SaverInv
<1>15. ASSUME NEW s \in Savers, Return(s) PROVE IInv'
  <2>1. Busy(s) /\ (pc[s] = "ok" => request[s] <= file.version)
    BY <1>15 DEF Return, IInv, SaverInv, Busy
  <2>2. /\ pc' = [pc EXCEPT ![s] = "idle"]
        /\ tmp' = [tmp EXCEPT ![s] = NoTmp]
        /\ acked' = IF pc[s] = "ok" /\ request[s] > acked THEN request[s] ELSE acked
        /\ copy' = [copy EXCEPT ![s] = 0]
        /\ request' = [request EXCEPT ![s] = 0]
        /\ UNCHANGED <<up, memory, file, stable, starts, kept, attempted, unread>>
    BY <1>15 DEF Return
  <2>3. acked' <= file'.version
    BY <1>1, <2>1, <2>2 DEF IInv, TypeOK, File
  <2>4. SaverInv(s)'
    BY <1>1, <2>2 DEF IInv, SaverInv, Busy, TypeOK
  <2>5. ASSUME NEW t \in Savers, t # s PROVE SaverInv(t)'
    BY <1>1, <2>2, <2>5 DEF IInv, SaverInv, Busy, TypeOK
  <2> QED
    BY <1>1, <2>2, <2>3, <2>4, <2>5 DEF IInv
<1>16. CASE UNCHANGED vars
  BY <1>1, <1>16 DEF vars, IInv, SaverInv, Busy
<1> QED
  BY <1>2, <1>3, <1>4, <1>5, <1>6, <1>7, <1>8, <1>9, <1>10, <1>11, <1>12,
     <1>13, <1>14, <1>15, <1>16 DEF Next, Save

-----------------------------------------------------------------------------
(* The theorems *)

LEMMA Invariance ==
    ASSUME Works
    PROVE  Spec => []IInv
<1>1. Init => IInv
  BY IInvInit
<1>2. IInv /\ [Next]_vars => IInv'
  BY IInvNext
<1> QED
  BY <1>1, <1>2, PTL DEF Spec

\* Every variable has its type, and a saver between its copy of the state and
\* its return holds saveMu, whatever fails (Tracker.Save).
THEOREM TypeCorrect == Spec => []TypeOK
<1>1. Init => TypeOK
  BY IInvInit DEF IInv
<1>2. TypeOK /\ [Next]_vars => TypeOK'
  BY TypeNext
<1> QED
  BY <1>1, <1>2, PTL DEF Spec

(* No failure goes unreported.  This needs no assumption on the file system: *)
(* the versions are followed through the steps of the one saver that holds   *)
(* saveMu, and its outcome decides the warning before saveMu is released.    *)

\* What the saver has copied is the last attempt, and what it has written.
AttemptInv(s) ==
    /\ pc[s] # "idle" => up
    /\ Busy(s) => attempted = copy[s]
    /\ pc[s] \in {"sync", "close", "rename", "replace"} =>
         tmp[s].version = copy[s]
    /\ pc[s] = "ok" => file.version = copy[s]

WarningInv ==
    /\ TypeOK
    /\ \A s \in Savers : AttemptInv(s)
    /\ ~up => attempted = 0 /\ saveMu = None
    /\ NoWarningMeansSaved

LEMMA WarningInvInit == Init => WarningInv
<1>1. Init => TypeOK
  BY IInvInit DEF IInv
<1> QED
  BY <1>1 DEF Init, WarningInv, AttemptInv, Busy, NoWarningMeansSaved, NoFile

LEMMA WarningInvNext ==
    ASSUME WarningInv, [Next]_vars
    PROVE  WarningInv'
<1> USE DEF saving, history, Goto
<1>1. TypeOK /\ TypeOK'
  BY TypeNext DEF WarningInv
<1> USE DEF NoWarningMeansSaved
<1>2. CASE Update \/ Writeback \/ UNCHANGED vars
  BY <1>1, <1>2 DEF Update, Writeback, vars, WarningInv, AttemptInv, Busy
<1>3. CASE Crash \/ PowerLoss
  BY <1>1, <1>3 DEF Crash, PowerLoss, Down, WarningInv, AttemptInv, Busy
<1>4. CASE Start
  <2>1. \A s \in Savers : pc[s] = "idle"
    BY <1>4 DEF Start, WarningInv, AttemptInv
  <2>2. attempted' = 0 /\ file' = file
    BY <1>4 DEF Start, WarningInv
  <2> QED
    BY <1>1, <1>4, <2>1, <2>2 DEF Start, WarningInv, AttemptInv, Busy, TypeOK, File
<1>5. ASSUME NEW s \in Savers, CallSave(s) PROVE WarningInv'
  BY <1>1, <1>5 DEF CallSave, WarningInv, AttemptInv, Busy, TypeOK
<1>6. ASSUME NEW s \in Savers, Copy(s) PROVE WarningInv'
  <2>1. \A t \in Savers : ~Busy(t)
    BY <1>1, <1>6, SaverAssumption DEF Copy, Free, TypeOK, Busy
  <2>2. up /\ saveMu' # None
    BY <1>6, SaverAssumption DEF Copy, WarningInv, AttemptInv
  <2>3. ASSUME NEW t \in Savers PROVE AttemptInv(t)'
    BY <1>1, <1>6, <2>1 DEF Copy, WarningInv, AttemptInv, Busy, TypeOK
  <2> QED
    BY <1>1, <1>6, <2>2, <2>3 DEF Copy, WarningInv
<1>7. ASSUME NEW s \in Savers, Create(s) PROVE WarningInv'
  BY <1>1, <1>7 DEF Create, WarningInv, AttemptInv, Busy, TypeOK
<1>8. ASSUME NEW s \in Savers, Write(s) PROVE WarningInv'
  BY <1>1, <1>8 DEF Write, WarningInv, AttemptInv, Busy, TypeOK
<1>9. ASSUME NEW s \in Savers, Sync(s) PROVE WarningInv'
  <2>1. Synced(tmp[s]) = [version |-> tmp[s].version, synced |-> TRUE]
    BY DEF Synced
  <2>2. \A t \in Savers : AttemptInv(t)'
    BY <1>1, <1>9, <2>1 DEF Sync, WarningInv, AttemptInv, Busy, TypeOK
  <2> QED
    BY <1>1, <1>9, <2>2 DEF Sync, WarningInv
<1>10. ASSUME NEW s \in Savers, Close(s) PROVE WarningInv'
  BY <1>1, <1>10 DEF Close, WarningInv, AttemptInv, Busy, TypeOK
<1>11. ASSUME NEW s \in Savers, Rename(s) \/ Replace(s) PROVE WarningInv'
  <2>1. Busy(s) /\ saveMu = s
    BY <1>1, <1>11 DEF Rename, Replace, Busy, TypeOK
  <2>2. /\ \/ pc' = [pc EXCEPT ![s] = "ok"] /\ file' = tmp[s]
           \/ pc' = [pc EXCEPT ![s] = "replace"] /\ pc[s] = "rename"
           \/ pc' = [pc EXCEPT ![s] = "failed"]
        /\ UNCHANGED <<up, saveMu, copy, tmp, attempted>>
    BY <1>11 DEF Rename, Replace
  <2>3. tmp[s].version = copy[s]
    BY <1>11 DEF Rename, Replace, WarningInv, AttemptInv
  <2>4. AttemptInv(s)'
    BY <1>1, <2>1, <2>2, <2>3 DEF WarningInv, AttemptInv, Busy, TypeOK
  <2>5. ASSUME NEW t \in Savers, t # s PROVE AttemptInv(t)'
    <3>1. ~Busy(t)
      BY <1>1, <2>1, <2>5, OneBusy
    <3> QED
      BY <1>1, <2>2, <2>5, <3>1 DEF WarningInv, AttemptInv, Busy, TypeOK
  <2>6. up' /\ saveMu' # None
    BY <2>1, <2>2, SaverAssumption DEF WarningInv, AttemptInv, Busy
  <2> QED
    BY <1>1, <2>4, <2>5, <2>6 DEF WarningInv
<1>12. ASSUME NEW s \in Savers, Return(s) PROVE WarningInv'
  <2>1. /\ pc' = [pc EXCEPT ![s] = "idle"]
        /\ tmp' = [tmp EXCEPT ![s] = NoTmp]
        /\ saveError' = (pc[s] # "ok")
        /\ saveMu' = None
        /\ copy' = [copy EXCEPT ![s] = 0]
        /\ UNCHANGED <<up, file, attempted>>
    BY <1>12 DEF Return, Reported, Released
  <2>2. Busy(s) /\ up
    BY <1>12 DEF Return, Busy, WarningInv, AttemptInv
  <2>3. NoWarningMeansSaved'
    <3>1. pc[s] = "ok" => attempted' = copy[s] /\ file'.version = copy[s]
      BY <2>1, <2>2 DEF WarningInv, AttemptInv
    <3>2. copy[s] \in Nat
      BY <1>1 DEF TypeOK
    <3>3. ~saveError' => pc[s] = "ok"
      BY <2>1
    <3> QED
      BY <3>1, <3>2, <3>3
  <2>4. \A t \in Savers : AttemptInv(t)'
    BY <1>1, <2>1 DEF WarningInv, AttemptInv, Busy, TypeOK
  <2> QED
    BY <1>1, <2>1, <2>2, <2>3, <2>4 DEF WarningInv
<1> QED
  BY <1>2, <1>3, <1>4, <1>5, <1>6, <1>7, <1>8, <1>9, <1>10, <1>11, <1>12
     DEF Next, Save

\* Whatever fails, and wherever the process ends: with no save in progress and
\* no warning, the state that was copied last is in the file (lastSaveError).
THEOREM FailuresAreReported == Spec => []NoWarningMeansSaved
<1>1. WarningInv /\ [Next]_vars => WarningInv'
  BY WarningInvNext
<1>2. WarningInv => NoWarningMeansSaved
  BY DEF WarningInv
<1> QED
  BY <1>1, <1>2, WarningInvInit, PTL DEF Spec

(* The theorems that need the file operations to work. *)

\* The lock around copying and replacing keeps what Save has reported as saved
\* in the file, whatever saves run concurrently and wherever a crash hits them.
THEOREM SavesAreKept ==
    ASSUME Works
    PROVE  Spec => []AcknowledgedKept
<1>1. IInv => AcknowledgedKept
  BY DEF IInv, AcknowledgedKept
<1> QED
  BY <1>1, Invariance, PTL

\* Every step of the savers, of the file system and of the process is one of
\* DurableState or leaves what it knows unchanged.
THEOREM Refinement ==
    ASSUME Works
    PROVE  Spec => Implements
<1> USE DEF saving, history
<1>1. Init => Durable!Init
  BY DEF Init, Durable!Init, NoFile
<1>2. IInv /\ [Next]_vars => [Durable!Next]_(Durable!vars)
  <2> SUFFICES ASSUME IInv, [Next]_vars
               PROVE  Durable!Next \/ UNCHANGED Durable!vars
    OBVIOUS
  <2> USE DEF Durable!vars
  <2>1. TypeOK
    BY DEF IInv
  <2>2. CASE Update
    BY <2>2 DEF Update, Durable!Next, Durable!Update
  <2>3. CASE Writeback
    BY <2>3 DEF Writeback, Durable!Next, Durable!Writeback
  <2>4. CASE Crash
    BY <2>4 DEF Crash, Down, Durable!Next, Durable!Stop
  <2>5. CASE PowerLoss
    <3>1. file' = stable
      BY <2>5 DEF PowerLoss, AfterPowerLoss, IInv
    <3> QED
      BY <2>5, <3>1 DEF PowerLoss, Down, Durable!Next, Durable!Stop
  <2>6. CASE Start
    BY <2>6 DEF Start, Works, Durable!Next, Durable!Start
  <2>7. ASSUME NEW s \in Savers, Rename(s) PROVE Durable!Next
    <3>1. /\ file'.version = copy[s] /\ file.version <= copy[s]
          /\ copy[s] <= memory /\ up
      <4>1. /\ tmp[s] = [version |-> copy[s], synced |-> TRUE]
            /\ file.version <= copy[s] /\ copy[s] <= memory /\ up
        BY <2>7 DEF Rename, IInv, SaverInv, Busy
      <4>2. file' = tmp[s]
        BY <2>7 DEF Rename, Works
      <4> QED
        BY <4>1, <4>2
    <3>2. copy[s] \in Nat /\ file.version \in Nat /\ memory \in Nat
      BY <2>1 DEF TypeOK, File
    <3>3. file'.version \in file.version..memory
      BY <3>1, <3>2
    <3> QED
      BY <2>7, <3>1, <3>3 DEF Rename, Durable!Next, Durable!Commit
  <2>8. ASSUME NEW s \in Savers, Replace(s) PROVE FALSE
    BY <2>8 DEF Replace, IInv, SaverInv
  <2>9. CASE UNCHANGED <<up, memory, file, stable>>
    BY <2>9
  <2> QED
    BY <2>2, <2>3, <2>4, <2>5, <2>6, <2>7, <2>8, <2>9
       DEF Next, Save, CallSave, Copy, Create, Write, Sync, Close, Return, vars
<1> QED
  BY <1>1, <1>2, Invariance, PTL DEF Spec, Implements, Durable!Spec
=============================================================================
