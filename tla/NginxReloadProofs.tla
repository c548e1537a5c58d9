-------------------------- MODULE NginxReloadProofs --------------------------
(***************************************************************************)
(* What the reload loop guarantees for every set of configurations and     *)
(* policies and every number of changes, failures and restarts.            *)
(***************************************************************************)
EXTENDS NginxReload, TLAPS

\* The prover of every leaf that names none.
USE ZenonT(30)

\* The stations of a round between the writing of nginx.conf.new and its rename.
Written == {"createPolicy", "renamePolicy", "compare", "rename"}

\* A round past a station holds the whole file that the station wrote.
FilesInv ==
  /\ pc \in Written => newConf \in Conf
  /\ pc = "renamePolicy" => tmpPolicy \in Policy
  /\ NginxConfWhole
  /\ PolicyWhole

\* The pid file and a pending signal follow the life of nginx, which starts only with
\* a configuration file present (no pid file was found empty).
NginxInv ==
  hurt = "no" =>
    /\ ngx # "pid" /\ pid # "empty"
    /\ pid = "live" <=> ngx = "run"
    /\ hup = "pending" => ngx = "run"
    /\ ngx \in {"checked", "read", "run"} => conf # NoFile

\* The success marker outside the end of a round, and a clean outcome inside it, mean
\* that nginx has the file or is about to load it.
StatusInv ==
  hurt = "no" =>
    /\ pc \notin {"signal", "setStatus", "clearStatus"} /\ "success" \in markers => NginxFresh
    /\ pc \in {"setStatus", "clearStatus"} /\ outcome = "success" => NginxFresh

-----------------------------------------------------------------------------
\* Every variable keeps its type through every step of the loop and of nginx.
THEOREM TypeCorrect == Spec => []TypeOK
<1> USE ReloadConstants DEF Want, ReloadConstants
<1>1. Init => TypeOK
  BY SMTT(30) DEF Init, TypeOK, Status
<1>2. TypeOK /\ [Next]_vars => TypeOK'
  <2> SUFFICES ASSUME TypeOK, [Next]_vars PROVE TypeOK'
    OBVIOUS
  <2>0. "success" \in Status
    BY DEF Status
  <2> USE DEF TypeOK, files, nginx, mishaps, Goto, Fails
  <2>1. CASE ClusterChange
    BY <2>1, SMTT(30) DEF ClusterChange
  <2>2. CASE StartAlb \/ Crash
    BY <2>2, <2>0, SMTT(30) DEF StartAlb, Crash
  <2>3. CASE Generate
    BY <2>3, SMTT(30) DEF Generate
  <2>4. CASE TruncateConf \/ WriteConf
    BY <2>4, SMTT(30) DEF TruncateConf, WriteConf
  <2>5. CASE CreatePolicy \/ RenamePolicy
    BY <2>5, SMTT(30) DEF CreatePolicy, RenamePolicy
  <2>6. CASE Compare
    BY <2>6, SMTT(30) DEF Compare, Status
  <2>7. CASE Rename
    BY <2>7, SMTT(30) DEF Rename, Status
  <2>8. CASE Signal
    BY <2>8, SMTT(30) DEF Signal, Status
  <2>9. CASE SetStatus \/ ClearStatus
    BY <2>9, <2>0, SMTT(30) DEF SetStatus, ClearStatus
  <2>10. CASE CheckConf \/ CopyInitConf \/ ReadConf
    BY <2>10, SMTT(30) DEF CheckConf, CopyInitConf, ReadConf
  <2>11. CASE CreatePid \/ WritePid \/ HandleHup
    BY <2>11, SMTT(30) DEF CreatePid, WritePid, HandleHup
  <2>12. CASE NginxDies
    BY <2>12, SMTT(30) DEF NginxDies
  <2>13. CASE UNCHANGED vars
    BY <2>13, SMTT(30) DEF vars
  <2> QED
    BY <2>1, <2>2, <2>3, <2>4, <2>5, <2>6, <2>7, <2>8, <2>9, <2>10, <2>11, <2>12, <2>13
    DEF Next, Loop, Nginx
<1> QED
  BY <1>1, <1>2, PTL DEF Spec

\* FilesInv is inductive, whatever fails and whenever either process dies.
LEMMA FilesStep == TypeOK /\ FilesInv /\ [Next]_vars => FilesInv'
<1> SUFFICES ASSUME TypeOK, FilesInv, [Next]_vars PROVE FilesInv'
  OBVIOUS
<1> USE ReloadConstants
    DEF ReloadConstants, TypeOK, Want, FilesInv, NginxConfWhole, PolicyWhole, Written, files, nginx, mishaps, Goto, Fails
<1>1. CASE ClusterChange \/ StartAlb \/ Crash
  BY <1>1 DEF ClusterChange, StartAlb, Crash
<1>2. CASE Generate \/ TruncateConf
  BY <1>2 DEF Generate, TruncateConf
<1>3. CASE WriteConf \/ CreatePolicy
  BY <1>3 DEF WriteConf, CreatePolicy
<1>4. CASE RenamePolicy
  BY <1>4 DEF RenamePolicy
<1>5. CASE Compare
  BY <1>5 DEF Compare
<1>6. CASE Rename
  BY <1>6 DEF Rename
<1>7. CASE Signal \/ SetStatus \/ ClearStatus
  BY <1>7 DEF Signal, SetStatus, ClearStatus
<1>8. CASE CheckConf \/ CopyInitConf \/ ReadConf
  BY <1>8 DEF CheckConf, CopyInitConf, ReadConf
<1>9. CASE CreatePid \/ WritePid \/ HandleHup \/ NginxDies
  BY <1>9 DEF CreatePid, WritePid, HandleHup, NginxDies
<1>10. CASE UNCHANGED vars
  BY <1>10 DEF vars
<1> QED
  BY <1>1, <1>2, <1>3, <1>4, <1>5, <1>6, <1>7, <1>8, <1>9, <1>10 DEF Next, Loop, Nginx

\* No half-written file is ever read: neither by nginx, though nginx.conf.new is written
\* in place, nor by the workers that poll the policy, though the writer may die at any
\* point (GenerateNginxConfigAndReload).
THEOREM FilesAlwaysWhole == Spec => []FilesWhole
<1>1. Init => FilesInv
  BY ReloadConstants
  DEF ReloadConstants, Init, Want, FilesInv, NginxConfWhole, PolicyWhole, Written
<1>2. FilesInv => FilesWhole
  BY DEF FilesInv, FilesWhole
<1> QED
  BY <1>1, <1>2, TypeCorrect, FilesStep, PTL DEF Spec

-----------------------------------------------------------------------------
\* NginxInv is inductive: an empty pid file ends its claim.
LEMMA NginxStep == TypeOK /\ FilesInv /\ NginxInv /\ [Next]_vars => NginxInv'
<1> SUFFICES ASSUME TypeOK, FilesInv, NginxInv, [Next]_vars PROVE NginxInv'
  OBVIOUS
<1> USE ReloadConstants
    DEF ReloadConstants, TypeOK, Want, FilesInv, Written, NginxInv, Grave, files, nginx, mishaps, Goto, Fails
<1>1. CASE ClusterChange \/ StartAlb \/ Crash \/ Generate
  BY <1>1 DEF ClusterChange, StartAlb, Crash, Generate
<1>2. CASE TruncateConf \/ WriteConf \/ CreatePolicy \/ RenamePolicy \/ Compare
  BY <1>2 DEF TruncateConf, WriteConf, CreatePolicy, RenamePolicy, Compare
<1>3. CASE Rename
  BY <1>3 DEF Rename
<1>4. CASE Signal \/ SetStatus \/ ClearStatus
  BY <1>4 DEF Signal, SetStatus, ClearStatus
<1>5. CASE CheckConf \/ CopyInitConf \/ ReadConf
  BY <1>5 DEF CheckConf, CopyInitConf, ReadConf
<1>6. CASE CreatePid \/ WritePid \/ HandleHup \/ NginxDies
  BY <1>6 DEF CreatePid, WritePid, HandleHup, NginxDies
<1>7. CASE UNCHANGED vars
  BY <1>7 DEF vars
<1> QED
  BY <1>1, <1>2, <1>3, <1>4, <1>5, <1>6, <1>7 DEF Next, Loop, Nginx

\* A round that ends well leaves nginx fresh, and only a rename makes it stale.
LEMMA StatusStep ==
  TypeOK /\ FilesInv /\ NginxInv /\ StatusInv /\ [Next]_vars => StatusInv'
<1> SUFFICES ASSUME TypeOK, FilesInv, NginxInv, StatusInv, [Next]_vars PROVE StatusInv'
  OBVIOUS
<1> USE ReloadConstants
    DEF ReloadConstants, TypeOK, Want, Status, StatusInv, NginxFresh, Grave, files, nginx, mishaps, Goto, Fails
<1>1. CASE ClusterChange \/ StartAlb \/ Crash \/ Generate
  BY <1>1, SMTT(30) DEF ClusterChange, StartAlb, Crash, Generate
<1>2. CASE TruncateConf \/ WriteConf \/ CreatePolicy \/ RenamePolicy
  BY <1>2 DEF TruncateConf, WriteConf, CreatePolicy, RenamePolicy
<1>3. CASE Compare
  BY <1>3 DEF Compare, LastReloadStatus
<1>4. CASE Rename
  BY <1>4 DEF Rename
<1>5. CASE Signal
  BY <1>5 DEF Signal, NginxInv
<1>6. CASE SetStatus
  BY <1>6 DEF SetStatus
<1>7. CASE ClearStatus
  BY <1>7 DEF ClearStatus, Reverse
<1>8. CASE CheckConf \/ CopyInitConf \/ ReadConf
  BY <1>8 DEF CheckConf, CopyInitConf, ReadConf
<1>9. CASE CreatePid \/ WritePid
  BY <1>9 DEF CreatePid, WritePid, NginxInv
<1>10. CASE HandleHup \/ NginxDies
  BY <1>10 DEF HandleHup, NginxDies, NginxInv, FilesInv, NginxConfWhole
<1>11. CASE UNCHANGED vars
  BY <1>11 DEF vars
<1> QED
  BY <1>1, <1>2, <1>3, <1>4, <1>5, <1>6, <1>7, <1>8, <1>9, <1>10, <1>11 DEF Next, Loop, Nginx

\* Until the controller dies, misses a marker or meets an empty pid file, the success
\* marker between rounds means that nginx runs nginx.conf, or is about to load it:
\* skipping the reload is safe.
THEOREM SkipIsSafe == Spec => []SuccessMeansLoaded
<1>1. Init => FilesInv /\ NginxInv /\ StatusInv
  BY ReloadConstants
  DEF ReloadConstants, Init, Want, FilesInv, NginxConfWhole, PolicyWhole, Written, NginxInv,
      StatusInv, NginxFresh
<1>2. StatusInv => SuccessMeansLoaded
  BY DEF StatusInv, SuccessMeansLoaded
<1>3. TypeOK /\ FilesInv /\ NginxInv /\ StatusInv /\ [Next]_vars
        => FilesInv' /\ NginxInv' /\ StatusInv'
  BY FilesStep, NginxStep, StatusStep
<1> QED
  BY <1>1, <1>2, <1>3, TypeCorrect, PTL DEF Spec
=============================================================================
