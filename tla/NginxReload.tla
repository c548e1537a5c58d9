----------------------------- MODULE NginxReload -----------------------------
(***************************************************************************)
(* The reload loop of the alb controller and the nginx container it feeds. *)
(*                                                                         *)
(* Every INTERVAL the loop renders the configuration the cluster asks for, *)
(* writes nginx.conf.new and the policy file, moves nginx.conf.new over    *)
(* nginx.conf when the two differ, sends HUP to the pid in nginx.pid and   *)
(* records the outcome as one of two marker files, "success" and "failed". *)
(* alb and nginx are two containers of a pod that share /etc/alb2/nginx,   *)
(* and each may die and be restarted at any time; the files survive.       *)
(***************************************************************************)
EXTENDS Naturals

CONSTANTS
  Conf,        \* renderings of nginx.conf the cluster may ask for
  BadConf,     \* the ones nginx refuses to load
  InitConf,    \* the nginx.conf the nginx image ships
  Policy,      \* contents of the policy file
  NoFile,      \* the file does not exist
  Partial,     \* a file whose writer has not finished
  Faulty,      \* what may go wrong: a subset of FaultKind
  MaxChange,   \* bound: changes of the cluster
  MaxFault,    \* bound: failures of the controller's steps
  MaxRestart   \* bound: deaths of nginx

FaultKind == {"generate", "writeConf", "writePolicy", "rename", "status", "crash", "emptyPid"}

\* The controller dies, cannot write a marker file, or meets an empty pid file.
Grave == {"status", "crash", "emptyPid"}

ASSUME ReloadConstants ==
  /\ BadConf \subseteq Conf
  /\ InitConf \notin Conf
  /\ NoFile \notin Conf \cup Policy \cup {InitConf, Partial}
  /\ Partial \notin Conf \cup Policy \cup {InitConf}
  /\ Conf # {} /\ Policy # {}
  /\ Faulty \subseteq FaultKind
  /\ MaxChange \in Nat /\ MaxFault \in Nat /\ MaxRestart \in Nat

VARIABLES
  want,      \* what the listers hold, rendered: [conf, policy]
  pc,        \* where the loop is; "down" while the alb process is dead
  gen,       \* the rendering this round works on; NoFile when it needs none
  outcome,   \* the status the deferred function of ReloadLoadBalancer will record
  newConf, conf, tmpPolicy, policy,   \* the files
  markers,                            \* the status marker files that exist
  ngx,       \* nginx: "down", "checked", "copy", "read", "pid", "run"
  loaded,    \* the configuration nginx runs with
  hup,       \* a HUP is pending at nginx
  pid,       \* nginx.pid: "none", "stale", "empty", "live"
  hurt,      \* whether a failure of the kinds in Grave has happened
  changes, faults, restarts           \* counters behind the bounds

files == <<newConf, conf, tmpPolicy, policy, markers>>
nginx == <<ngx, loaded, hup, pid, restarts>>
mishaps == <<faults, hurt>>
vars == <<want, pc, gen, outcome, files, nginx, changes, mishaps>>

Status == {"success", "failed"}

Want == [conf : Conf, policy : Policy]

TypeOK ==
  /\ want \in Want
  /\ gen \in IF pc \in {"truncate", "write", "createPolicy"} THEN Want ELSE {NoFile}
  /\ pc \in {"down", "idle", "truncate", "write", "createPolicy", "renamePolicy",
             "compare", "rename", "signal", "setStatus", "clearStatus"}
  /\ outcome \in Status
  /\ newConf \in Conf \cup {NoFile, Partial}
  /\ conf \in Conf \cup {NoFile, Partial, InitConf}
  /\ tmpPolicy \in Policy \cup {NoFile, Partial}
  /\ policy \in Policy \cup {NoFile, Partial}
  /\ markers \subseteq Status
  /\ ngx \in {"down", "checked", "copy", "read", "pid", "run"}
  /\ loaded \in Conf \cup {NoFile, Partial, InitConf}
  /\ hup \in {"none", "pending"}
  /\ pid \in {"none", "stale", "empty", "live"}
  /\ hurt \in {"no", "yes"}
  /\ changes \in 0..MaxChange /\ faults \in 0..MaxFault /\ restarts \in 0..MaxRestart

(***************************************************************************)
(* A pod starts with an empty shared directory and both containers down.   *)
(***************************************************************************)
Init ==
  /\ want \in Want /\ gen = NoFile
  /\ pc = "down" /\ outcome = "success"
  /\ newConf = NoFile /\ conf = NoFile /\ tmpPolicy = NoFile /\ policy = NoFile
  /\ markers = {}
  /\ ngx = "down" /\ loaded = NoFile /\ hup = "none" /\ pid = "none"
  /\ hurt = "no" /\ changes = 0 /\ faults = 0 /\ restarts = 0

\* The cluster changes: a frontend, rule or backend is added or removed.
ClusterChange ==
  /\ changes < MaxChange
  /\ want' \in Want \ {want}
  /\ changes' = changes + 1
  /\ UNCHANGED <<pc, gen, outcome, files, nginx, mishaps>>

\* One step of the loop fails; there are at most MaxFault failures.
Fails(kind) ==
  /\ kind \in Faulty
  /\ faults < MaxFault
  /\ faults' = faults + 1
  /\ hurt' = IF kind \in Grave THEN "yes" ELSE hurt

Goto(from, to) == pc = from /\ pc' = to

-----------------------------------------------------------------------------
(* The alb process. *)

\* run-alb.sh: the status directory is created but never emptied.
StartAlb ==
  /\ Goto("down", "idle")
  /\ UNCHANGED <<want, gen, outcome, files, nginx, changes, mishaps>>

\* The process dies: a round that exceeds the reload timeout panics, and losing
\* the leader lease exits.  What it had done to the files stays done.
Crash ==
  /\ pc # "down" /\ pc' = "down"
  /\ gen' = NoFile /\ outcome' = "success"
  /\ Fails("crash")
  /\ UNCHANGED <<want, files, nginx, changes>>

\* GenerateNginxConfigAndPolicy: an error ends the round before any file is touched.
Generate ==
  /\ \/ Goto("idle", "truncate") /\ gen' = want /\ UNCHANGED mishaps
     \/ Goto("idle", "idle") /\ Fails("generate") /\ UNCHANGED gen
  /\ UNCHANGED <<want, outcome, files, nginx, changes>>

\* WriteConfig, os.WriteFile: truncates nginx.conf.new, then fills it.
TruncateConf ==
  /\ Goto("truncate", "write")
  /\ newConf' = Partial
  /\ UNCHANGED <<want, gen, outcome, conf, tmpPolicy, policy, markers,
                 nginx, changes, mishaps>>

\* Mutated form: a write that fails half way is taken for a success.
WriteConfSwallowsError ==
  /\ Goto("write", "createPolicy")
  /\ \/ newConf' = gen.conf /\ UNCHANGED mishaps
     \/ Fails("writeConf") /\ UNCHANGED newConf
  /\ UNCHANGED <<want, gen, outcome, conf, tmpPolicy, policy, markers,
                 nginx, changes>>

\* A write error leaves the file as it is and ends the round.
WriteConf ==
  /\ \/ Goto("write", "createPolicy") /\ newConf' = gen.conf /\ UNCHANGED <<gen, mishaps>>
     \/ Goto("write", "idle") /\ Fails("writeConf") /\ gen' = NoFile /\ UNCHANGED newConf
  /\ UNCHANGED <<want, outcome, conf, tmpPolicy, policy, markers,
                 nginx, changes>>

\* Mutated form: the policy is written in place.
CreatePolicyInPlace ==
  /\ \/ Goto("createPolicy", "renamePolicy") /\ tmpPolicy' = gen.policy /\ UNCHANGED mishaps
     \/ Goto("createPolicy", "idle") /\ Fails("writePolicy") /\ UNCHANGED tmpPolicy
  /\ policy' \in {Partial, gen.policy} /\ gen' = NoFile
  /\ UNCHANGED <<want, outcome, newConf, conf, markers, nginx, changes>>

\* updatePolicyFileRaw: the policy is written to a side file ...
CreatePolicy ==
  /\ \/ Goto("createPolicy", "renamePolicy") /\ tmpPolicy' = gen.policy /\ UNCHANGED mishaps
     \/ Goto("createPolicy", "idle") /\ Fails("writePolicy") /\ tmpPolicy' = Partial
  /\ gen' = NoFile
  /\ UNCHANGED <<want, outcome, newConf, conf, policy, markers, nginx, changes>>

\* ... and renamed over the file the nginx workers read.
RenamePolicy ==
  /\ \/ /\ Goto("renamePolicy", "compare")
        /\ policy' = tmpPolicy /\ tmpPolicy' = NoFile /\ UNCHANGED mishaps
     \/ Goto("renamePolicy", "idle") /\ Fails("writePolicy") /\ UNCHANGED <<policy, tmpPolicy>>
  /\ UNCHANGED <<want, gen, outcome, newConf, conf, markers, nginx, changes>>

\* sameFiles: a file that cannot be read differs from every other.
SameFiles(f, g) == f # NoFile /\ g # NoFile /\ f = g

\* getLastReloadStatus: the success marker alone decides.
LastReloadStatus == IF "success" \in markers THEN "success" ELSE "failed"

\* reverseStatus.
Reverse(status) == IF status = "success" THEN "failed" ELSE "success"

\* Mutated form: equal files end the round whatever became of the last reload.
CompareFilesOnly ==
  /\ pc = "compare"
  /\ outcome' = "success"
  /\ pc' = IF SameFiles(newConf, conf) THEN "setStatus" ELSE "rename"
  /\ UNCHANGED <<want, gen, files, nginx, changes, mishaps>>

\* ReloadLoadBalancer up to the early return: nothing changed and the last reload
\* succeeded, so leave nginx alone.  err starts as nil.
Compare ==
  /\ pc = "compare"
  /\ outcome' = "success"
  /\ \/ ~SameFiles(newConf, conf) /\ pc' = "rename"
     \/ SameFiles(newConf, conf) /\ LastReloadStatus = "success" /\ pc' = "setStatus"
     \/ SameFiles(newConf, conf) /\ LastReloadStatus = "failed" /\ pc' = "signal"
  /\ UNCHANGED <<want, gen, files, nginx, changes, mishaps>>

\* The new file replaces the old one.
Rename ==
  /\ \/ /\ Goto("rename", "signal")
        /\ conf' = newConf /\ newConf' = NoFile
        /\ UNCHANGED <<outcome, mishaps>>
     \/ /\ Goto("rename", "setStatus") /\ Fails("rename")
        /\ outcome' = "failed" /\ UNCHANGED <<conf, newConf>>
  /\ UNCHANGED <<want, gen, tmpPolicy, policy, markers, nginx, changes>>

\* Mutated form: a signal that could not be sent is not an error.
SignalIgnoresError ==
  /\ Goto("signal", "setStatus")
  /\ hup' = IF pid = "live" THEN "pending" ELSE hup
  /\ UNCHANGED <<want, gen, outcome, files, ngx, loaded, pid, restarts, changes, mishaps>>

\* GetProcessId and reload.  Without a pid file, or with the pid of a dead process,
\* the round fails; an empty pid file returns the nil error of the read.  The test
\* before the HUP (the file changed or the last reload failed) holds on every path
\* that comes here.
Signal ==
  /\ Goto("signal", "setStatus")
  /\ \/ pid = "live" /\ hup' = "pending" /\ UNCHANGED outcome
     \/ pid = "empty" /\ UNCHANGED <<hup, outcome>>
     \/ pid \in {"none", "stale"} /\ outcome' = "failed" /\ UNCHANGED hup
  /\ UNCHANGED <<want, gen, files, ngx, loaded, pid, restarts, changes, mishaps>>

\* setLastReloadStatus, in the deferred function: create the marker of this round ...
SetStatus ==
  /\ \/ /\ Goto("setStatus", "clearStatus")
        /\ markers' = markers \cup {outcome} /\ UNCHANGED <<outcome, mishaps>>
     \/ Goto("setStatus", "idle") /\ Fails("status") /\ outcome' = "success" /\ UNCHANGED markers
  /\ UNCHANGED <<want, gen, newConf, conf, tmpPolicy, policy, nginx, changes>>

\* ... then remove the opposite one.
ClearStatus ==
  /\ Goto("clearStatus", "idle")
  /\ \/ markers' = markers \ {Reverse(outcome)} /\ UNCHANGED mishaps
     \/ Fails("status") /\ UNCHANGED markers
  /\ outcome' = "success"
  /\ UNCHANGED <<want, gen, newConf, conf, tmpPolicy, policy, nginx, changes>>

Loop ==
  \/ Generate \/ TruncateConf \/ WriteConf \/ CreatePolicy \/ RenamePolicy
  \/ Compare \/ Rename \/ Signal \/ SetStatus \/ ClearStatus

-----------------------------------------------------------------------------
(* The nginx container. *)

\* run-nginx.sh: test for nginx.conf ...
CheckConf ==
  /\ ngx = "down"
  /\ ngx' = IF conf = NoFile THEN "copy" ELSE "checked"
  /\ UNCHANGED <<want, pc, gen, outcome, files, loaded, hup, pid, restarts, changes, mishaps>>

\* ... and copy the shipped one, over whatever is there by now.  The step is the
\* moment cp opens the file: nginx starts after cp ends, the controller finds a
\* half-copied file as different from its own as a whole one, and a rename that
\* overtakes cp wins.
CopyInitConf ==
  /\ ngx = "copy" /\ ngx' = "checked"
  /\ conf' = InitConf
  /\ UNCHANGED <<want, pc, gen, outcome, newConf, tmpPolicy, policy, markers,
                 loaded, hup, pid, restarts, changes, mishaps>>

\* nginx reads its configuration; it exits when it cannot load it.
ReadConf ==
  /\ ngx = "checked"
  /\ IF conf \in BadConf \cup {Partial}
     THEN ngx' = "down" /\ UNCHANGED loaded
     ELSE ngx' = "read" /\ loaded' = conf
  /\ UNCHANGED <<want, pc, gen, outcome, files, hup, pid, restarts, changes, mishaps>>

\* The pid file is created and then written; the controller may find it empty.
CreatePid ==
  /\ ngx = "read"
  /\ \/ Fails("emptyPid") /\ ngx' = "pid" /\ pid' = "empty"
     \/ ngx' = "run" /\ pid' = "live" /\ UNCHANGED mishaps
  /\ UNCHANGED <<want, pc, gen, outcome, files, loaded, hup, restarts, changes>>

WritePid ==
  /\ ngx = "pid" /\ ngx' = "run"
  /\ pid' = "live"
  /\ UNCHANGED <<want, pc, gen, outcome, files, loaded, hup, restarts, changes, mishaps>>

\* HUP: load the file if it can be loaded, keep the running configuration if not.
HandleHup ==
  /\ ngx = "run" /\ hup = "pending"
  /\ hup' = "none"
  /\ loaded' = IF conf \in BadConf \cup {NoFile, Partial} THEN loaded ELSE conf
  /\ UNCHANGED <<want, pc, gen, outcome, files, ngx, pid, restarts, changes, mishaps>>

\* nginx dies; it removes its pid file when it can, and a killed one leaves it behind.
NginxDies ==
  /\ ngx # "down" /\ restarts < MaxRestart
  /\ ngx' = "down" /\ loaded' = NoFile /\ hup' = "none"
  /\ pid' \in IF pid = "live" THEN {"none", "stale"} ELSE {pid}
  /\ restarts' = restarts + 1
  /\ UNCHANGED <<want, pc, gen, outcome, files, changes, mishaps>>

Nginx == CheckConf \/ CopyInitConf \/ ReadConf \/ CreatePid \/ WritePid \/ HandleHup

Next == ClusterChange \/ StartAlb \/ Crash \/ Loop \/ Nginx \/ NginxDies

\* The kubelet restarts dead containers, the loop is a timer, nginx handles signals.
Spec == Init /\ [][Next]_vars /\ WF_vars(StartAlb) /\ WF_vars(Loop) /\ WF_vars(Nginx)

-----------------------------------------------------------------------------
(* Properties. *)

\* WriteConfig writes nginx.conf.new in place, and a crash or a write error may leave
\* half of it; such a file never reaches nginx.conf, so nginx never reads one.
NginxConfWhole == conf # Partial /\ loaded # Partial

\* updatePolicyFileRaw writes beside the policy file and renames: the nginx workers,
\* which read it every second, never find half a policy.
PolicyWhole == policy # Partial

\* No file that another process reads is ever half-written, although every write may be
\* cut short (GenerateNginxConfigAndReload).
FilesWhole == NginxConfWhole /\ PolicyWhole

\* nginx, once it has read a configuration, runs what nginx.conf holds, or has a
\* reload pending, or nginx.conf cannot be loaded.
NginxFresh ==
  ngx \in {"read", "pid", "run"} =>
    loaded = conf \/ (hup = "pending" /\ ngx = "run") \/ conf \in BadConf

\* ReloadLoadBalancer skips nginx when the files are equal and the success marker
\* exists: between rounds the marker means nginx has the file or is about to load it,
\* as long as the controller has not died, missed a marker or met an empty pid file.
SuccessMeansLoaded ==
  hurt = "no" /\ pc = "idle" /\ "success" \in markers => NginxFresh

\* The reload loop makes the custom resources take effect: once the cluster stops
\* changing, nginx runs the configuration asked for, unless it cannot be loaded, and
\* the policy file holds the policy asked for.  (The policy alone survives every fault;
\* for the configuration see Grave.)
TakesEffect ==
  <>[](/\ policy = want.policy
       /\ hurt = "no" /\ want.conf \notin BadConf => ngx = "run" /\ loaded = want.conf)
=============================================================================
