---------------------------- MODULE ContextFiles ----------------------------
(***************************************************************************)
(* The files of a context directory (common/context/tools.c) and the       *)
(* processes that share it: calls of lcfgcontext_update_pending, which     *)
(* change .context under a lock that waiters break after a timeout, and    *)
(* calls of lcfgcontext_pending_to_active, which copy it to .active under  *)
(* no lock.  Each system call that another process can see is a step; any  *)
(* process may stop for good between two steps, and any call may fail.     *)
(***************************************************************************)
EXTENDS ContextList, FiniteSets

CONSTANTS
  Updater,       (* The calls of lcfgcontext_update_pending.              *)
  Activator,     (* The calls of lcfgcontext_pending_to_active.           *)
  Workloads,     (* The contexts each update is given, a set of choices.  *)
  Directories,   (* What the pending and the active file may be at first. *)
  Timeout,       (* Seconds to wait for the lock: 5 in the code.          *)
  MaxTroubles,   (* Bound on the processes that stop and the system calls *)
                 (* that fail.                                            *)
  NoOne          (* The lock file does not exist.                         *)

Process == Updater \cup Activator

ASSUME UpdaterAssumption == IsFiniteSet(Updater) /\ NoOne \notin Updater
ASSUME ActivatorAssumption == Updater \cap Activator = {}
ASSUME LimitsAssumption == Timeout \in Nat /\ MaxTroubles \in Nat

(* The lines of a file or the contexts of a call.                          *)
IsText(lines) ==
  /\ lines \in Seq(ToSet(lines))
  /\ \A i \in DOMAIN lines : \/ lines[i] \in {Comment, Malformed}
                              \/ lines[i] = [ name |-> lines[i].name, value |-> lines[i].value ]

(* A file that is not there has no lines; one that is has a time.          *)
ASSUME FilesAssumption ==
  /\ \A d \in Directories : \A file \in { d[1], d[2] } :
       /\ IsText(file.lines) /\ file.mtime \in Nat
       /\ file = [ lines |-> file.lines, mtime |-> file.mtime ]
       /\ file.mtime = 0 => file.lines = <<>>
  /\ \A w \in Workloads, u \in Updater : IsText(w[u])

VARIABLES
  pending,   (* .context: its lines and its modification time             *)
  active,    (* .active: likewise                                         *)
  lock,      (* the call whose temporary file .lockfile links to          *)
  pc,        (* the next step of each process                             *)
  request,   (* the contexts array of each update                         *)
  patience,  (* timeout of lcfgcontext_lock                               *)
  locked,    (* locked of lcfgcontext_update_pending                      *)
  text,      (* the lines the process is to write                         *)
  mtime,     (* pending_mtime of lcfgcontext_pending_to_active            *)
  answer,    (* the LCFGChange of each call                               *)
  faults,    (* how many system calls have failed                         *)
  outslept,  (* a waiter slept for a second while the lock was in use     *)
  serial,    (* the lines the completed updates make when taken one by    *)
             (* one, in the order in which they renamed their files       *)
  wrote,     (* the updates that have replaced the pending file           *)
  seen,      (* the pending file an activation opened, and those that     *)
             (* took its place before it asked for the time               *)
  unstamped  (* the activations whose stat or utime has failed            *)

files == << pending, active >>
history == << outslept, serial, wrote, seen, unstamped >>
locals == << request, patience, locked, text, mtime >>
vars == << files, lock, pc, locals, answer, faults, history >>

(* Modification times: 0 of a file that is not there, then the number of   *)
(* the version.  Now is the time of an active file nobody has stamped yet. *)
NoFile == [ lines |-> <<>>, mtime |-> 0 ]
Now == -1

Init ==
  /\ \E d \in Directories : pending = d[1] /\ active = d[2]
  /\ lock = NoOne
  /\ pc = [ p \in Process |-> "start" ]
  /\ request \in Workloads
  /\ patience = [ u \in Updater |-> Timeout ]
  /\ locked = [ u \in Updater |-> FALSE ]
  /\ text = [ p \in Process |-> <<>> ]
  /\ mtime = [ a \in Activator |-> 0 ]
  /\ answer = [ p \in Process |-> "none" ]
  /\ faults = 0
  /\ outslept = FALSE
  /\ serial = pending.lines
  /\ wrote = {}
  /\ seen = [ a \in Activator |-> {} ]
  /\ unstamped = {}

Goto(p, step) == pc' = [ pc EXCEPT ![p] = step ]
Answer(p, change) == answer' = [ answer EXCEPT ![p] = change ]

Crashed == { p \in Process : pc[p] = "crashed" }

TroubleLeft == Cardinality(Crashed) + faults < MaxTroubles

(* A system call fails.                                                    *)
Fault == TroubleLeft /\ faults' = faults + 1

(* The calls that have the lock, or had it and do not know that it has     *)
(* been broken.                                                            *)
Holders ==
  { u \in Updater : locked[u] /\ pc[u] \in {"load", "replace", "unlock"} }

-----------------------------------------------------------------------------
(* lcfgcontext_update_pending                                              *)

(* No updates: nothing to do, not even a lock.                             *)
Begin(u) ==
  /\ pc[u] = "start"
  /\ IF request[u] = <<>> THEN Answer(u, "NONE") /\ Goto(u, "done")
     ELSE UNCHANGED answer /\ Goto(u, "link")
  /\ UNCHANGED << files, lock, locals, faults, history >>

(* A variant of Link that takes the lock when there is one.                *)
LinkForced(u) ==
  /\ pc[u] = "link"
  /\ lock' = u
  /\ locked' = [ locked EXCEPT ![u] = TRUE ]
  /\ patience' = [ patience EXCEPT ![u] = Timeout ]
  /\ Goto(u, "load")
  /\ UNCHANGED << files, request, text, mtime, answer, faults, history >>

(* The symlink of the first attempt, the link of the next ones.            *)
Link(u) ==
  /\ pc[u] = "link"
  /\ IF lock = NoOne
     THEN /\ lock' = u
          /\ locked' = [ locked EXCEPT ![u] = TRUE ]
          /\ patience' = [ patience EXCEPT ![u] = Timeout ]
          /\ Goto(u, "load")
     ELSE Goto(u, "wait") /\ UNCHANGED << lock, locked, patience >>
  /\ UNCHANGED << files, request, text, mtime, answer, faults, history >>

(* The waiter sleeps for a second, in which a quick call would have ended. *)
Sleep(u) ==
  /\ pc[u] = "wait" /\ patience[u] > 0
  /\ patience' = [ patience EXCEPT ![u] = @ - 1 ]
  /\ outslept' = (outslept \/ Holders # {})
  /\ Goto(u, "link")
  /\ UNCHANGED << files, lock, request, locked, text, mtime, answer, faults,
                  serial, wrote, seen, unstamped >>

(* Variants of BreakLock: one second too early, and only if it is the      *)
(* waiter's own lock.                                                      *)
BreakLockEarly(u) ==
  /\ pc[u] = "wait" /\ patience[u] <= 1
  /\ lock' = NoOne
  /\ Goto(u, "link")
  /\ UNCHANGED << files, locals, answer, faults, history >>

BreakOwnLock(u) ==
  /\ pc[u] = "wait" /\ patience[u] = 0
  /\ lock' = IF lock = u THEN NoOne ELSE lock
  /\ Goto(u, "link")
  /\ UNCHANGED << files, locals, answer, faults, history >>

(* The waiter removes the lock of whoever has it now.                      *)
BreakLock(u) ==
  /\ pc[u] = "wait" /\ patience[u] = 0
  /\ lock' = NoOne
  /\ Goto(u, "link")
  /\ UNCHANGED << files, locals, answer, faults, history >>

(* Loads the pending file, which others replace but never change, applies  *)
(* the updates and looks for differences.                                  *)
Load(u) ==
  LET lines == pending.lines
      readable == Malformed \notin Range(lines) \cup Range(request[u])
  IN  /\ pc[u] = "load"
      /\ IF /\ readable
            /\ Diff(FromFile(lines), NewList(FromFile(lines), request[u]))
         THEN /\ text' = [ text EXCEPT ![u] = NewLines(lines, request[u]) ]
              /\ Goto(u, "replace") /\ UNCHANGED answer
         ELSE /\ Answer(u, IF readable THEN "NONE" ELSE "ERROR")
              /\ Goto(u, "unlock") /\ UNCHANGED text
      /\ UNCHANGED << files, lock, request, patience, locked, mtime, faults,
                      history >>

(* Writes and closes the temporary file and renames it.                    *)
Replace(u) ==
  /\ pc[u] = "replace"
  /\ pending' = [ lines |-> text[u], mtime |-> pending.mtime + 1 ]
  /\ serial' = NewLines(serial, request[u])
  /\ wrote' = wrote \cup {u}
  /\ seen' = [ a \in Activator |->
                 IF pc[a] = "stat" THEN seen[a] \cup {pending'} ELSE seen[a] ]
  /\ text' = [ text EXCEPT ![u] = <<>> ]
  /\ Answer(u, "MODIFIED")
  /\ Goto(u, "unlock")
  /\ UNCHANGED << active, lock, request, patience, locked, mtime, faults,
                  outslept, unstamped >>

(* The cleanup, of every call that created its temporary file: it removes  *)
(* the lock file, whoever made it.                                         *)
Unlock(u) ==
  /\ pc[u] = "unlock"
  /\ lock' = NoOne
  /\ Goto(u, "done")
  /\ UNCHANGED << files, locals, answer, faults, history >>

(* A variant of Abandon that answers by what it found to have changed.     *)
AbandonChanged(u) ==
  /\ \/ pc[u] = "link" /\ lock = NoOne
     \/ pc[u] = "wait" /\ patience[u] = 0 /\ lock # NoOne
     \/ pc[u] \in {"load", "replace"}
  /\ Fault
  /\ patience' = [ patience EXCEPT ![u] = Timeout ]
  /\ text' = [ text EXCEPT ![u] = <<>> ]
  /\ Answer(u, IF pc[u] = "replace" THEN "MODIFIED" ELSE "ERROR")
  /\ Goto(u, "unlock")
  /\ UNCHANGED << files, lock, request, locked, mtime, history >>

(* The steps of an update that end in its cleanup when they fail: links    *)
(* for another reason than that the lock exists, breaking the lock,        *)
(* loading, writing and renaming.                                          *)
Abandon(u) ==
  /\ \/ pc[u] = "link" /\ lock = NoOne
     \/ pc[u] = "wait" /\ patience[u] = 0 /\ lock # NoOne
     \/ pc[u] \in {"load", "replace"}
  /\ Fault
  /\ patience' = [ patience EXCEPT ![u] = Timeout ]
  /\ text' = [ text EXCEPT ![u] = <<>> ]
  /\ Answer(u, "ERROR")
  /\ Goto(u, "unlock")
  /\ UNCHANGED << files, lock, request, locked, mtime, history >>

(* The directory cannot be made, or the lock not removed.                  *)
EndInError(u) ==
  /\ \/ pc[u] = "start" /\ request[u] # <<>>
     \/ pc[u] = "unlock" /\ lock # NoOne
  /\ Fault
  /\ Answer(u, "ERROR")
  /\ Goto(u, "done")
  /\ UNCHANGED << files, lock, locals, history >>

-----------------------------------------------------------------------------
(* lcfgcontext_pending_to_active                                           *)

(* Opens the pending file, which fixes what will be read.                  *)
OpenPending(a) ==
  /\ pc[a] = "start"
  /\ text' = [ text EXCEPT ![a] = pending.lines ]
  /\ seen' = [ seen EXCEPT ![a] = {pending} ]
  /\ IF Malformed \in Range(pending.lines)
     THEN Answer(a, "ERROR") /\ Goto(a, "done")
     ELSE /\ Goto(a, IF pending = NoFile THEN "compare" ELSE "stat")
          /\ UNCHANGED answer
  /\ UNCHANGED << files, lock, request, patience, locked, mtime, faults,
                  outslept, serial, wrote, unstamped >>

(* Asks for the time of the file that has the name by now; if that fails   *)
(* the time stays 0 and nobody is told.                                    *)
StatPending(a) ==
  /\ pc[a] = "stat"
  /\ \/ /\ mtime' = [ mtime EXCEPT ![a] = pending.mtime ]
        /\ UNCHANGED << faults, unstamped >>
     \/ /\ Fault
        /\ unstamped' = unstamped \cup {a}
        /\ UNCHANGED mtime
  /\ Goto(a, "compare")
  /\ UNCHANGED << files, lock, request, patience, locked, text, answer,
                  outslept, serial, wrote, seen >>

(* Loads the active file and compares.  The profile of an active context   *)
(* may have been modified since, which counts as a change.                 *)
Compare(a) ==
  /\ pc[a] = "compare"
  /\ \E profileChanged \in BOOLEAN :
       IF Malformed \in Range(active.lines)
       THEN Answer(a, "ERROR") /\ Goto(a, "done")
       ELSE LET old == FromFile(active.lines)
            IN  IF \/ Diff(old, FromFile(text[a]))
                   \/ profileChanged /\ old # <<>>
                THEN Answer(a, "MODIFIED") /\ Goto(a, "write")
                ELSE Answer(a, "NONE") /\ Goto(a, "stamp")
  /\ UNCHANGED << files, lock, locals, faults, history >>

(* Writes a temporary file and renames it.                                 *)
WriteActive(a) ==
  /\ pc[a] = "write"
  /\ active' = [ lines |-> Printed(FromFile(text[a])), mtime |-> Now ]
  /\ Goto(a, "stamp")
  /\ UNCHANGED << pending, lock, locals, answer, faults, history >>

(* A variant of StampActive that does not ask if the time is known.        *)
StampAlways(a) ==
  /\ pc[a] = "stamp"
  /\ active' = IF active # NoFile
               THEN [ active EXCEPT !.mtime = mtime[a] ] ELSE active
  /\ text' = [ text EXCEPT ![a] = <<>> ]
  /\ mtime' = [ mtime EXCEPT ![a] = 0 ]
  /\ Goto(a, "done")
  /\ UNCHANGED << pending, lock, request, patience, locked, answer, faults,
                  history >>

(* utime, if the time of the pending file is known, on the active file, if *)
(* there is one; it may fail and the result is not looked at.              *)
StampActive(a) ==
  /\ pc[a] = "stamp"
  /\ \/ /\ active' = IF mtime[a] # 0 /\ active # NoFile
                     THEN [ active EXCEPT !.mtime = mtime[a] ] ELSE active
        /\ UNCHANGED << faults, unstamped >>
     \/ /\ mtime[a] # 0 /\ active # NoFile
        /\ Fault
        /\ unstamped' = unstamped \cup {a}
        /\ UNCHANGED active
  /\ text' = [ text EXCEPT ![a] = <<>> ]
  /\ mtime' = [ mtime EXCEPT ![a] = 0 ]
  /\ Goto(a, "done")
  /\ UNCHANGED << pending, lock, request, patience, locked, answer, outslept,
                  serial, wrote, seen >>

(* The directory cannot be made, a file not be read, or not be written.    *)
ActivateFails(a) ==
  /\ pc[a] \in {"start", "compare", "write"}
  /\ Fault
  /\ Answer(a, "ERROR")
  /\ Goto(a, "done")
  /\ UNCHANGED << files, lock, locals, history >>

-----------------------------------------------------------------------------
(* A process stops: its memory is gone, the files stay, the lock file too. *)
CrashOf(p) ==
  /\ pc[p] \notin {"done", "crashed"}
  /\ TroubleLeft
  /\ Goto(p, "crashed")
  /\ text' = [ text EXCEPT ![p] = <<>> ]
  /\ UNCHANGED << files, lock, request, answer, faults, outslept, serial,
                  wrote, unstamped >>

CrashUpdater(u) ==
  /\ CrashOf(u)
  /\ patience' = [ patience EXCEPT ![u] = Timeout ]
  /\ locked' = [ locked EXCEPT ![u] = FALSE ]
  /\ UNCHANGED << mtime, seen >>

CrashActivator(a) ==
  /\ CrashOf(a)
  /\ mtime' = [ mtime EXCEPT ![a] = 0 ]
  /\ seen' = [ seen EXCEPT ![a] = {} ]
  /\ UNCHANGED << patience, locked >>

UpdaterStep(u) ==
  \/ Begin(u) \/ Link(u) \/ Sleep(u) \/ BreakLock(u) \/ Load(u)
  \/ Replace(u) \/ Unlock(u) \/ Abandon(u) \/ EndInError(u)

ActivatorStep(a) ==
  \/ OpenPending(a) \/ StatPending(a) \/ Compare(a) \/ WriteActive(a)
  \/ StampActive(a) \/ ActivateFails(a)

Work ==
  \/ \E u \in Updater : UpdaterStep(u)
  \/ \E a \in Activator : ActivatorStep(a)

Next ==
  \/ Work
  \/ \E u \in Updater : CrashUpdater(u)
  \/ \E a \in Activator : CrashActivator(a)

(* Processes are scheduled and a second of sleep ends: as long as one that *)
(* has not stopped has a step to take, one of them takes a step.           *)
Fairness == WF_vars(Work)

Spec == Init /\ [][Next]_vars /\ Fairness

-----------------------------------------------------------------------------
Steps == { "start", "link", "wait", "load", "replace", "unlock", "stat",
           "compare", "write", "stamp", "done", "crashed" }
Changes == { "none", "NONE", "MODIFIED", "ERROR" }

(* The calls between taking the lock and renaming: what they read is what  *)
(* they replace.                                                           *)
Updating == { u \in Updater : pc[u] \in {"load", "replace"} }

(* Nothing has gone wrong so far: no process has stopped, no system call   *)
(* has failed and no waiter has slept for a second while a call was at     *)
(* work on the file.                                                       *)
Calm == Crashed = {} /\ faults = 0 /\ ~outslept

(* Every wait is for another call, so that so few calls cannot use up the  *)
(* patience of one of them.                                                *)
FewCalls == Cardinality(Updater) <= Timeout + 1

(* The steps, the answers, the patience and the lock have the values the   *)
(* code gives them.                                                        *)
TypeOK ==
  /\ lock \in Updater \cup {NoOne}
  /\ pc \in [ Process -> Steps ]
  /\ patience \in [ Updater -> 0 .. Timeout ]
  /\ locked \in [ Updater -> BOOLEAN ]
  /\ answer \in [ Process -> Changes ]
  /\ faults \in Nat
  /\ outslept \in BOOLEAN
  /\ wrote \subseteq Updater
  /\ unstamped \subseteq Activator

(* "Take an exclusive lock": while nothing goes wrong at most one call is  *)
(* between loading and renaming, though a waiter takes the lock away when  *)
(* its patience ends.                                                      *)
ExclusiveWhenCalm ==
  Calm /\ FewCalls => \A u, v \in Updating : u = v

(* No update is lost: the pending file is what the updates that replaced   *)
(* it make when they are made one after the other.                         *)
NoLostUpdate == Calm /\ FewCalls => pending.lines = serial

(* MODIFIED is answered only by a call that replaced the pending file and  *)
(* NONE only by one that did not, whatever has failed or stopped.          *)
AnswersHonest ==
  \A u \in Updater :
    pc[u] = "done" => /\ answer[u] = "MODIFIED" => u \in wrote
                      /\ answer[u] = "NONE" => u \notin wrote

(* When an activation ends well, the active file has the contexts of the   *)
(* pending file it opened and the time of the one that had the name when   *)
(* it asked: a later one only if an update was renamed in between, and     *)
(* then the old contents pass for the new ones.  A stat or utime that      *)
(* fails, and a pending file that is not there, leave the time as it was,  *)
(* now if the file was written, with the same answer; and without contexts *)
(* no active file is made where there was none.  The comment of            *)
(* lcfgcontext_pending_to_active says that the time "will always be        *)
(* updated" and that "an empty active file will be created".               *)
(* It speaks of one activation at a time.                                  *)
ActivationFresh ==
  (\A a, b \in Activator : a = b) =>
    \A a \in Activator :
      pc[a] = "done" /\ answer[a] # "ERROR" =>
        \E opened, asked \in seen[a] :
          /\ \A f \in seen[a] : opened.mtime <= f.mtime /\ f.mtime <= asked.mtime
          /\ Contexts(active.lines) = Contexts(opened.lines)
          /\ IF a \in unstamped \/ opened = NoFile \/ active = NoFile
             THEN answer[a] = "MODIFIED" => active.mtime = Now
             ELSE active.mtime = asked.mtime

(* Every call returns, however the others stop: the lock of one that has   *)
(* stopped is broken in the end.                                           *)
EveryCallReturns ==
  <>(\A p \in Process : pc[p] \in {"done", "crashed"})

(* "Other processes attempting to do the same thing are blocked and have   *)
(* to wait", also when a call has stopped with the lock: all the others    *)
(* are quick.                                                              *)
ExclusiveDespiteCrash ==
  faults = 0 /\ ~outslept /\ FewCalls => \A u, v \in Updating : u = v

(* Steps, answers, patience and lock are of their kinds, and while nothing *)
(* fails, stops or dawdles one call at a time is between lcfgcontext_lock  *)
(* and lcfgcontext_unlock.                                                 *)
LockSound == TypeOK /\ ExclusiveWhenCalm
=============================================================================
