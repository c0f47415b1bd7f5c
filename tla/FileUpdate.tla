----------------------------- MODULE FileUpdate -----------------------------
(***************************************************************************)
(* How files are written (utils/utils.c): the contents go to a temporary   *)
(* file in the directory of the target, which is renamed to the target if  *)
(* the two differ.  The callers are lcfgcompset_to_status_dir, which       *)
(* writes one file after another, the writers of lists                     *)
(* (lcfgctxlist_to_file, lcfgpkglist_to_rpmlist, lcfgpkgset_to_rpmcfg,     *)
(* lcfgdiffprofile_to_holdfile and their likes), which pass a modification *)
(* time, and lcfgprofile_to_bdb, which renames without a comparison.       *)
(*                                                                         *)
(* Several processes write at once.  Every system call may fail, and a     *)
(* process may stop between any two.  Temporary names are never used       *)
(* twice: mkstemp picks them at random, so each process has its own.       *)
(***************************************************************************)
EXTENDS Integers, Sequences, FiniteSets

CONSTANTS
  Writers,       (* Processes.                                            *)
  StatusFiles,   (* Files of the status directory.                        *)
  ListFile,      (* A file with a list.                                   *)
  StoreFile,     (* The database.                                         *)
  Contents,      (* Texts, none of which is the start of another.         *)
  None,
  MaxCalls,      (* Bound on the number of calls.                         *)
  MaxFaults      (* Bound on failures and crashes.                        *)

ASSUME ContentsAssumption ==
  /\ Contents \subseteq Seq(STRING) \ {<< >>}
  /\ \A c \in Contents, d \in Contents : \A k \in 0..(Len(c) - 1) : SubSeq(c, 1, k) # d

ASSUME BoundsAssumption == MaxCalls \in Nat /\ MaxFaults \in Nat

ASSUME FilesAssumption == StoreFile \notin StatusFiles \cup {ListFile}

Files == StatusFiles \cup {ListFile, StoreFile}

Kinds == {"status", "list", "store"}

Steps == {"next", "open", "print", "compare", "rename", "utime", "cleanup"}

(* A call: what it writes, the files it has still to do, and what became   *)
(* of it so far.  The last fields are history: the files for which it has  *)
(* passed over a failure to write or to read, those for which it has       *)
(* passed over a failure to set the time, and if no other call has been    *)
(* running with it.                                                        *)
Calls == [ kind : Kinds, want : Contents, time : 0..1, todo : SUBSET Files,
           file : Files \cup {None}, step : Steps, ok : BOOLEAN,
           passed : SUBSET Files, unset : SUBSET Files, alone : BOOLEAN ]

(* What a write that fails leaves of a text.                               *)
Parts(text) == { SubSeq(text, 1, k) : k \in 0..(Len(text) - 1) }

(* None is neither a call nor a text that is written.                      *)
ASSUME NullAssumption ==
  /\ None \notin Calls
  /\ \A c \in Contents : \A k \in 0..Len(c) : SubSeq(c, 1, k) # None

VARIABLES
  disk,      (* contents of every file, None for none                     *)
  mtime,     (* modification times; 0 is any time of its own              *)
  tmp,       (* the temporary file of each process, None for none         *)
  call,      (* what each process does, None for nothing                  *)
  litter,    (* temporary files nobody will remove                        *)
  calls,     (* number of calls so far                                    *)
  faults,    (* number of failures so far                                 *)
  held,      (* history: files that had the contents of a running call    *)
  torn       (* history: the last call to replace the database had passed *)
             (* over a failure to write it                                *)

fileVars == << disk, mtime, tmp, call, litter, calls, faults, held, torn >>

Targets(kind) ==
  CASE kind = "status" -> StatusFiles
    [] kind = "list" -> {ListFile}
    [] kind = "store" -> {StoreFile}

FileInit ==
  /\ disk = [ f \in Files |-> None ]
  /\ mtime = [ f \in Files |-> 0 ]
  /\ tmp = [ w \in Writers |-> None ]
  /\ call = [ w \in Writers |-> None ]
  /\ litter = 0 /\ calls = 0 /\ faults = 0
  /\ held = [ w \in Writers |-> {} ]
  /\ torn = FALSE

At(w, step) == call[w] # None /\ call[w].step = step

Goto(w, step) == call' = [ call EXCEPT ![w].step = step ]

(* The change becomes LCFG_CHANGE_ERROR.                                   *)
Fail(w, step) == call' = [ call EXCEPT ![w].step = step, ![w].ok = FALSE ]

(* A failure to read or write the file at hand changes nothing.            *)
PassOver(w, step) ==
  call' = [ call EXCEPT ![w].step = step, ![w].passed = call[w].passed \cup {call[w].file} ]

Fault == faults < MaxFaults /\ faults' = faults + 1

NoFault == UNCHANGED faults

(* Files of running calls that hold, or have held, what the call wants.    *)
Observe ==
  held' = [ w \in Writers |->
    IF call'[w] = None
    THEN {}
    ELSE (IF call[w] = None THEN {} ELSE held[w])
           \cup { f \in Targets(call'[w].kind) : disk'[f] = call'[w].want } ]
-----------------------------------------------------------------------------
Alone(w) == \A v \in Writers \ {w} : call[v] = None

Begin(w, kind, want, time) ==
  /\ call[w] = None
  /\ calls < MaxCalls
  /\ calls' = calls + 1
  /\ call' = [ v \in Writers |->
       CASE v = w -> [ kind |-> kind, want |-> want, time |-> time, todo |-> Targets(kind), file |-> None,
                       step |-> "next", ok |-> TRUE, passed |-> {}, unset |-> {},
                       alone |-> Alone(w) ]
         [] v # w /\ call[v] # None -> [ call[v] EXCEPT !.alone = FALSE ]
         [] OTHER -> None ]
  /\ UNCHANGED << disk, torn, mtime, tmp, litter >> /\ NoFault

(* The calls.  They differ in what they print, which is the contents here, *)
(* in their files, and in the time they set.                               *)
ToStatusDir(w, want) == Begin(w, "status", want, 0)

CtxlistToFile(w, want, time) == Begin(w, "list", want, time)

PkglistToRpmlist(w, want, time) == Begin(w, "list", want, time)

PkgsetToRpmlist(w, want, time) == Begin(w, "list", want, time)

PkglistToRpmcfg(w, want, time) == Begin(w, "list", want, time)

PkgsetToRpmcfg(w, want, time) == Begin(w, "list", want, time)

DiffprofileToHoldfile(w, want) == Begin(w, "list", want, 0)

ProfileToBdb(w, want, time) == Begin(w, "store", want, time)

(* The loop of lcfgcompset_to_status_dir ends with the first error.        *)
NextFile(w) ==
  /\ At(w, "next")
  /\ call[w].ok
  /\ \E f \in call[w].todo :
       call' = [ call EXCEPT ![w].file = f, ![w].todo = call[w].todo \ {f}, ![w].step = "open" ]
  /\ UNCHANGED << disk, torn, mtime, tmp, litter, calls >> /\ NoFault

(* lcfgutils_safe_tmpfile.  When the file can be made but not be opened as *)
(* a stream, its name is forgotten and it stays.                           *)
Open(w) ==
  /\ At(w, "open")
  /\ \/ /\ tmp' = [ tmp EXCEPT ![w] = << >> ]
        /\ Goto(w, "print") /\ NoFault
        /\ UNCHANGED litter
     \/ /\ Fault
        /\ Fail(w, "cleanup")
        /\ litter' \in {litter, litter + 1}
        /\ UNCHANGED tmp
  /\ UNCHANGED << disk, torn, mtime, calls >>

(* Variant: the result of the print and the close is not looked at.        *)
AfterBadPrintUnchecked(w) == Goto(w, "rename")

(* lcfgbdb_close_db drops the result of the close, which writes what the   *)
(* database still has in memory.                                           *)
AfterBadPrint(w) ==
  \/ Fail(w, "cleanup")
  \/ /\ call[w].kind = "store"
     /\ PassOver(w, "rename")

(* The contents are printed and the file is closed; a failure of either    *)
(* leaves a part of them.                                                  *)
WriteOut(w) ==
  /\ At(w, "print")
  /\ \/ /\ tmp' = [ tmp EXCEPT ![w] = call[w].want ]
        /\ Goto(w, IF call[w].kind = "store" THEN "rename" ELSE "compare") /\ NoFault
     \/ /\ Fault
        /\ \E part \in Parts(call[w].want) : tmp' = [ tmp EXCEPT ![w] = part ]
        /\ AfterBadPrint(w)
  /\ UNCHANGED << disk, torn, mtime, litter, calls >>

(* Variant: files of one size are taken for equal.                         *)
NeedsUpdateBySize(cur, new) == cur = None \/ Len(cur) # Len(new)

(* lcfgutils_file_needs_update.                                            *)
NeedsUpdate(cur, new) ==
  \/ cur = None
  \/ Len(cur) # Len(new)
  \/ \E i \in DOMAIN cur : cur[i] # new[i]

(* A current file that cannot be read is replaced, a temporary file that   *)
(* cannot be read again is not used.                                       *)
Compare(w) ==
  /\ At(w, "compare")
  /\ \/ /\ Goto(w, IF NeedsUpdate(disk[call[w].file], tmp[w]) THEN "rename" ELSE "utime") /\ NoFault
     \/ /\ Fault
        /\ \/ Goto(w, "rename")
           \/ disk[call[w].file] # None /\ PassOver(w, "utime")
  /\ UNCHANGED << disk, torn, mtime, tmp, litter, calls >>

Rename(w) ==
  /\ At(w, "rename")
  /\ \/ /\ disk' = [ disk EXCEPT ![call[w].file] = tmp[w] ]
        /\ mtime' = [ mtime EXCEPT ![call[w].file] = 0 ]
        /\ tmp' = [ tmp EXCEPT ![w] = None ]
        /\ torn' = IF call[w].file = StoreFile THEN StoreFile \in call[w].passed ELSE torn
        /\ Goto(w, "utime") /\ NoFault
     \/ /\ Fault
        /\ Fail(w, "cleanup")
        /\ UNCHANGED << disk, torn, mtime, tmp >>
  /\ UNCHANGED << litter, calls >>

(* With a time given; a failure of utime changes neither the answer nor    *)
(* what follows.                                                           *)
Utime(w) ==
  /\ At(w, "utime")
  /\ \/ /\ mtime' = IF call[w].time = 0 THEN mtime
                    ELSE [ mtime EXCEPT ![call[w].file] = call[w].time ]
        /\ Goto(w, "cleanup") /\ NoFault
     \/ /\ call[w].time # 0
        /\ Fault
        /\ call' = [ call EXCEPT ![w].step = "cleanup", ![w].unset = call[w].unset \cup {call[w].file} ]
        /\ UNCHANGED mtime
  /\ UNCHANGED << disk, torn, tmp, litter, calls >>

(* unlink, whose result is of no interest.                                 *)
Cleanup(w) ==
  /\ At(w, "cleanup")
  /\ tmp' = [ tmp EXCEPT ![w] = None ]
  /\ Goto(w, "next")
  /\ \/ UNCHANGED litter /\ NoFault
     \/ tmp[w] # None /\ Fault /\ litter' = litter + 1
  /\ UNCHANGED << disk, torn, mtime, calls >>

Return(w) ==
  /\ At(w, "next")
  /\ call[w].todo = {} \/ ~call[w].ok
  /\ call' = [ call EXCEPT ![w] = None ]
  /\ UNCHANGED << disk, torn, mtime, tmp, litter, calls >> /\ NoFault

(* The process stops; its temporary file stays.                            *)
Crash(w) ==
  /\ call[w] # None
  /\ Fault
  /\ litter' = litter + IF tmp[w] = None THEN 0 ELSE 1
  /\ tmp' = [ tmp EXCEPT ![w] = None ]
  /\ call' = [ call EXCEPT ![w] = None ]
  /\ UNCHANGED << disk, torn, mtime, calls >>

Step(w) ==
  \/ NextFile(w) \/ Open(w) \/ WriteOut(w) \/ Compare(w) \/ Rename(w)
  \/ Utime(w) \/ Cleanup(w) \/ Return(w)

FileNext ==
  \E w \in Writers :
    /\ \/ \E want \in Contents :
            \/ ToStatusDir(w, want)
            \/ DiffprofileToHoldfile(w, want)
            \/ \E time \in 0..1 :
                 \/ CtxlistToFile(w, want, time)
                 \/ PkglistToRpmlist(w, want, time) \/ PkgsetToRpmlist(w, want, time)
                 \/ PkglistToRpmcfg(w, want, time) \/ PkgsetToRpmcfg(w, want, time)
                 \/ ProfileToBdb(w, want, time)
       \/ Step(w)
       \/ Crash(w)
    /\ Observe

FileSpec == FileInit /\ [][FileNext]_fileVars
-----------------------------------------------------------------------------
FilesTyped ==
  /\ \A w \in Writers :
       /\ call[w] \in Calls \cup {None}
       /\ call[w] = None => tmp[w] = None
  /\ \A f \in Files : disk[f] = None => mtime[f] = 0
  /\ litter \in 0..MaxFaults /\ calls \in 0..MaxCalls /\ faults \in 0..MaxFaults

(* A reader that opens a file, whoever writes, fails or stops meanwhile,   *)
(* finds nothing or all of what some call wrote.  The one exception is a   *)
(* database that was renamed although closing it had failed:               *)
(* lcfgbdb_close_db drops that result, while the comment of                *)
(* lcfgprofile_to_bdb says that the temporary database is renamed "if" it  *)
(* "is successfully written".                                              *)
FilesWhole ==
  \A f \in Files : disk[f] \in Contents \cup {None} \/ (f = StoreFile /\ torn)

(* lcfgprofile_to_bdb as its comment has it.                               *)
StoreWhole == disk[StoreFile] \in Contents \cup {None}

(* A call that answers without an error, MODIFIED or NONE, has left every  *)
(* one of its files with the contents it was given, if only until another  *)
(* call replaced them.  The answer is not true of the files for which the  *)
(* code passes over a failure: lcfgutils_file_needs_update says that       *)
(* nothing needs to be done when it cannot read the temporary file again,  *)
(* and then the file there was stays, whole; and a database that could not *)
(* be closed is renamed, so that a part of it is there.                    *)
AnswerHonest ==
  \A w \in Writers :
    At(w, "next") /\ call[w].ok /\ call[w].todo = {} =>
      /\ Targets(call[w].kind) \ call[w].passed \subseteq held[w]
      /\ \A f \in call[w].passed \ {StoreFile} : disk[f] \in Contents
      /\ call[w].alone /\ StoreFile \in call[w].passed =>
           disk[StoreFile] \in Parts(call[w].want)

(* With a time given the file has that time afterwards, whether it was     *)
(* replaced or not, unless another call was at work or utime failed, which *)
(* leaves the answer as it is.                                             *)
TimeSet ==
  \A w \in Writers :
    /\ At(w, "next") /\ call[w].ok /\ call[w].todo = {} /\ call[w].time # 0
    /\ call[w].alone
    => \A f \in Targets(call[w].kind) \ call[w].unset : mtime[f] = call[w].time

(* A call has no temporary file left when it goes on to the next file or   *)
(* returns, whichever way it came there; each one that is left stands for  *)
(* one failure: the process stopped, unlink failed, or fdopen did after    *)
(* mkstemp had made the file.                                              *)
NoLitter ==
  /\ \A w \in Writers : At(w, "next") \/ At(w, "open") \/ call[w] = None => tmp[w] = None
  /\ litter <= faults

(* Whatever fails, stops or runs at the same time, files are whole, except *)
(* for a database that could not be closed, and no temporary file is left  *)
(* without a failure to remove or to keep track of it                      *)
(* (lcfgutils_safe_tmpfile, lcfgutils_file_update, lcfgprofile_to_bdb).    *)
FilesSound == FilesTyped /\ FilesWhole /\ NoLitter

(* What a call answers is true of the contents and of the times of all the *)
(* files it stands for but those for which it passed over a failure, and   *)
(* what became of these (lcfgcompset_to_status_dir, lcfgprofile_to_bdb,    *)
(* lcfgutils_file_update).                                                 *)
AnswersTrue == AnswerHonest /\ TimeSet
=============================================================================
