---------------------------- MODULE AtomicWrite -----------------------------
(***************************************************************************)
(* `write_atomically` of src/src/io/hdf5_write.rs: several calls of        *)
(* `write` on one destination path, each staging a complete file in a      *)
(* directory of its own and renaming it over the path.  Every file-system  *)
(* call may fail, a process may die between two calls, and the mode of the *)
(* destination's directory may change while a write is in progress.        *)
(*                                                                         *)
(* A file is "partial" from its creation until its last byte is flushed.   *)
(* A crash is the death of a process, not of the machine: the code makes   *)
(* no promise about power loss (src/src/io/mod.rs:456).                    *)
(***************************************************************************)
EXTENDS Integers, Sequences

CONSTANTS
  Writers,       \* calls of `write` on the path
  Modes,         \* permission bits
  Default,       \* for each call, the mode its umask leaves to a new file
  Windows,       \* whether rename_replace has its remove-first branch
  BaseLists,     \* the verdicts on sticky temp, runtime, cache and home
  MaxFaults,     \* bound: file-system calls that fail
  MaxCrashes,    \* bound: processes that die
  MaxReshares    \* bound: changes of the mode of the destination's directory

ASSUME WriteAssumption ==
  /\ "none" \notin Modes
  /\ Default \in [Writers -> Modes]
  /\ Windows \in BOOLEAN
  /\ "outsider" \notin Writers
  /\ BaseLists \subseteq Seq({"unsafe", "unusable", "usable"})
  /\ MaxFaults \in Nat /\ MaxCrashes \in Nat /\ MaxReshares \in Nat

VARIABLES
  dest,        \* what the destination path holds
  tmp,         \* the two staging directories of each call
  where,       \* whether a call stages beside the destination or elsewhere
  shared,      \* parent_is_shared_nonsticky of the destination's directory
  bases,       \* the verdicts of this machine's staging bases
  remote,      \* whether those bases are on another file system
  pc, result,
  left,        \* calls one of whose removals failed
  faults, crashes, reshares

machine == <<bases, remote>>
counts == <<faults, crashes, reshares>>
vars == <<dest, tmp, where, shared, bases, remote, pc, result, left,
          faults, crashes, reshares>>

Slots == {"stage", "local"}
Marks == Modes \cup {"none"}
Paths == [kind : {"absent", "symlink", "file"}, by : Writers \cup {"outsider"},
          whole : BOOLEAN, mode : Marks]
Places ==
  {p \in [dir : BOOLEAN, file : {"none", "partial", "whole"}, mode : Marks] :
     p.file # "none" => p.dir}
Absent == [dir |-> FALSE, file |-> "none", mode |-> "none"]
Gone == [kind |-> "absent", by |-> "outsider", whole |-> TRUE, mode |-> "none"]

Steps == {"base", "dir", "file", "encode", "mode", "promote", "remove", "again",
          "check", "localDir", "localFile", "copy", "localMode", "localPromote",
          "localClean", "localSweep", "clean", "sweep", "done", "crashed"}

(* The steps from which the staged file, or the local copy of it, is next  *)
(* to take the destination's place.                                        *)
Staged == {"promote", "remove", "again", "check", "localDir", "localFile", "copy"}
Copied == {"localMode", "localPromote"}

-----------------------------------------------------------------------------
Goto(w, l) == pc' = [pc EXCEPT ![w] = l]
Proceed(w, l) == Goto(w, l) /\ UNCHANGED <<result, faults>>

(* An error value leaves the step: the call goes on at its clean-up.       *)
Abandon(w, l) == Goto(w, l) /\ result' = [result EXCEPT ![w] = "failed"]

(* A staging directory of the call, or the file in it, changes.            *)
Puts(w, s, place) == tmp' = [tmp EXCEPT ![w][s] = place]

Fault == faults < MaxFaults /\ faults' = faults + 1
DoubleFault == faults + 1 < MaxFaults /\ faults' = faults + 2

(* The first base whose ancestry passes is taken, and must then be usable. *)
UsableBase ==
  \E i \in DOMAIN bases : bases[i] = "usable" /\ \A j \in 1 .. i - 1 : bases[j] = "unsafe"

Init ==
  /\ dest \in {Gone, [Gone EXCEPT !.kind = "symlink"]}
               \cup {[Gone EXCEPT !.kind = "file", !.mode = m] : m \in Modes}
  /\ tmp = [w \in Writers |-> [s \in Slots |-> Absent]]
  /\ where = [w \in Writers |-> "beside"]
  /\ shared \in BOOLEAN /\ remote \in BOOLEAN /\ bases \in BaseLists
  /\ pc = [w \in Writers |-> "base"]
  /\ result = [w \in Writers |-> "none"]
  /\ left = [w \in Writers |-> FALSE]
  /\ faults = 0 /\ crashes = 0 /\ reshares = 0

-----------------------------------------------------------------------------
(* secure_staging_base: beside the destination unless its directory is     *)
(* shared; then under a base of the machine, or not at all.                *)
ChooseBase(w) ==
  /\ pc[w] = "base"
  /\ \/ /\ Windows \/ ~shared
        /\ Proceed(w, "dir") /\ UNCHANGED where
     \/ /\ ~Windows /\ shared /\ UsableBase
        /\ where' = [where EXCEPT ![w] = "elsewhere"]
        /\ Proceed(w, "dir")
     \/ /\ ~Windows /\ shared /\ ~UsableBase
        /\ Abandon(w, "done") /\ UNCHANGED <<where, faults>>
     \/ Fault /\ Abandon(w, "done") /\ UNCHANGED where
  /\ UNCHANGED <<dest, tmp, shared, machine, left, crashes, reshares>>

(* temporary_path_in, first half.  When the 0700 mode cannot be set the    *)
(* guard of the temporary directory removes it again, or fails to.         *)
MakeDirectory(w, s, here, next, onError) ==
  /\ pc[w] = here
  /\ \/ /\ Puts(w, s, [tmp[w][s] EXCEPT !.dir = TRUE])
        /\ Proceed(w, next) /\ UNCHANGED left
     \/ Fault /\ Abandon(w, onError) /\ UNCHANGED <<tmp, left>>
     \/ /\ DoubleFault /\ Abandon(w, onError)
        /\ Puts(w, s, [tmp[w][s] EXCEPT !.dir = TRUE])
        /\ left' = [left EXCEPT ![w] = TRUE]
  /\ UNCHANGED <<dest, where, shared, machine, crashes, reshares>>

(* temporary_path_in, second half: exclusive creation of the file, with    *)
(* the mode the process's own umask leaves of 0o666; on failure the        *)
(* directory is removed, which may fail as well.                           *)
MakeFile(w, s, here, next, onError) ==
  /\ pc[w] = here
  /\ \/ /\ Puts(w, s, [tmp[w][s] EXCEPT !.file = "partial", !.mode = Default[w]])
        /\ Proceed(w, next) /\ UNCHANGED left
     \/ /\ Fault /\ Abandon(w, onError)
        /\ Puts(w, s, Absent) /\ UNCHANGED left
     \/ /\ DoubleFault /\ Abandon(w, onError)
        /\ left' = [left EXCEPT ![w] = TRUE] /\ UNCHANGED tmp
  /\ UNCHANGED <<dest, where, shared, machine, crashes, reshares>>

(* Mutant: an unflushed file goes on to its rename.                        *)
WriteFileIgnoringFlush(w) ==
  /\ pc[w] = "encode"
  /\ \/ Puts(w, "stage", [tmp[w]["stage"] EXCEPT !.file = "whole"]) /\ Proceed(w, "mode")
     \/ Fault /\ Goto(w, "mode") /\ UNCHANGED <<tmp, result>>
  /\ UNCHANGED <<dest, where, shared, machine, left, crashes, reshares>>

(* Mutant: the error leaves by `?` and skips the clean-up.                 *)
WriteFileReturningEarly(w) ==
  /\ pc[w] = "encode"
  /\ \/ Puts(w, "stage", [tmp[w]["stage"] EXCEPT !.file = "whole"]) /\ Proceed(w, "mode")
     \/ Fault /\ Abandon(w, "done") /\ UNCHANGED tmp
  /\ UNCHANGED <<dest, where, shared, machine, left, crashes, reshares>>

(* write_file: encode everything, then flush; any of it may fail.          *)
WriteFile(w) ==
  /\ pc[w] = "encode"
  /\ \/ Puts(w, "stage", [tmp[w]["stage"] EXCEPT !.file = "whole"]) /\ Proceed(w, "mode")
     \/ Fault /\ Abandon(w, "clean") /\ UNCHANGED tmp
  /\ UNCHANGED <<dest, where, shared, machine, left, crashes, reshares>>

(* Mutant: set_permissions is made best effort.                            *)
KeepModeOrNot(w) ==
  /\ pc[w] = "mode"
  /\ \/ /\ dest.kind = "file"
        /\ Puts(w, "stage", [tmp[w]["stage"] EXCEPT !.mode = dest.mode])
        /\ Proceed(w, "promote")
     \/ dest.kind # "file" /\ Proceed(w, "promote") /\ UNCHANGED tmp
     \/ Fault /\ Goto(w, "promote") /\ UNCHANGED <<tmp, result>>
  /\ UNCHANGED <<dest, where, shared, machine, left, crashes, reshares>>

(* A regular destination's mode is copied; an absent one and a symlink are *)
(* passed over.                                                            *)
KeepMode(w) ==
  /\ pc[w] = "mode"
  /\ \/ /\ dest.kind = "file"
        /\ Puts(w, "stage", [tmp[w]["stage"] EXCEPT !.mode = dest.mode])
        /\ Proceed(w, "promote")
     \/ dest.kind # "file" /\ Proceed(w, "promote") /\ UNCHANGED tmp
     \/ Fault /\ Abandon(w, "clean") /\ UNCHANGED tmp
  /\ UNCHANGED <<dest, where, shared, machine, left, crashes, reshares>>

(* The file leaves its staging directory and becomes the destination.      *)
Installs(w, s) ==
  /\ dest' = [kind |-> "file", by |-> w, whole |-> tmp[w][s].file = "whole",
              mode |-> tmp[w][s].mode]
  /\ Puts(w, s, [tmp[w][s] EXCEPT !.file = "none"])
  /\ result' = [result EXCEPT ![w] = "ok"]

CrossesDevices(w) == where[w] = "elsewhere" /\ remote

(* Mutant: the destination is removed first on every platform.             *)
RenameRemovingFirst(w) ==
  /\ pc[w] = "promote"
  /\ dest' = Gone /\ Proceed(w, "again")
  /\ UNCHANGED <<tmp, where, shared, machine, left, crashes, reshares>>

(* The rename of promote_to_destination.  On Windows a failed rename is    *)
(* followed by the removal of the destination.                             *)
Rename(w) ==
  /\ pc[w] = "promote"
  /\ \/ ~CrossesDevices(w) /\ Installs(w, "stage") /\ Goto(w, "clean") /\ UNCHANGED faults
     \/ CrossesDevices(w) /\ Proceed(w, "check") /\ UNCHANGED <<dest, tmp>>
     \/ /\ Fault /\ UNCHANGED <<dest, tmp>>
        /\ IF Windows THEN Goto(w, "remove") /\ UNCHANGED result
                      ELSE Abandon(w, "clean")
  /\ UNCHANGED <<where, shared, machine, left, crashes, reshares>>

RemoveDestination(w) ==
  /\ pc[w] = "remove"
  /\ \/ dest.kind # "absent" /\ dest' = Gone /\ Proceed(w, "again")
     \/ dest.kind = "absent" /\ Abandon(w, "clean") /\ UNCHANGED <<dest, faults>>
     \/ Fault /\ Abandon(w, "clean") /\ UNCHANGED dest
  /\ UNCHANGED <<tmp, where, shared, machine, left, crashes, reshares>>

RenameAgain(w) ==
  /\ pc[w] = "again"
  /\ \/ Installs(w, "stage") /\ Goto(w, "clean") /\ UNCHANGED faults
     \/ Fault /\ Abandon(w, "clean") /\ UNCHANGED <<dest, tmp>>
  /\ UNCHANGED <<where, shared, machine, left, crashes, reshares>>

-----------------------------------------------------------------------------
(* The stage is on another file system: the directory is looked at again,  *)
(* and a directory that cannot be looked at is taken to be private.        *)
CheckParent(w) ==
  /\ pc[w] = "check"
  /\ \/ ~shared /\ Proceed(w, "localDir")
     \/ shared /\ Abandon(w, "clean") /\ UNCHANGED faults
     \/ Fault /\ Goto(w, "localDir") /\ UNCHANGED result
  /\ UNCHANGED <<dest, tmp, where, shared, machine, left, crashes, reshares>>

(* std::fs::copy takes the contents and the mode bits.                     *)
CopyAcross(w) ==
  /\ pc[w] = "copy"
  /\ \/ /\ Puts(w, "local", [tmp[w]["local"] EXCEPT !.file = tmp[w]["stage"].file,
                                               !.mode = tmp[w]["stage"].mode])
        /\ Proceed(w, "localMode")
     \/ Fault /\ Abandon(w, "localClean") /\ UNCHANGED tmp
  /\ UNCHANGED <<dest, where, shared, machine, left, crashes, reshares>>

(* The mode is copied once more, and here a failure is ignored.            *)
KeepLocalMode(w) ==
  /\ pc[w] = "localMode"
  /\ Goto(w, "localPromote")
  /\ \/ /\ dest.kind = "file"
        /\ Puts(w, "local", [tmp[w]["local"] EXCEPT !.mode = dest.mode]) /\ UNCHANGED faults
     \/ dest.kind # "file" /\ UNCHANGED <<tmp, faults>>
     \/ Fault /\ UNCHANGED tmp
  /\ UNCHANGED <<dest, where, shared, machine, result, left, crashes, reshares>>

RenameLocal(w) ==
  /\ pc[w] = "localPromote"
  /\ \/ Installs(w, "local") /\ Goto(w, "localClean") /\ UNCHANGED faults
     \/ Fault /\ Abandon(w, "localClean") /\ UNCHANGED <<dest, tmp>>
  /\ UNCHANGED <<where, shared, machine, left, crashes, reshares>>

-----------------------------------------------------------------------------
(* Mutant: the error of the removal becomes the result of the call.        *)
RemoveFileReportingErrors(w, s, here, next) ==
  /\ pc[w] = here
  /\ Goto(w, next)
  /\ \/ /\ Puts(w, s, [tmp[w][s] EXCEPT !.file = "none"])
        /\ UNCHANGED <<faults, left, result>>
     \/ /\ Fault /\ result' = [result EXCEPT ![w] = "failed"]
        /\ left' = [left EXCEPT ![w] = TRUE] /\ UNCHANGED tmp
  /\ UNCHANGED <<dest, where, shared, machine, crashes, reshares>>

(* Mutant: the removal is repeated until it finds a file.                  *)
RemoveFileKeepingOn(w, s, here, next) ==
  /\ pc[w] = here
  /\ Goto(w, here)
  /\ Puts(w, s, [tmp[w][s] EXCEPT !.file = "none"])
  /\ UNCHANGED <<dest, where, shared, machine, result, left, faults, crashes, reshares>>

(* The removals after the work, whose errors are ignored.                  *)
RemoveFile(w, s, here, next) ==
  /\ pc[w] = here
  /\ Goto(w, next)
  /\ \/ Puts(w, s, [tmp[w][s] EXCEPT !.file = "none"]) /\ UNCHANGED <<faults, left>>
     \/ /\ tmp[w][s].file # "none" /\ Fault
        /\ left' = [left EXCEPT ![w] = TRUE] /\ UNCHANGED tmp
  /\ UNCHANGED <<dest, where, shared, machine, result, crashes, reshares>>

(* A directory that is not empty stays.                                    *)
RemoveDirectory(w, s, here, next) ==
  /\ pc[w] = here
  /\ Goto(w, next)
  /\ \/ tmp[w][s].file = "none" /\ Puts(w, s, Absent)
        /\ UNCHANGED <<faults, left>>
     \/ tmp[w][s].file # "none" /\ UNCHANGED <<tmp, faults, left>>
     \/ Fault /\ left' = [left EXCEPT ![w] = TRUE] /\ UNCHANGED tmp
  /\ UNCHANGED <<dest, where, shared, machine, result, crashes, reshares>>

-----------------------------------------------------------------------------
Crash(w) ==
  /\ crashes < MaxCrashes /\ crashes' = crashes + 1
  /\ pc[w] \notin {"done", "crashed"}
  /\ Goto(w, "crashed")
  /\ UNCHANGED <<dest, tmp, where, shared, machine, result, left, faults, reshares>>

(* Somebody changes the mode of the destination's directory.               *)
Reshare ==
  /\ reshares < MaxReshares /\ reshares' = reshares + 1
  /\ shared' = ~shared
  /\ UNCHANGED <<dest, tmp, where, machine, pc, result, left, faults, crashes>>

CreateStagingDir(w) == MakeDirectory(w, "stage", "dir", "file", "done")
CreateStagingFile(w) == MakeFile(w, "stage", "file", "encode", "done")
CreateLocalDir(w) == MakeDirectory(w, "local", "localDir", "localFile", "clean")
CreateLocalFile(w) == MakeFile(w, "local", "localFile", "copy", "clean")
RemoveLocalFile(w) == RemoveFile(w, "local", "localClean", "localSweep")
RemoveLocalDir(w) == RemoveDirectory(w, "local", "localSweep", "clean")
RemoveStagingFile(w) == RemoveFile(w, "stage", "clean", "sweep")
RemoveStagingDir(w) == RemoveDirectory(w, "stage", "sweep", "done")

Step(w) ==
  \/ ChooseBase(w) \/ CreateStagingDir(w) \/ CreateStagingFile(w)
  \/ WriteFile(w) \/ KeepMode(w) \/ Rename(w)
  \/ RemoveDestination(w) \/ RenameAgain(w)
  \/ CheckParent(w) \/ CreateLocalDir(w) \/ CreateLocalFile(w)
  \/ CopyAcross(w) \/ KeepLocalMode(w) \/ RenameLocal(w)
  \/ RemoveLocalFile(w) \/ RemoveLocalDir(w)
  \/ RemoveStagingFile(w) \/ RemoveStagingDir(w)

Next == Reshare \/ \E w \in Writers : Step(w) \/ Crash(w)

(* A call that is not dead goes on: nothing in it waits for anybody.       *)
Spec == Init /\ [][Next]_vars /\ \A w \in Writers : WF_vars(Step(w))

-----------------------------------------------------------------------------
(* Every variable stays among the states the code distinguishes, and every *)
(* staging file lies in a staging directory.                               *)
TypeOK ==
  /\ dest \in Paths
  /\ tmp \in [Writers -> [Slots -> Places]]
  /\ where \in [Writers -> {"beside", "elsewhere"}]
  /\ shared \in BOOLEAN /\ remote \in BOOLEAN /\ bases \in BaseLists
  /\ pc \in [Writers -> Steps]
  /\ result \in [Writers -> {"none", "ok", "failed"}]
  /\ left \in [Writers -> BOOLEAN]
  /\ faults \in 0..MaxFaults /\ crashes \in 0..MaxCrashes
  /\ reshares \in 0..MaxReshares

(* A call that returned, on whichever path, and whose removals worked has  *)
(* left neither staging file nor staging directory: the clean-up of        *)
(* write_atomically and of promote_to_destination is reached from every    *)
(* error after the directories were made.                                  *)
NothingLeftBehind ==
  \A w \in Writers : pc[w] = "done" /\ ~left[w] => \A s \in Slots : tmp[w][s] = Absent

(* What a reader of the path finds is the file that was there at first or  *)
(* one complete file of a call that reports success or died: also on       *)
(* Windows, where the path may be empty for a while, and after any fault.  *)
WholeOrOriginal ==
  /\ dest.whole
  /\ dest.kind = "file" /\ dest.by # "outsider" =>
       result[dest.by] = "ok"

(* A file that is there before the calls hands its mode down to every file *)
(* that replaces it: whatever the writers' umasks, faults, crashes, and    *)
(* copies across devices, no reader sees the path with another mode        *)
(* (src/src/io/mod.rs:442).  The mode is read several calls before the     *)
(* rename, and other writers replace the file in between.                  *)
ExistingModeKept ==
  \A m \in Modes : dest.kind = "file" /\ dest.mode = m =>
    [](dest.kind = "file" /\ dest.mode = m)

(* "Existing Unix file permissions (mode bits) are preserved"              *)
(* (src/src/io/mod.rs:442), of every file that is at the path when another *)
(* takes its place.                                                        *)
ModeKept == [][dest.kind = "file" => dest'.mode = dest.mode]_dest

(* "A failed write leaves an existing destination unchanged"               *)
(* (src/src/io/mod.rs:425): when every call so far has failed, the path    *)
(* holds what it held at the start.                                        *)
AllFailed == \A w \in Writers : pc[w] = "done" /\ result[w] = "failed"
FailedWritesKeepDestination ==
  \A k \in {"absent", "symlink", "file"} : dest.kind = k =>
    [](AllFailed => dest.kind = k /\ dest.by = "outsider")

(* Every call returns, unless its process dies.                            *)
WritersReturn == \A w \in Writers : <>(pc[w] \in {"done", "crashed"})

-----------------------------------------------------------------------------
(* The promise of AtomicReplace: a torn file at the path maps to nothing   *)
(* the promise knows, a call counts as installed once its rename is done   *)
(* and as failed once it has an error, and what it reports must agree.     *)
PathHolds == [kind |-> IF dest.whole THEN dest.kind ELSE "torn",
              by |-> dest.by, mode |-> dest.mode]

Progress(w) ==
  IF result[w] = "failed" THEN "failed"
  ELSE IF pc[w] = "crashed" THEN "crashed"
  ELSE IF pc[w] = "done" THEN result[w]
  ELSE IF result[w] = "ok" THEN "installed" ELSE "pending"
Outcome == [w \in Writers |-> Progress(w)]

(* The mode of the file a call would rename now.                           *)
Carries(w) ==
  IF pc[w] \in Staged THEN tmp[w]["stage"].mode
  ELSE IF pc[w] \in Copied THEN tmp[w]["local"].mode ELSE "none"
Found == [w \in Writers |-> Carries(w)]

Promise ==
  INSTANCE AtomicReplace WITH path <- PathHolds, found <- Found, outcome <- Outcome

(* Outside Windows the path only ever changes from what it held to one     *)
(* complete file, in one step of the call that then reports success, with  *)
(* the mode of a file the call found at the path or, if it found none, the *)
(* one its process gives new files; a call that reports failure, or dies   *)
(* before its rename, never changes the path.                              *)
ImplementsAtomicReplace == Promise!Spec

=============================================================================
