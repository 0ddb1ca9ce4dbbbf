-------------------------- MODULE AtomicWriteProofs -------------------------
(***************************************************************************)
(* Theorems about AtomicWrite, for any number of writers, faults, crashes  *)
(* and changes of the directory's mode.  On every platform: its type       *)
(* invariant, that a call whose removals worked leaves nothing behind, and *)
(* that the path never holds a torn file nor a file of a call that reports *)
(* failure.  Where renaming replaces (everywhere but on Windows): that it  *)
(* implements the promise of AtomicReplace.                                *)
(***************************************************************************)
EXTENDS AtomicWrite, TLAPS

(* The steps before a call knows its result, and those after.              *)
Working == {"base", "dir", "file", "encode", "mode", "promote", "remove", "again",
            "check", "localDir", "localFile", "copy", "localMode", "localPromote"}
Cleaning == {"localClean", "localSweep", "clean", "sweep"}

(* The path never holds a torn file, and only a regular file has a mode.   *)
DestSound ==
  /\ dest.whole
  /\ dest.kind = "file" => dest.mode \in Modes
  /\ dest.kind # "file" => dest.mode = "none" /\ dest.by = "outsider"

(* A file is only made, or filled, in a directory that exists.             *)
Housed(w) ==
  /\ pc[w] \in {"file", "encode"} => tmp[w]["stage"].dir
  /\ pc[w] \in {"localFile", "copy"} => tmp[w]["local"].dir

TypeInv == TypeOK /\ \A w \in Writers : Housed(w)

(* What the path holds after the rename of a call.                         *)
Installed(w) == [kind |-> "file", by |-> w, whole |-> TRUE, mode |-> Carries(w)]

(* Where a call stands, and what its staged files look like there.         *)
CallSound(w) ==
  /\ pc[w] \notin {"remove", "again"}
  /\ pc[w] \in Working => result[w] = "none"
  /\ pc[w] \in Cleaning \cup {"done"} => result[w] \in {"ok", "failed"}
  /\ pc[w] \in {"encode", "mode"} => tmp[w]["stage"].mode = Default[w]
  /\ pc[w] \in {"mode"} \cup Staged => tmp[w]["stage"].file = "whole"
  /\ pc[w] \in Staged => tmp[w]["stage"].mode \in Modes
  /\ pc[w] \in Copied => tmp[w]["local"].file = "whole" /\ tmp[w]["local"].mode \in Modes

CallsSound == \A w \in Writers : CallSound(w)

ReplaceInv == TypeInv /\ DestSound /\ CallsSound

-----------------------------------------------------------------------------
(* Every call starts with well-typed, empty places.                        *)
LEMMA TypeInit == Init => TypeInv
<1>1. SUFFICES ASSUME Init PROVE TypeInv
  OBVIOUS
<1>2. dest \in Paths
  <2>1. Gone \in Paths /\ [Gone EXCEPT !.kind = "symlink"] \in Paths
    BY DEF Gone, Paths, Marks
  <2>2. ASSUME NEW m \in Modes PROVE [Gone EXCEPT !.kind = "file", !.mode = m] \in Paths
    BY DEF Gone, Paths, Marks
  <2>3. QED
    BY <1>1, <2>1, <2>2 DEF Init
<1>3. tmp \in [Writers -> [Slots -> Places]]
  BY <1>1 DEF Init, Absent, Places, Marks
<1>5. /\ where \in [Writers -> {"beside", "elsewhere"}]
      /\ shared \in BOOLEAN /\ remote \in BOOLEAN /\ bases \in BaseLists
      /\ pc \in [Writers -> Steps]
      /\ result \in [Writers -> {"none", "ok", "failed"}]
      /\ left \in [Writers -> BOOLEAN]
  BY <1>1 DEF Init, Steps
<1>6. faults \in 0..MaxFaults /\ crashes \in 0..MaxCrashes /\ reshares \in 0..MaxReshares
  <2>1. faults = 0 /\ crashes = 0 /\ reshares = 0
    BY <1>1 DEF Init
  <2>2. QED
    BY <2>1, WriteAssumption
<1>7. ASSUME NEW w \in Writers PROVE Housed(w)
  BY <1>1 DEF Init, Housed
<1>8. QED
  BY <1>2, <1>3, <1>5, <1>6, <1>7 DEF TypeInv, TypeOK

-----------------------------------------------------------------------------
(* The parts of the type invariant, each with the steps that touch it.     *)
TmpTyped == tmp \in [Writers -> [Slots -> Places]]

CallTyped ==
  /\ where \in [Writers -> {"beside", "elsewhere"}]
  /\ pc \in [Writers -> Steps]
  /\ result \in [Writers -> {"none", "ok", "failed"}]
  /\ left \in [Writers -> BOOLEAN]

MachineTyped ==
  /\ shared \in BOOLEAN /\ remote \in BOOLEAN /\ bases \in BaseLists
  /\ faults \in 0..MaxFaults /\ crashes \in 0..MaxCrashes
  /\ reshares \in 0..MaxReshares

(* A step moves a call to a step, and a result, the code knows.            *)
LEMMA CallTypedStep ==
  ASSUME CallTyped, NEW w \in Writers, Step(w)
  PROVE  CallTyped'
<1> USE DEF CallTyped, Steps, Goto, Proceed, Abandon
<1>1. CASE ChooseBase(w)
  BY <1>1 DEF ChooseBase
<1>2. CASE CreateStagingDir(w)
  BY <1>2 DEF CreateStagingDir, MakeDirectory
<1>3. CASE CreateStagingFile(w)
  BY <1>3 DEF CreateStagingFile, MakeFile
<1>4. CASE WriteFile(w)
  BY <1>4 DEF WriteFile
<1>5. CASE KeepMode(w)
  BY <1>5 DEF KeepMode
<1>6. CASE Rename(w)
  BY <1>6 DEF Rename, Installs
<1>7. CASE RemoveDestination(w)
  BY <1>7 DEF RemoveDestination
<1>8. CASE RenameAgain(w)
  BY <1>8 DEF RenameAgain, Installs
<1>9. CASE CheckParent(w)
  BY <1>9 DEF CheckParent
<1>10. CASE CreateLocalDir(w)
  BY <1>10 DEF CreateLocalDir, MakeDirectory
<1>11. CASE CreateLocalFile(w)
  BY <1>11 DEF CreateLocalFile, MakeFile
<1>12. CASE CopyAcross(w)
  BY <1>12 DEF CopyAcross
<1>13. CASE KeepLocalMode(w)
  BY <1>13 DEF KeepLocalMode
<1>14. CASE RenameLocal(w)
  BY <1>14 DEF RenameLocal, Installs
<1>15. CASE RemoveLocalFile(w)
  BY <1>15 DEF RemoveLocalFile, RemoveFile
<1>16. CASE RemoveLocalDir(w)
  BY <1>16 DEF RemoveLocalDir, RemoveDirectory
<1>17. CASE RemoveStagingFile(w)
  BY <1>17 DEF RemoveStagingFile, RemoveFile
<1>18. CASE RemoveStagingDir(w)
  BY <1>18 DEF RemoveStagingDir, RemoveDirectory
<1>19. QED
  BY <1>1, <1>2, <1>3, <1>4, <1>5, <1>6, <1>7, <1>8, <1>9, <1>10, <1>11,
     <1>12, <1>13, <1>14, <1>15, <1>16, <1>17, <1>18 DEF Step

(* A step changes nothing of the machine but its count of faults.          *)
LEMMA MachineTypedStep ==
  ASSUME MachineTyped, NEW w \in Writers, Step(w)
  PROVE  MachineTyped'
<1> USE WriteAssumption DEF MachineTyped, machine, Proceed, Fault, DoubleFault
<1>1. CASE ChooseBase(w)
  BY <1>1 DEF ChooseBase
<1>2. CASE CreateStagingDir(w)
  BY <1>2 DEF CreateStagingDir, MakeDirectory
<1>3. CASE CreateStagingFile(w)
  BY <1>3 DEF CreateStagingFile, MakeFile
<1>4. CASE WriteFile(w)
  BY <1>4 DEF WriteFile
<1>5. CASE KeepMode(w)
  BY <1>5 DEF KeepMode
<1>6. CASE Rename(w)
  BY <1>6 DEF Rename, Installs
<1>7. CASE RemoveDestination(w)
  BY <1>7 DEF RemoveDestination
<1>8. CASE RenameAgain(w)
  BY <1>8 DEF RenameAgain, Installs
<1>9. CASE CheckParent(w)
  BY <1>9 DEF CheckParent
<1>10. CASE CreateLocalDir(w)
  BY <1>10 DEF CreateLocalDir, MakeDirectory
<1>11. CASE CreateLocalFile(w)
  BY <1>11 DEF CreateLocalFile, MakeFile
<1>12. CASE CopyAcross(w)
  BY <1>12 DEF CopyAcross
<1>13. CASE KeepLocalMode(w)
  BY <1>13 DEF KeepLocalMode
<1>14. CASE RenameLocal(w)
  BY <1>14 DEF RenameLocal, Installs
<1>15. CASE RemoveLocalFile(w)
  BY <1>15 DEF RemoveLocalFile, RemoveFile
<1>16. CASE RemoveLocalDir(w)
  BY <1>16 DEF RemoveLocalDir, RemoveDirectory
<1>17. CASE RemoveStagingFile(w)
  BY <1>17 DEF RemoveStagingFile, RemoveFile
<1>18. CASE RemoveStagingDir(w)
  BY <1>18 DEF RemoveStagingDir, RemoveDirectory
<1>19. QED
  BY <1>1, <1>2, <1>3, <1>4, <1>5, <1>6, <1>7, <1>8, <1>9, <1>10, <1>11,
     <1>12, <1>13, <1>14, <1>15, <1>16, <1>17, <1>18 DEF Step

(* Changing one place into a place keeps all of them places.               *)
LEMMA PutsTyped ==
  ASSUME TmpTyped, NEW w \in Writers, NEW s \in Slots, NEW p \in Places, Puts(w, s, p)
  PROVE  TmpTyped'
  BY DEF TmpTyped, Puts

(* What the steps do to a staging directory and the file in it.            *)
LEMMA PlaceChanges ==
  ASSUME NEW p \in Places, NEW m \in Marks
  PROVE  /\ Absent \in Places
         /\ [p EXCEPT !.mode = m] \in Places
         /\ [p EXCEPT !.dir = TRUE] \in Places
         /\ [p EXCEPT !.file = "none"] \in Places
         /\ p.dir => [p EXCEPT !.file = "whole"] \in Places
         /\ p.dir => [p EXCEPT !.file = "partial", !.mode = m] \in Places
         /\ \A q \in Places : p.dir => [p EXCEPT !.file = q.file, !.mode = q.mode] \in Places
<1>1. /\ Absent \in Places
      /\ [p EXCEPT !.mode = m] \in Places
      /\ [p EXCEPT !.dir = TRUE] \in Places
      /\ [p EXCEPT !.file = "none"] \in Places
  BY DEF Places, Absent, Marks
<1>2. /\ p.dir => [p EXCEPT !.file = "whole"] \in Places
      /\ p.dir => [p EXCEPT !.file = "partial", !.mode = m] \in Places
  BY DEF Places
<1>3. ASSUME NEW q \in Places, p.dir
      PROVE  [p EXCEPT !.file = q.file, !.mode = q.mode] \in Places
  BY <1>3 DEF Places
<1>4. QED
  BY <1>1, <1>2, <1>3

(* No step leaves a staging file outside a staging directory.              *)
LEMMA TmpTypedStep ==
  ASSUME TmpTyped, dest \in Paths, NEW w \in Writers, Housed(w), Step(w)
  PROVE  TmpTyped'
<1> DEFINE stage == tmp[w]["stage"]
           local == tmp[w]["local"]
<1>s. stage \in Places /\ local \in Places /\ dest.mode \in Marks /\ Default[w] \in Marks
  BY WriteAssumption DEF TmpTyped, Slots, Paths, Marks
<1>h. Slots = {"stage", "local"}
  BY DEF Slots
<1>1. CASE ChooseBase(w)
  BY <1>s, <1>h, PutsTyped, PlaceChanges, <1>1 DEF ChooseBase, TmpTyped, Housed
<1>2. CASE CreateStagingDir(w)
  BY <1>s, <1>h, PutsTyped, PlaceChanges, <1>2 DEF CreateStagingDir, MakeDirectory, TmpTyped, Housed
<1>3. CASE CreateStagingFile(w)
  BY <1>s, <1>h, PutsTyped, PlaceChanges, <1>3 DEF CreateStagingFile, MakeFile, TmpTyped, Housed
<1>4. CASE WriteFile(w)
  BY <1>s, <1>h, PutsTyped, PlaceChanges, <1>4 DEF WriteFile, TmpTyped, Housed
<1>5. CASE KeepMode(w)
  BY <1>s, <1>h, PutsTyped, PlaceChanges, <1>5 DEF KeepMode, TmpTyped, Housed
<1>6. CASE Rename(w)
  BY <1>s, <1>h, PutsTyped, PlaceChanges, <1>6 DEF Rename, Installs, TmpTyped, Housed
<1>7. CASE RemoveDestination(w)
  BY <1>s, <1>h, PutsTyped, PlaceChanges, <1>7 DEF RemoveDestination, TmpTyped, Housed
<1>8. CASE RenameAgain(w)
  BY <1>s, <1>h, PutsTyped, PlaceChanges, <1>8 DEF RenameAgain, Installs, TmpTyped, Housed
<1>9. CASE CheckParent(w)
  BY <1>s, <1>h, PutsTyped, PlaceChanges, <1>9 DEF CheckParent, TmpTyped, Housed
<1>10. CASE CreateLocalDir(w)
  BY <1>s, <1>h, PutsTyped, PlaceChanges, <1>10 DEF CreateLocalDir, MakeDirectory, TmpTyped, Housed
<1>11. CASE CreateLocalFile(w)
  BY <1>s, <1>h, PutsTyped, PlaceChanges, <1>11 DEF CreateLocalFile, MakeFile, TmpTyped, Housed
<1>12. CASE CopyAcross(w)
  BY <1>s, <1>h, PutsTyped, PlaceChanges, <1>12 DEF CopyAcross, TmpTyped, Housed
<1>13. CASE KeepLocalMode(w)
  BY <1>s, <1>h, PutsTyped, PlaceChanges, <1>13 DEF KeepLocalMode, TmpTyped, Housed
<1>14. CASE RenameLocal(w)
  BY <1>s, <1>h, PutsTyped, PlaceChanges, <1>14 DEF RenameLocal, Installs, TmpTyped, Housed
<1>15. CASE RemoveLocalFile(w)
  BY <1>s, <1>h, PutsTyped, PlaceChanges, <1>15 DEF RemoveLocalFile, RemoveFile, TmpTyped, Housed
<1>16. CASE RemoveLocalDir(w)
  BY <1>s, <1>h, PutsTyped, PlaceChanges, <1>16 DEF RemoveLocalDir, RemoveDirectory, TmpTyped, Housed
<1>17. CASE RemoveStagingFile(w)
  BY <1>s, <1>h, PutsTyped, PlaceChanges, <1>17 DEF RemoveStagingFile, RemoveFile, TmpTyped, Housed
<1>18. CASE RemoveStagingDir(w)
  BY <1>s, <1>h, PutsTyped, PlaceChanges, <1>18 DEF RemoveStagingDir, RemoveDirectory, TmpTyped, Housed
<1>19. QED
  BY <1>1, <1>2, <1>3, <1>4, <1>5, <1>6, <1>7, <1>8, <1>9, <1>10, <1>11,
     <1>12, <1>13, <1>14, <1>15, <1>16, <1>17, <1>18 DEF Step

(* No step leaves at the path what is no path's content.                   *)
LEMMA PathTypedStep ==
  ASSUME TmpTyped, dest \in Paths, NEW w \in Writers, Step(w)
  PROVE  dest' \in Paths
<1>a. Gone \in Paths
  BY DEF Gone, Paths, Marks
<1>b. ASSUME NEW s \in Slots, Installs(w, s) PROVE dest' \in Paths
  <2>1. tmp[w][s].mode \in Marks
    BY DEF TmpTyped, Places
  <2>2. QED
    BY <1>b, <2>1 DEF Installs, Paths
<1>h. "stage" \in Slots /\ "local" \in Slots
  BY DEF Slots
<1>1. CASE ChooseBase(w)
  BY <1>a, <1>b, <1>h, <1>1 DEF ChooseBase
<1>2. CASE CreateStagingDir(w)
  BY <1>a, <1>b, <1>h, <1>2 DEF CreateStagingDir, MakeDirectory
<1>3. CASE CreateStagingFile(w)
  BY <1>a, <1>b, <1>h, <1>3 DEF CreateStagingFile, MakeFile
<1>4. CASE WriteFile(w)
  BY <1>a, <1>b, <1>h, <1>4 DEF WriteFile
<1>5. CASE KeepMode(w)
  BY <1>a, <1>b, <1>h, <1>5 DEF KeepMode
<1>6. CASE Rename(w)
  BY <1>a, <1>b, <1>h, <1>6 DEF Rename
<1>7. CASE RemoveDestination(w)
  BY <1>a, <1>b, <1>h, <1>7 DEF RemoveDestination
<1>8. CASE RenameAgain(w)
  BY <1>a, <1>b, <1>h, <1>8 DEF RenameAgain
<1>9. CASE CheckParent(w)
  BY <1>a, <1>b, <1>h, <1>9 DEF CheckParent
<1>10. CASE CreateLocalDir(w)
  BY <1>a, <1>b, <1>h, <1>10 DEF CreateLocalDir, MakeDirectory
<1>11. CASE CreateLocalFile(w)
  BY <1>a, <1>b, <1>h, <1>11 DEF CreateLocalFile, MakeFile
<1>12. CASE CopyAcross(w)
  BY <1>a, <1>b, <1>h, <1>12 DEF CopyAcross
<1>13. CASE KeepLocalMode(w)
  BY <1>a, <1>b, <1>h, <1>13 DEF KeepLocalMode
<1>14. CASE RenameLocal(w)
  BY <1>a, <1>b, <1>h, <1>14 DEF RenameLocal
<1>15. CASE RemoveLocalFile(w)
  BY <1>a, <1>b, <1>h, <1>15 DEF RemoveLocalFile, RemoveFile
<1>16. CASE RemoveLocalDir(w)
  BY <1>a, <1>b, <1>h, <1>16 DEF RemoveLocalDir, RemoveDirectory
<1>17. CASE RemoveStagingFile(w)
  BY <1>a, <1>b, <1>h, <1>17 DEF RemoveStagingFile, RemoveFile
<1>18. CASE RemoveStagingDir(w)
  BY <1>a, <1>b, <1>h, <1>18 DEF RemoveStagingDir, RemoveDirectory
<1>19. QED
  BY <1>1, <1>2, <1>3, <1>4, <1>5, <1>6, <1>7, <1>8, <1>9, <1>10, <1>11,
     <1>12, <1>13, <1>14, <1>15, <1>16, <1>17, <1>18 DEF Step

(* A call about to create or fill a file still has its directory.          *)
LEMMA HousedStep ==
  ASSUME CallTyped, TmpTyped, NEW w \in Writers, Step(w), NEW v \in Writers, Housed(v)
  PROVE  Housed(v)'
<1> USE DEF CallTyped, TmpTyped, Slots, Places, Housed, Goto, Proceed, Abandon, Absent, Puts
<1>1. CASE ChooseBase(w)
  BY <1>1 DEF ChooseBase
<1>2. CASE CreateStagingDir(w)
  BY <1>2 DEF CreateStagingDir, MakeDirectory
<1>3. CASE CreateStagingFile(w)
  <2> DEFINE made == [tmp[w]["stage"] EXCEPT !.file = "partial", !.mode = Default[w]]
  <2>1. CASE v # w
    BY <1>3, <2>1 DEF CreateStagingFile, MakeFile
  <2>2. CASE v = w /\ Puts(w, "stage", made) /\ tmp[w]["stage"].dir
    <3>1. made.dir
      BY <2>2 DEF Places
    <3>2. tmp'[w]["stage"].dir
      BY <2>2, <3>1
    <3>3. QED
      BY <1>3, <2>2, <3>2 DEF CreateStagingFile, MakeFile
  <2>3. CASE v = w /\ pc'[w] \notin {"file", "encode", "localFile", "copy"}
    BY <2>3
  <2>4. v = w => \/ Puts(w, "stage", made) /\ tmp[w]["stage"].dir
                 \/ pc'[w] \notin {"file", "encode", "localFile", "copy"}
    BY <1>3 DEF CreateStagingFile, MakeFile
  <2>5. QED
    BY <2>1, <2>2, <2>3, <2>4
<1>4. CASE WriteFile(w)
  BY <1>4 DEF WriteFile
<1>5. CASE KeepMode(w)
  BY <1>5 DEF KeepMode
<1>6. CASE Rename(w)
  BY <1>6 DEF Rename, Installs
<1>7. CASE RemoveDestination(w)
  BY <1>7 DEF RemoveDestination
<1>8. CASE RenameAgain(w)
  BY <1>8 DEF RenameAgain, Installs
<1>9. CASE CheckParent(w)
  BY <1>9 DEF CheckParent
<1>10. CASE CreateLocalDir(w)
  BY <1>10 DEF CreateLocalDir, MakeDirectory
<1>11. CASE CreateLocalFile(w)
  <2> DEFINE made == [tmp[w]["local"] EXCEPT !.file = "partial", !.mode = Default[w]]
  <2>1. CASE v # w
    BY <1>11, <2>1 DEF CreateLocalFile, MakeFile
  <2>2. CASE v = w /\ Puts(w, "local", made) /\ tmp[w]["local"].dir
    <3>1. made.dir
      BY <2>2 DEF Places
    <3>2. tmp'[w]["local"].dir
      BY <2>2, <3>1
    <3>3. QED
      BY <1>11, <2>2, <3>2 DEF CreateLocalFile, MakeFile
  <2>3. CASE v = w /\ pc'[w] \notin {"file", "encode", "localFile", "copy"}
    BY <2>3
  <2>4. v = w => \/ Puts(w, "local", made) /\ tmp[w]["local"].dir
                 \/ pc'[w] \notin {"file", "encode", "localFile", "copy"}
    BY <1>11 DEF CreateLocalFile, MakeFile
  <2>5. QED
    BY <2>1, <2>2, <2>3, <2>4
<1>12. CASE CopyAcross(w)
  BY <1>12 DEF CopyAcross
<1>13. CASE KeepLocalMode(w)
  BY <1>13 DEF KeepLocalMode
<1>14. CASE RenameLocal(w)
  BY <1>14 DEF RenameLocal, Installs
<1>15. CASE RemoveLocalFile(w)
  BY <1>15 DEF RemoveLocalFile, RemoveFile
<1>16. CASE RemoveLocalDir(w)
  BY <1>16 DEF RemoveLocalDir, RemoveDirectory
<1>17. CASE RemoveStagingFile(w)
  BY <1>17 DEF RemoveStagingFile, RemoveFile
<1>18. CASE RemoveStagingDir(w)
  BY <1>18 DEF RemoveStagingDir, RemoveDirectory
<1>19. QED
  BY <1>1, <1>2, <1>3, <1>4, <1>5, <1>6, <1>7, <1>8, <1>9, <1>10, <1>11,
     <1>12, <1>13, <1>14, <1>15, <1>16, <1>17, <1>18 DEF Step

(* The type invariant is inductive.                                        *)
LEMMA TypeNext == TypeInv /\ [Next]_vars => TypeInv'
<1> SUFFICES ASSUME TypeInv, [Next]_vars PROVE TypeInv'
  OBVIOUS
<1>1. CallTyped /\ MachineTyped /\ TmpTyped /\ dest \in Paths /\ \A v \in Writers : Housed(v)
  BY DEF TypeInv, TypeOK, CallTyped, MachineTyped, TmpTyped
<1>2. (CallTyped /\ MachineTyped /\ TmpTyped /\ dest \in Paths
         /\ \A v \in Writers : Housed(v))' => TypeInv'
  BY DEF TypeInv, TypeOK, CallTyped, MachineTyped, TmpTyped
<1>3. CASE UNCHANGED vars
  BY <1>3 DEF vars, TypeInv, TypeOK, Housed
<1>4. CASE Reshare
  <2>1. MachineTyped'
    BY <1>1, <1>4, WriteAssumption DEF Reshare, MachineTyped, machine
  <2>2. CallTyped' /\ TmpTyped' /\ dest' \in Paths /\ \A v \in Writers : Housed(v)'
    BY <1>1, <1>4 DEF Reshare, CallTyped, TmpTyped, Housed
  <2>3. QED
    BY <1>2, <2>1, <2>2
<1>5. ASSUME NEW w \in Writers, Crash(w) PROVE TypeInv'
  <2>1. MachineTyped'
    BY <1>1, <1>5, WriteAssumption DEF Crash, MachineTyped, machine
  <2>2. CallTyped' /\ TmpTyped' /\ dest' \in Paths
    BY <1>1, <1>5 DEF Crash, CallTyped, TmpTyped, Goto, Steps
  <2>3. ASSUME NEW v \in Writers PROVE Housed(v)'
    BY <1>1, <1>5 DEF Crash, CallTyped, Housed, Goto
  <2>4. QED
    BY <1>2, <2>1, <2>2, <2>3
<1>6. ASSUME NEW w \in Writers, Step(w) PROVE TypeInv'
  <2>1. CallTyped' /\ MachineTyped' /\ TmpTyped' /\ dest' \in Paths
    BY <1>1, <1>6, CallTypedStep, MachineTypedStep, TmpTypedStep, PathTypedStep
  <2>2. ASSUME NEW v \in Writers PROVE Housed(v)'
    BY <1>1, <1>6, HousedStep
  <2>3. QED
    BY <1>2, <2>1, <2>2
<1>7. QED
  BY <1>3, <1>4, <1>5, <1>6 DEF Next

(* Every state of every instance is well typed, on Windows too, and every  *)
(* staging file lies in a staging directory.                               *)
THEOREM WriterTypeCorrect == Spec => []TypeOK
<1>1. TypeInv => TypeOK
  BY DEF TypeInv
<1>2. QED
  BY TypeInit, TypeNext, <1>1, PTL DEF Spec

-----------------------------------------------------------------------------
(* A step of one call leaves the others' places and results alone.         *)
LEMMA OthersKept ==
  ASSUME CallTyped, TmpTyped, NEW w \in Writers, Step(w), NEW v \in Writers, v # w
  PROVE  pc'[v] = pc[v] /\ result'[v] = result[v] /\ tmp'[v] = tmp[v]
<1> USE DEF CallTyped, TmpTyped, Goto, Proceed, Abandon, Puts
<1>1. CASE ChooseBase(w)
  BY <1>1 DEF ChooseBase
<1>2. CASE CreateStagingDir(w)
  BY <1>2 DEF CreateStagingDir, MakeDirectory
<1>3. CASE CreateStagingFile(w)
  BY <1>3 DEF CreateStagingFile, MakeFile
<1>4. CASE WriteFile(w)
  BY <1>4 DEF WriteFile
<1>5. CASE KeepMode(w)
  BY <1>5 DEF KeepMode
<1>6. CASE Rename(w)
  BY <1>6 DEF Rename, Installs
<1>7. CASE RemoveDestination(w)
  BY <1>7 DEF RemoveDestination
<1>8. CASE RenameAgain(w)
  BY <1>8 DEF RenameAgain, Installs
<1>9. CASE CheckParent(w)
  BY <1>9 DEF CheckParent
<1>10. CASE CreateLocalDir(w)
  BY <1>10 DEF CreateLocalDir, MakeDirectory
<1>11. CASE CreateLocalFile(w)
  BY <1>11 DEF CreateLocalFile, MakeFile
<1>12. CASE CopyAcross(w)
  BY <1>12 DEF CopyAcross
<1>13. CASE KeepLocalMode(w)
  BY <1>13 DEF KeepLocalMode
<1>14. CASE RenameLocal(w)
  BY <1>14 DEF RenameLocal, Installs
<1>15. CASE RemoveLocalFile(w)
  BY <1>15 DEF RemoveLocalFile, RemoveFile
<1>16. CASE RemoveLocalDir(w)
  BY <1>16 DEF RemoveLocalDir, RemoveDirectory
<1>17. CASE RemoveStagingFile(w)
  BY <1>17 DEF RemoveStagingFile, RemoveFile
<1>18. CASE RemoveStagingDir(w)
  BY <1>18 DEF RemoveStagingDir, RemoveDirectory
<1>19. QED
  BY <1>1, <1>2, <1>3, <1>4, <1>5, <1>6, <1>7, <1>8, <1>9, <1>10, <1>11,
     <1>12, <1>13, <1>14, <1>15, <1>16, <1>17, <1>18 DEF Step

(* The step that puts a file at the path puts a whole one there, with the  *)
(* mode the call carries.                                                  *)
LEMMA DestSoundStep ==
  ASSUME ~Windows, TypeInv, DestSound, NEW w \in Writers, CallSound(w), Step(w)
  PROVE  /\ DestSound'
         /\ dest' = dest \/ (Carries(w) \in Modes /\ dest' = Installed(w))
<1> USE DEF DestSound, CallSound, Staged, Copied, Carries, Installed
<1>t. dest \in Paths
  BY DEF TypeInv, TypeOK
<1>1. CASE ChooseBase(w)
  BY <1>t, <1>1 DEF ChooseBase, Paths
<1>2. CASE CreateStagingDir(w)
  BY <1>t, <1>2 DEF CreateStagingDir, MakeDirectory, Paths
<1>3. CASE CreateStagingFile(w)
  BY <1>t, <1>3 DEF CreateStagingFile, MakeFile, Paths
<1>4. CASE WriteFile(w)
  BY <1>t, <1>4 DEF WriteFile, Paths
<1>5. CASE KeepMode(w)
  BY <1>t, <1>5 DEF KeepMode, Paths
<1>6. CASE Rename(w)
  BY <1>t, <1>6 DEF Rename, Installs, Paths
<1>7. CASE RemoveDestination(w)
  BY <1>t, <1>7 DEF RemoveDestination, Paths
<1>8. CASE RenameAgain(w)
  BY <1>t, <1>8 DEF RenameAgain, Installs, Paths
<1>9. CASE CheckParent(w)
  BY <1>t, <1>9 DEF CheckParent, Paths
<1>10. CASE CreateLocalDir(w)
  BY <1>t, <1>10 DEF CreateLocalDir, MakeDirectory, Paths
<1>11. CASE CreateLocalFile(w)
  BY <1>t, <1>11 DEF CreateLocalFile, MakeFile, Paths
<1>12. CASE CopyAcross(w)
  BY <1>t, <1>12 DEF CopyAcross, Paths
<1>13. CASE KeepLocalMode(w)
  BY <1>t, <1>13 DEF KeepLocalMode, Paths
<1>14. CASE RenameLocal(w)
  BY <1>t, <1>14 DEF RenameLocal, Installs, Paths
<1>15. CASE RemoveLocalFile(w)
  BY <1>t, <1>15 DEF RemoveLocalFile, RemoveFile, Paths
<1>16. CASE RemoveLocalDir(w)
  BY <1>t, <1>16 DEF RemoveLocalDir, RemoveDirectory, Paths
<1>17. CASE RemoveStagingFile(w)
  BY <1>t, <1>17 DEF RemoveStagingFile, RemoveFile, Paths
<1>18. CASE RemoveStagingDir(w)
  BY <1>t, <1>18 DEF RemoveStagingDir, RemoveDirectory, Paths
<1>19. QED
  BY <1>1, <1>2, <1>3, <1>4, <1>5, <1>6, <1>7, <1>8, <1>9, <1>10, <1>11,
     <1>12, <1>13, <1>14, <1>15, <1>16, <1>17, <1>18 DEF Step

(* A step keeps what is known of the call that takes it.                   *)
LEMMA CallSoundStep ==
  ASSUME ~Windows, TypeInv, DestSound, NEW w \in Writers, CallSound(w), Step(w)
  PROVE  CallSound(w)'
<1>t. CallTyped /\ TmpTyped
  BY DEF TypeInv, TypeOK, CallTyped, TmpTyped
<1>d. Default[w] \in Modes
  BY WriteAssumption
<1> USE DEF CallTyped, TmpTyped, Places, DestSound, CallSound, Working, Cleaning, Staged, Copied,
            Slots, Goto, Proceed, Abandon, Puts, Absent
<1>1. CASE ChooseBase(w)
  BY <1>t, <1>d, <1>1 DEF ChooseBase
<1>2. CASE CreateStagingDir(w)
  BY <1>t, <1>d, <1>2 DEF CreateStagingDir, MakeDirectory
<1>3. CASE CreateStagingFile(w)
  <2> DEFINE made == [tmp[w]["stage"] EXCEPT !.file = "partial", !.mode = Default[w]]
  <2>1. made.mode = Default[w]
    OBVIOUS
  <2>2. Puts(w, "stage", made) => tmp'[w]["stage"].mode = Default[w]
    BY <1>t, <2>1
  <2>3. pc'[w] = "encode" => Puts(w, "stage", made)
    BY <1>t, <1>3 DEF CreateStagingFile, MakeFile
  <2>4. pc'[w] \in {"encode", "done"} /\ (pc'[w] = "done" => result'[w] = "failed")
          /\ (pc'[w] = "encode" => result'[w] = result[w]) /\ pc[w] = "file"
    BY <1>t, <1>3 DEF CreateStagingFile, MakeFile
  <2>5. QED
    BY <2>2, <2>3, <2>4
<1>4. CASE WriteFile(w)
  BY <1>t, <1>d, <1>4 DEF WriteFile
<1>5. CASE KeepMode(w)
  BY <1>t, <1>d, <1>5 DEF KeepMode
<1>6. CASE Rename(w)
  BY <1>t, <1>d, <1>6 DEF Rename, Installs
<1>7. CASE RemoveDestination(w)
  BY <1>t, <1>d, <1>7 DEF RemoveDestination
<1>8. CASE RenameAgain(w)
  BY <1>t, <1>d, <1>8 DEF RenameAgain, Installs
<1>9. CASE CheckParent(w)
  BY <1>t, <1>d, <1>9 DEF CheckParent
<1>10. CASE CreateLocalDir(w)
  BY <1>t, <1>d, <1>10 DEF CreateLocalDir, MakeDirectory
<1>11. CASE CreateLocalFile(w)
  BY <1>t, <1>d, <1>11 DEF CreateLocalFile, MakeFile
<1>12. CASE CopyAcross(w)
  <2> DEFINE copied == [tmp[w]["local"] EXCEPT !.file = tmp[w]["stage"].file,
                                               !.mode = tmp[w]["stage"].mode]
  <2>1. copied.file = tmp[w]["stage"].file /\ copied.mode = tmp[w]["stage"].mode
    OBVIOUS
  <2>2. Puts(w, "local", copied) =>
          tmp'[w]["local"].file = tmp[w]["stage"].file
            /\ tmp'[w]["local"].mode = tmp[w]["stage"].mode
    BY <1>t, <2>1
  <2>3. pc'[w] = "localMode" => Puts(w, "local", copied)
    BY <1>t, <1>12 DEF CopyAcross
  <2>4. pc'[w] \in {"localMode", "localClean"} /\ pc[w] = "copy"
          /\ (pc'[w] = "localClean" => result'[w] = "failed")
          /\ (pc'[w] = "localMode" => result'[w] = result[w])
    BY <1>t, <1>12 DEF CopyAcross
  <2>5. QED
    BY <2>2, <2>3, <2>4
<1>13. CASE KeepLocalMode(w)
  <2> DEFINE kept == [tmp[w]["local"] EXCEPT !.mode = dest.mode]
  <2>1. kept.file = tmp[w]["local"].file /\ kept.mode = dest.mode
    OBVIOUS
  <2>2. Puts(w, "local", kept) =>
          tmp'[w]["local"].file = tmp[w]["local"].file
            /\ tmp'[w]["local"].mode = dest.mode
    BY <1>t, <2>1
  <2>3. (Puts(w, "local", kept) /\ dest.mode \in Modes) \/ UNCHANGED tmp
    BY <1>t, <1>13 DEF KeepLocalMode
  <2>4. pc'[w] = "localPromote" /\ pc[w] = "localMode" /\ result'[w] = result[w]
    BY <1>t, <1>13 DEF KeepLocalMode
  <2>5. QED
    BY <2>2, <2>3, <2>4
<1>14. CASE RenameLocal(w)
  BY <1>t, <1>d, <1>14 DEF RenameLocal, Installs
<1>15. CASE RemoveLocalFile(w)
  BY <1>t, <1>d, <1>15 DEF RemoveLocalFile, RemoveFile
<1>16. CASE RemoveLocalDir(w)
  BY <1>t, <1>d, <1>16 DEF RemoveLocalDir, RemoveDirectory
<1>17. CASE RemoveStagingFile(w)
  BY <1>t, <1>d, <1>17 DEF RemoveStagingFile, RemoveFile
<1>18. CASE RemoveStagingDir(w)
  BY <1>t, <1>d, <1>18 DEF RemoveStagingDir, RemoveDirectory
<1>19. QED
  BY <1>1, <1>2, <1>3, <1>4, <1>5, <1>6, <1>7, <1>8, <1>9, <1>10, <1>11,
     <1>12, <1>13, <1>14, <1>15, <1>16, <1>17, <1>18 DEF Step

(* What the path holds before any call is whole and nobody's.              *)
LEMMA InitDest ==
  ASSUME Init
  PROVE  /\ dest.kind \in {"absent", "symlink", "file"} /\ dest.by = "outsider" /\ dest.whole
         /\ dest.kind = "file" => dest.mode \in Modes
         /\ dest.kind # "file" => dest.mode = "none"
<1>1. CASE dest = Gone
  BY <1>1 DEF Gone
<1>2. CASE dest = [Gone EXCEPT !.kind = "symlink"]
  BY <1>2 DEF Gone
<1>3. ASSUME NEW m \in Modes, dest = [Gone EXCEPT !.kind = "file", !.mode = m]
      PROVE  /\ dest.kind = "file" /\ dest.by = "outsider" /\ dest.whole /\ dest.mode \in Modes
  BY <1>3 DEF Gone
<1>4. QED
  BY <1>1, <1>2, <1>3 DEF Init

(* The strengthened invariant holds at the start.                          *)
LEMMA ReplaceInit == Init => ReplaceInv
<1>1. SUFFICES ASSUME Init PROVE ReplaceInv
  OBVIOUS
<1>2. DestSound
  BY <1>1, InitDest DEF DestSound
<1>3. ASSUME NEW w \in Writers PROVE CallSound(w)
  BY <1>1 DEF Init, CallSound, Working, Cleaning, Staged, Copied
<1>4. QED
  BY <1>1, <1>2, <1>3, TypeInit DEF ReplaceInv, CallsSound

(* The strengthened invariant is inductive where renaming replaces.        *)
LEMMA ReplaceNext == ~Windows /\ ReplaceInv /\ [Next]_vars => ReplaceInv'
<1> SUFFICES ASSUME ~Windows, ReplaceInv, [Next]_vars PROVE ReplaceInv'
  OBVIOUS
<1>1. TypeInv' /\ TypeInv /\ DestSound /\ CallTyped /\ TmpTyped
  BY TypeNext DEF ReplaceInv, TypeInv, TypeOK, CallTyped, TmpTyped
<1>2. ASSUME NEW w \in Writers PROVE CallSound(w)
  BY DEF ReplaceInv, CallsSound
<1>3. CASE UNCHANGED vars
  BY <1>1, <1>2, <1>3 DEF vars, ReplaceInv, DestSound, CallsSound, CallSound
<1>4. CASE Reshare
  BY <1>1, <1>2, <1>4 DEF Reshare, ReplaceInv, DestSound, CallsSound, CallSound
<1>5. ASSUME NEW w \in Writers, Crash(w) PROVE ReplaceInv'
  <2>1. DestSound'
    BY <1>1, <1>5 DEF Crash, DestSound
  <2>2. ASSUME NEW v \in Writers PROVE CallSound(v)'
    BY <1>1, <1>2, <1>5 DEF CallTyped, Crash, Goto, CallSound, Working, Cleaning, Staged, Copied
  <2>3. QED
    BY <1>1, <2>1, <2>2 DEF ReplaceInv, CallsSound
<1>6. ASSUME NEW w \in Writers, Step(w) PROVE ReplaceInv'
  <2>1. DestSound'
    BY <1>1, <1>2, <1>6, DestSoundStep
  <2>2. CallSound(w)'
    BY <1>1, <1>2, <1>6, CallSoundStep
  <2>3. ASSUME NEW v \in Writers, v # w PROVE CallSound(v)'
    <3>1. pc'[v] = pc[v] /\ result'[v] = result[v] /\ tmp'[v] = tmp[v]
      BY <1>1, <1>6, <2>3, OthersKept
    <3>2. QED
      BY <1>2, <2>1, <3>1 DEF CallSound
  <2>4. QED
    BY <1>1, <2>1, <2>2, <2>3 DEF ReplaceInv, CallsSound
<1>7. QED
  BY <1>3, <1>4, <1>5, <1>6 DEF Next

(* As long as the path holds a file of mode m, every call that is past its *)
(* reading of the mode carries that mode.                                  *)
AllCarry(m) ==
  /\ dest.kind = "file" /\ dest.mode = m
  /\ \A w \in Writers : Carries(w) \in {m, "none"}

(* What a call carries after a step: the mode it carried, that of the file *)
(* it now found, its own default when it found none, or nothing.           *)
LEMMA CarriesStep ==
  ASSUME ~Windows, TypeInv, DestSound, NEW w \in Writers, CallSound(w), Step(w)
  PROVE  \/ Carries(w)' = Carries(w)
         \/ /\ dest' = dest /\ Progress(w) = "pending" /\ Progress(w)' = "pending"
            /\ Carries(w)' = IF dest.kind = "file" THEN dest.mode ELSE Default[w]
         \/ Carries(w)' = "none"
<1>t. CallTyped /\ TmpTyped
  BY DEF TypeInv, TypeOK, CallTyped, TmpTyped
<1> USE DEF CallTyped, TmpTyped, Places, CallSound, Working, Cleaning, Staged, Copied, Slots,
            Goto, Proceed, Abandon, Puts, Progress, Carries
<1>1. CASE ChooseBase(w)
  BY <1>t, <1>1 DEF ChooseBase
<1>2. CASE CreateStagingDir(w)
  BY <1>t, <1>2 DEF CreateStagingDir, MakeDirectory
<1>3. CASE CreateStagingFile(w)
  BY <1>t, <1>3 DEF CreateStagingFile, MakeFile
<1>4. CASE WriteFile(w)
  BY <1>t, <1>4 DEF WriteFile
<1>5. CASE KeepMode(w)
  BY <1>t, <1>5 DEF KeepMode
<1>6. CASE Rename(w)
  BY <1>t, <1>6 DEF Rename, Installs
<1>7. CASE RemoveDestination(w)
  BY <1>t, <1>7 DEF RemoveDestination
<1>8. CASE RenameAgain(w)
  BY <1>t, <1>8 DEF RenameAgain, Installs
<1>9. CASE CheckParent(w)
  BY <1>t, <1>9 DEF CheckParent
<1>10. CASE CreateLocalDir(w)
  BY <1>t, <1>10 DEF CreateLocalDir, MakeDirectory
<1>11. CASE CreateLocalFile(w)
  BY <1>t, <1>11 DEF CreateLocalFile, MakeFile
<1>12. CASE CopyAcross(w)
  <2> DEFINE copied == [tmp[w]["local"] EXCEPT !.file = tmp[w]["stage"].file,
                                               !.mode = tmp[w]["stage"].mode]
  <2>1. copied.mode = tmp[w]["stage"].mode
    OBVIOUS
  <2>2. Puts(w, "local", copied) => tmp'[w]["local"].mode = tmp[w]["stage"].mode
    BY <1>t, <2>1
  <2>3. pc'[w] = "localMode" => Puts(w, "local", copied)
    BY <1>t, <1>12 DEF CopyAcross
  <2>4. /\ pc[w] = "copy" /\ dest' = dest
        /\ \/ pc'[w] = "localMode" /\ result'[w] = result[w]
           \/ pc'[w] = "localClean" /\ result'[w] = "failed"
    BY <1>t, <1>12 DEF CopyAcross
  <2>5. QED
    BY <1>t, <2>2, <2>3, <2>4
<1>13. CASE KeepLocalMode(w)
  BY <1>t, <1>13 DEF KeepLocalMode
<1>14. CASE RenameLocal(w)
  BY <1>t, <1>14 DEF RenameLocal, Installs
<1>15. CASE RemoveLocalFile(w)
  BY <1>t, <1>15 DEF RemoveLocalFile, RemoveFile
<1>16. CASE RemoveLocalDir(w)
  BY <1>t, <1>16 DEF RemoveLocalDir, RemoveDirectory
<1>17. CASE RemoveStagingFile(w)
  BY <1>t, <1>17 DEF RemoveStagingFile, RemoveFile
<1>18. CASE RemoveStagingDir(w)
  BY <1>t, <1>18 DEF RemoveStagingDir, RemoveDirectory
<1>19. QED
  BY <1>1, <1>2, <1>3, <1>4, <1>5, <1>6, <1>7, <1>8, <1>9, <1>10, <1>11,
     <1>12, <1>13, <1>14, <1>15, <1>16, <1>17, <1>18 DEF Step


(* A file's mode is handed down: however many writers replace it, with any *)
(* umasks, faults and crashes in between, the path keeps the mode of the   *)
(* file that was there before the calls.                                   *)
THEOREM ModesSurvive == ASSUME ~Windows PROVE Spec => ExistingModeKept
<1>1. ASSUME NEW m \in Modes
      PROVE  Spec => (dest.kind = "file" /\ dest.mode = m
                        => [](dest.kind = "file" /\ dest.mode = m))
  <2>1. Init /\ dest.kind = "file" /\ dest.mode = m => AllCarry(m)
    BY DEF Init, AllCarry, Carries, Staged, Copied
  <2>2. AllCarry(m) => dest.kind = "file" /\ dest.mode = m
    BY DEF AllCarry
  <2>3. ReplaceInv /\ AllCarry(m) /\ [Next]_vars => AllCarry(m)'
    <3> SUFFICES ASSUME ReplaceInv, AllCarry(m), [Next]_vars PROVE AllCarry(m)'
      OBVIOUS
    <3>t. /\ TypeInv /\ CallTyped /\ TmpTyped /\ DestSound
          /\ \A w \in Writers : CallSound(w)
      BY DEF ReplaceInv, CallsSound, TypeInv, TypeOK, CallTyped, TmpTyped
    <3>1. CASE UNCHANGED vars \/ Reshare
      BY <3>1 DEF vars, Reshare, AllCarry, Carries
    <3>2. ASSUME NEW w \in Writers, Crash(w) PROVE AllCarry(m)'
      BY <3>2, <3>t DEF Crash, Goto, CallTyped, AllCarry, Carries, Staged, Copied
    <3>3. ASSUME NEW w \in Writers, Step(w) PROVE AllCarry(m)'
      <4>1. dest' = dest \/ (Carries(w) \in Modes /\ dest' = Installed(w))
        BY <3>3, <3>t, DestSoundStep
      <4>2. dest'.kind = "file" /\ dest'.mode = m
        BY <4>1, WriteAssumption DEF AllCarry, Installed
      <4>3. Carries(w)' \in {m, "none"}
        BY <3>3, <3>t, CarriesStep DEF AllCarry
      <4>4. ASSUME NEW v \in Writers, v # w PROVE Carries(v)' = Carries(v)
        BY <3>3, <3>t, <4>4, OthersKept DEF Carries
      <4>5. QED
        BY <4>2, <4>3, <4>4 DEF AllCarry
    <3>4. QED
      BY <3>1, <3>2, <3>3 DEF Next
  <2>4. ReplaceInv /\ [Next]_vars => ReplaceInv'
    BY ReplaceNext
  <2>5. QED
    BY ReplaceInit, <2>1, <2>2, <2>3, <2>4, PTL DEF Spec
<1>2. QED
  BY <1>1 DEF ExistingModeKept

-----------------------------------------------------------------------------
(* What a step of a call is to AtomicReplace.                              *)
LEMMA StepProgress ==
  ASSUME ~Windows, ReplaceInv, NEW w \in Writers, Step(w)
  PROVE  \/ dest' = dest /\ Progress(w)' = Progress(w) /\ Carries(w)' = Carries(w)
         \/ /\ dest' = dest /\ Progress(w) = "pending" /\ Progress(w)' = "pending"
            /\ Carries(w)' = IF dest.kind = "file" THEN dest.mode ELSE Default[w]
         \/ /\ Progress(w) = "pending" /\ Progress(w)' = "installed"
            /\ Carries(w) \in Modes /\ dest' = Installed(w) /\ Carries(w)' = "none"
         \/ /\ dest' = dest /\ Progress(w) = "installed" /\ Progress(w)' = "ok"
            /\ Carries(w)' = Carries(w)
         \/ /\ dest' = dest /\ Progress(w) = "pending" /\ Progress(w)' = "failed"
            /\ Carries(w)' = "none"
<1>t. CallTyped /\ TmpTyped /\ CallSound(w) /\ dest \in Paths
  BY DEF ReplaceInv, CallsSound, TypeInv, TypeOK, CallTyped, TmpTyped
<1> USE DEF CallTyped, TmpTyped, Places, CallSound, Working, Cleaning, Staged, Copied, Slots,
            Goto, Proceed, Abandon, Puts, Progress, Carries, Installed
<1>1. CASE ChooseBase(w)
  BY <1>t, <1>1 DEF ChooseBase
<1>2. CASE CreateStagingDir(w)
  BY <1>t, <1>2 DEF CreateStagingDir, MakeDirectory
<1>3. CASE CreateStagingFile(w)
  BY <1>t, <1>3 DEF CreateStagingFile, MakeFile
<1>4. CASE WriteFile(w)
  BY <1>t, <1>4 DEF WriteFile
<1>5. CASE KeepMode(w)
  BY <1>t, <1>5 DEF KeepMode
<1>6. CASE Rename(w)
  BY <1>t, <1>6 DEF Rename, Installs
<1>7. CASE RemoveDestination(w)
  BY <1>t, <1>7 DEF RemoveDestination
<1>8. CASE RenameAgain(w)
  BY <1>t, <1>8 DEF RenameAgain, Installs
<1>9. CASE CheckParent(w)
  BY <1>t, <1>9 DEF CheckParent
<1>10. CASE CreateLocalDir(w)
  BY <1>t, <1>10 DEF CreateLocalDir, MakeDirectory
<1>11. CASE CreateLocalFile(w)
  BY <1>t, <1>11 DEF CreateLocalFile, MakeFile
<1>12. CASE CopyAcross(w)
  <2> DEFINE copied == [tmp[w]["local"] EXCEPT !.file = tmp[w]["stage"].file,
                                               !.mode = tmp[w]["stage"].mode]
  <2>1. copied.mode = tmp[w]["stage"].mode
    OBVIOUS
  <2>2. Puts(w, "local", copied) => tmp'[w]["local"].mode = tmp[w]["stage"].mode
    BY <1>t, <2>1
  <2>3. pc'[w] = "localMode" => Puts(w, "local", copied)
    BY <1>t, <1>12 DEF CopyAcross
  <2>4. /\ pc[w] = "copy" /\ dest' = dest
        /\ \/ pc'[w] = "localMode" /\ result'[w] = result[w]
           \/ pc'[w] = "localClean" /\ result'[w] = "failed"
    BY <1>t, <1>12 DEF CopyAcross
  <2>5. QED
    BY <1>t, <2>2, <2>3, <2>4
<1>13. CASE KeepLocalMode(w)
  BY <1>t, <1>13 DEF KeepLocalMode
<1>14. CASE RenameLocal(w)
  BY <1>t, <1>14 DEF RenameLocal, Installs
<1>15. CASE RemoveLocalFile(w)
  BY <1>t, <1>15 DEF RemoveLocalFile, RemoveFile
<1>16. CASE RemoveLocalDir(w)
  BY <1>t, <1>16 DEF RemoveLocalDir, RemoveDirectory
<1>17. CASE RemoveStagingFile(w)
  BY <1>t, <1>17 DEF RemoveStagingFile, RemoveFile
<1>18. CASE RemoveStagingDir(w)
  BY <1>t, <1>18 DEF RemoveStagingDir, RemoveDirectory
<1>19. QED
  BY <1>1, <1>2, <1>3, <1>4, <1>5, <1>6, <1>7, <1>8, <1>9, <1>10, <1>11,
     <1>12, <1>13, <1>14, <1>15, <1>16, <1>17, <1>18 DEF Step

(* The initial states map to initial states of AtomicReplace.              *)
LEMMA RefinesInit == Init => Promise!Init
<1> SUFFICES ASSUME Init PROVE Promise!Init
  OBVIOUS
<1>1. PathHolds \in Promise!Holdings /\ PathHolds.by = "outsider"
  BY InitDest DEF PathHolds, Promise!Holdings
<1>2. Outcome = [w \in Writers |-> "pending"] /\ Found = [w \in Writers |-> "none"]
  BY DEF Init, Outcome, Progress, Found, Carries, Staged, Copied
<1>3. QED
  BY <1>1, <1>2 DEF Promise!Init

(* Every step maps to a step of AtomicReplace or to none.                  *)
LEMMA RefinesNext == ~Windows /\ ReplaceInv /\ [Next]_vars => [Promise!Next]_(Promise!vars)
<1> SUFFICES ASSUME ~Windows, ReplaceInv, [Next]_vars PROVE [Promise!Next]_(Promise!vars)
  OBVIOUS
<1> USE DEF Promise!vars
<1>t. /\ CallTyped /\ TmpTyped /\ dest \in Paths /\ dest.whole /\ DestSound
      /\ \A w \in Writers : CallSound(w)
  BY DEF ReplaceInv, CallsSound, DestSound, TypeInv, TypeOK, CallTyped, TmpTyped
<1>1. CASE UNCHANGED vars
  BY <1>1 DEF vars, PathHolds, Outcome, Progress, Found, Carries
<1>2. CASE Reshare
  BY <1>2 DEF Reshare, PathHolds, Outcome, Progress, Found, Carries
<1>3. ASSUME NEW w \in Writers, Crash(w) PROVE [Promise!Next]_(Promise!vars)
  <2>1. PathHolds' = PathHolds
    BY <1>3 DEF Crash, PathHolds
  <2>2. /\ \/ Progress(w) \in {"pending", "installed"} /\ Progress(w)' = "crashed"
           \/ Progress(w) = "failed" /\ Progress(w)' = "failed" /\ Carries(w) = "none"
        /\ Carries(w)' = "none"
    BY <1>3, <1>t DEF Crash, Goto, Progress, Carries, Staged, Copied, CallTyped, CallSound, Working
  <2>3. \A v \in Writers : v # w => Progress(v)' = Progress(v) /\ Carries(v)' = Carries(v)
    BY <1>3, <1>t DEF Crash, Goto, Progress, Carries, CallTyped
  <2>4. /\ Outcome' = [Outcome EXCEPT ![w] = Progress(w)'] /\ Outcome[w] = Progress(w)
        /\ Found' = [Found EXCEPT ![w] = "none"] /\ Found[w] = Carries(w)
    BY <2>2, <2>3 DEF Outcome, Found
  <2>5. CASE Progress(w) \in {"pending", "installed"} /\ Progress(w)' = "crashed"
    <3>1. Promise!Crash(w)
      BY <2>1, <2>4, <2>5 DEF Promise!Crash, Promise!Ends
    <3>2. QED
      BY <3>1 DEF Promise!Next
  <2>6. CASE Progress(w) = "failed" /\ Progress(w)' = "failed" /\ Carries(w) = "none"
    <3>1. Outcome' = Outcome /\ Found' = Found
      BY <2>2, <2>3, <2>6 DEF Outcome, Found
    <3>2. QED
      BY <2>1, <3>1
  <2>7. QED
    BY <2>2, <2>5, <2>6
<1>4. ASSUME NEW w \in Writers, Step(w) PROVE [Promise!Next]_(Promise!vars)
  <2>1. \A v \in Writers : v # w => Progress(v)' = Progress(v) /\ Carries(v)' = Carries(v)
    BY <1>t, <1>4, OthersKept DEF Progress, Carries
  <2>2. /\ Outcome' = [Outcome EXCEPT ![w] = Progress(w)'] /\ Outcome[w] = Progress(w)
        /\ Found' = [Found EXCEPT ![w] = Carries(w)'] /\ Found[w] = Carries(w)
    BY <2>1 DEF Outcome, Found
  <2>3. CASE dest' = dest /\ Progress(w)' = Progress(w) /\ Carries(w)' = Carries(w)
    <3>1. PathHolds' = PathHolds
      BY <2>3 DEF PathHolds
    <3>2. Outcome' = Outcome /\ Found' = Found
      BY <2>1, <2>3 DEF Outcome, Found
    <3>3. QED
      BY <3>1, <3>2
  <2>4. CASE /\ dest' = dest /\ Progress(w) = "pending" /\ Progress(w)' = "pending"
             /\ Carries(w)' = IF dest.kind = "file" THEN dest.mode ELSE Default[w]
    <3>1. PathHolds' = PathHolds /\ PathHolds.mode = dest.mode
            /\ (PathHolds.kind = "file" <=> dest.kind = "file")
      BY <1>t, <2>4 DEF PathHolds
    <3>2. Outcome' = Outcome
      BY <2>1, <2>4 DEF Outcome
    <3>3. Promise!Look(w)
      BY <2>2, <2>4, <3>1, <3>2 DEF Promise!Look
    <3>4. QED
      BY <3>3 DEF Promise!Next
  <2>5. CASE /\ Progress(w) = "pending" /\ Progress(w)' = "installed"
             /\ Carries(w) \in Modes /\ dest' = Installed(w) /\ Carries(w)' = "none"
    <3>1. PathHolds' = [kind |-> "file", by |-> w, mode |-> Found[w]]
      BY <2>2, <2>5 DEF PathHolds, Installed
    <3>2. Found[w] # "none"
      BY <2>2, <2>5, WriteAssumption
    <3>3. Promise!Install(w)
      BY <2>2, <2>5, <3>1, <3>2 DEF Promise!Install, Promise!Ends
    <3>4. QED
      BY <3>3 DEF Promise!Next
  <2>6. CASE /\ dest' = dest /\ Progress(w) = "installed" /\ Progress(w)' = "ok"
             /\ Carries(w)' = Carries(w)
    <3>1. PathHolds' = PathHolds
      BY <2>6 DEF PathHolds
    <3>2. Found' = Found
      BY <2>1, <2>6 DEF Found
    <3>3. Promise!Report(w)
      BY <2>2, <2>6, <3>1, <3>2 DEF Promise!Report
    <3>4. QED
      BY <3>3 DEF Promise!Next
  <2>7. CASE /\ dest' = dest /\ Progress(w) = "pending" /\ Progress(w)' = "failed"
             /\ Carries(w)' = "none"
    <3>1. PathHolds' = PathHolds
      BY <2>7 DEF PathHolds
    <3>2. Promise!Refuse(w)
      BY <2>2, <2>7, <3>1 DEF Promise!Refuse, Promise!Ends
    <3>3. QED
      BY <3>2 DEF Promise!Next
  <2>8. QED
    BY <1>4, <2>3, <2>4, <2>5, <2>6, <2>7, StepProgress
<1>5. QED
  BY <1>1, <1>2, <1>3, <1>4 DEF Next

(* Where renaming replaces, a write is atomic: whatever fails or dies, the *)
(* path goes in one step from what it held to one complete file with the   *)
(* mode of a file the call found there, or its process's own default when  *)
(* it found none; a call reports success after its own step and failure    *)
(* only without one.                                                       *)
THEOREM WriteIsAtomic == ASSUME ~Windows PROVE Spec => ImplementsAtomicReplace
<1>1. ReplaceInv /\ [Next]_vars => ReplaceInv'
  BY ReplaceNext
<1>2. ReplaceInv /\ [Next]_vars => [Promise!Next]_(Promise!vars)
  BY RefinesNext
<1>3. QED
  BY ReplaceInit, RefinesInit, <1>1, <1>2, PTL
     DEF Spec, ImplementsAtomicReplace, Promise!Spec

-----------------------------------------------------------------------------
(* What holds as long as no call has succeeded.                            *)
Untouched(k) ==
  \/ dest.kind = k /\ dest.by = "outsider"
  \/ \E w \in Writers : result[w] = "ok"

(* Only a step that makes its call succeed changes the path.               *)
LEMMA ResultStep ==
  ASSUME CallTyped, NEW w \in Writers, CallSound(w), Step(w)
  PROVE  \/ dest' = dest /\ result'[w] = result[w]
         \/ dest' = dest /\ result[w] = "none"
         \/ result'[w] = "ok"
<1> USE DEF CallTyped, CallSound, Working, Proceed, Abandon
<1>1. CASE ChooseBase(w)
  BY <1>1 DEF ChooseBase
<1>2. CASE CreateStagingDir(w)
  BY <1>2 DEF CreateStagingDir, MakeDirectory
<1>3. CASE CreateStagingFile(w)
  BY <1>3 DEF CreateStagingFile, MakeFile
<1>4. CASE WriteFile(w)
  BY <1>4 DEF WriteFile
<1>5. CASE KeepMode(w)
  BY <1>5 DEF KeepMode
<1>6. CASE Rename(w)
  BY <1>6 DEF Rename, Installs
<1>7. CASE RemoveDestination(w)
  BY <1>7 DEF RemoveDestination
<1>8. CASE RenameAgain(w)
  BY <1>8 DEF RenameAgain, Installs
<1>9. CASE CheckParent(w)
  BY <1>9 DEF CheckParent
<1>10. CASE CreateLocalDir(w)
  BY <1>10 DEF CreateLocalDir, MakeDirectory
<1>11. CASE CreateLocalFile(w)
  BY <1>11 DEF CreateLocalFile, MakeFile
<1>12. CASE CopyAcross(w)
  BY <1>12 DEF CopyAcross
<1>13. CASE KeepLocalMode(w)
  BY <1>13 DEF KeepLocalMode
<1>14. CASE RenameLocal(w)
  BY <1>14 DEF RenameLocal, Installs
<1>15. CASE RemoveLocalFile(w)
  BY <1>15 DEF RemoveLocalFile, RemoveFile
<1>16. CASE RemoveLocalDir(w)
  BY <1>16 DEF RemoveLocalDir, RemoveDirectory
<1>17. CASE RemoveStagingFile(w)
  BY <1>17 DEF RemoveStagingFile, RemoveFile
<1>18. CASE RemoveStagingDir(w)
  BY <1>18 DEF RemoveStagingDir, RemoveDirectory
<1>19. QED
  BY <1>1, <1>2, <1>3, <1>4, <1>5, <1>6, <1>7, <1>8, <1>9, <1>10, <1>11,
     <1>12, <1>13, <1>14, <1>15, <1>16, <1>17, <1>18 DEF Step

(* Until a call succeeds the path keeps what it held.                      *)
LEMMA UntouchedNext ==
  ASSUME NEW k
  PROVE  ~Windows /\ ReplaceInv /\ Untouched(k) /\ [Next]_vars => Untouched(k)'
<1> SUFFICES ASSUME ~Windows, ReplaceInv, Untouched(k), [Next]_vars PROVE Untouched(k)'
  OBVIOUS
<1>t. CallTyped /\ TmpTyped /\ \A w \in Writers : CallSound(w)
  BY DEF ReplaceInv, CallsSound, TypeInv, TypeOK, CallTyped, TmpTyped
<1>1. CASE UNCHANGED vars \/ Reshare \/ \E w \in Writers : Crash(w)
  BY <1>1 DEF vars, Reshare, Crash, Untouched
<1>2. ASSUME NEW w \in Writers, Step(w) PROVE Untouched(k)'
  <2>1. \/ dest' = dest /\ result'[w] = result[w]
        \/ dest' = dest /\ result[w] = "none"
        \/ result'[w] = "ok"
    BY <1>t, <1>2, ResultStep
  <2>2. \A v \in Writers : v # w => result'[v] = result[v]
    BY <1>t, <1>2, OthersKept
  <2>3. QED
    BY <2>1, <2>2 DEF Untouched
<1>3. QED
  BY <1>1, <1>2 DEF Next

(* A failed write leaves the destination alone: as long as every call that *)
(* ended has failed, the path holds the file, the link or the nothing it   *)
(* held at the start.                                                      *)
THEOREM FailuresLeaveThePath == ASSUME ~Windows PROVE Spec => FailedWritesKeepDestination
<1>1. ASSUME NEW k \in {"absent", "symlink", "file"}
      PROVE  Spec => (dest.kind = k => [](AllFailed => dest.kind = k /\ dest.by = "outsider"))
  <2>1. Init /\ dest.kind = k => Untouched(k)
    BY InitDest DEF Untouched
  <2>2. ReplaceInv /\ Untouched(k) => (AllFailed => dest.kind = k /\ dest.by = "outsider")
    BY DEF Untouched, AllFailed
  <2>3. ReplaceInv /\ Untouched(k) /\ [Next]_vars => Untouched(k)'
    BY UntouchedNext
  <2>4. ReplaceInv /\ [Next]_vars => ReplaceInv'
    BY ReplaceNext
  <2>5. QED
    BY ReplaceInit, <2>1, <2>2, <2>3, <2>4, PTL DEF Spec
<1>2. QED
  BY <1>1 DEF FailedWritesKeepDestination

-----------------------------------------------------------------------------
(* What a call none of whose removals failed has in its staging places.    *)
WithLocal == {"localFile", "copy", "localMode", "localPromote", "localClean",
              "localSweep", "crashed"}

Tidy(w) ==
  ~left[w] =>
    /\ pc[w] \in {"base", "dir", "done"} => tmp[w]["stage"] = Absent
    /\ pc[w] = "sweep" => tmp[w]["stage"].file = "none"
    /\ pc[w] = "localSweep" => tmp[w]["local"].file = "none"
    /\ pc[w] \notin WithLocal => tmp[w]["local"] = Absent

TidyInv == TypeInv /\ \A w \in Writers : Tidy(w)

(* The steps from which the staged file, or its local copy, can still be   *)
(* renamed over the path.                                                  *)
Ready == {"mode", "promote", "remove", "again", "check", "localDir", "localFile", "copy"}

Complete(w) ==
  /\ pc[w] \in Working => result[w] = "none"
  /\ pc[w] \in Ready => tmp[w]["stage"].file = "whole"
  /\ pc[w] \in Copied => tmp[w]["local"].file = "whole"

WholeInv == TypeInv /\ WholeOrOriginal /\ \A w \in Writers : Complete(w)

-----------------------------------------------------------------------------
(* A step leaves the clean-up marks of every other call alone.             *)
LEMMA OthersLeft ==
  ASSUME CallTyped, NEW w \in Writers, Step(w), NEW v \in Writers, v # w
  PROVE  left'[v] = left[v]
<1> USE DEF CallTyped
<1>1. CASE ChooseBase(w)
  BY <1>1 DEF ChooseBase
<1>2. CASE CreateStagingDir(w)
  BY <1>2 DEF CreateStagingDir, MakeDirectory
<1>3. CASE CreateStagingFile(w)
  BY <1>3 DEF CreateStagingFile, MakeFile
<1>4. CASE WriteFile(w)
  BY <1>4 DEF WriteFile
<1>5. CASE KeepMode(w)
  BY <1>5 DEF KeepMode
<1>6. CASE Rename(w)
  BY <1>6 DEF Rename, Installs
<1>7. CASE RemoveDestination(w)
  BY <1>7 DEF RemoveDestination
<1>8. CASE RenameAgain(w)
  BY <1>8 DEF RenameAgain, Installs
<1>9. CASE CheckParent(w)
  BY <1>9 DEF CheckParent
<1>10. CASE CreateLocalDir(w)
  BY <1>10 DEF CreateLocalDir, MakeDirectory
<1>11. CASE CreateLocalFile(w)
  BY <1>11 DEF CreateLocalFile, MakeFile
<1>12. CASE CopyAcross(w)
  BY <1>12 DEF CopyAcross
<1>13. CASE KeepLocalMode(w)
  BY <1>13 DEF KeepLocalMode
<1>14. CASE RenameLocal(w)
  BY <1>14 DEF RenameLocal, Installs
<1>15. CASE RemoveLocalFile(w)
  BY <1>15 DEF RemoveLocalFile, RemoveFile
<1>16. CASE RemoveLocalDir(w)
  BY <1>16 DEF RemoveLocalDir, RemoveDirectory
<1>17. CASE RemoveStagingFile(w)
  BY <1>17 DEF RemoveStagingFile, RemoveFile
<1>18. CASE RemoveStagingDir(w)
  BY <1>18 DEF RemoveStagingDir, RemoveDirectory
<1>19. QED
  BY <1>1, <1>2, <1>3, <1>4, <1>5, <1>6, <1>7, <1>8, <1>9, <1>10, <1>11,
     <1>12, <1>13, <1>14, <1>15, <1>16, <1>17, <1>18 DEF Step

(* Every step of a call keeps track of what is still to be removed.        *)
LEMMA TidyStep ==
  ASSUME TypeInv, NEW w \in Writers, Tidy(w), Step(w)
  PROVE  Tidy(w)'
<1>t. CallTyped /\ TmpTyped
  BY DEF TypeInv, TypeOK, CallTyped, TmpTyped
<1> USE DEF CallTyped, TmpTyped, Tidy, WithLocal, Slots, Places, Absent,
            Goto, Proceed, Abandon, Puts
<1>1. CASE ChooseBase(w)
  BY <1>t, <1>1 DEF ChooseBase
<1>2. CASE CreateStagingDir(w)
  BY <1>t, <1>2 DEF CreateStagingDir, MakeDirectory
<1>3. CASE CreateStagingFile(w)
  <2> HIDE DEF Absent, Places
  <2>1. \/ pc'[w] = "encode" /\ left' = left /\ tmp'[w]["local"] = tmp[w]["local"]
        \/ /\ pc'[w] = "done" /\ left' = left /\ tmp'[w]["stage"] = Absent
           /\ tmp'[w]["local"] = tmp[w]["local"]
        \/ left'[w]
    BY <1>t, <1>3 DEF CreateStagingFile, MakeFile
  <2>2. pc[w] = "file"
    BY <1>3 DEF CreateStagingFile, MakeFile
  <2>3. QED
    BY <2>1, <2>2
<1>4. CASE WriteFile(w)
  BY <1>t, <1>4 DEF WriteFile
<1>5. CASE KeepMode(w)
  BY <1>t, <1>5 DEF KeepMode
<1>6. CASE Rename(w)
  BY <1>t, <1>6 DEF Rename, Installs
<1>7. CASE RemoveDestination(w)
  BY <1>t, <1>7 DEF RemoveDestination
<1>8. CASE RenameAgain(w)
  BY <1>t, <1>8 DEF RenameAgain, Installs
<1>9. CASE CheckParent(w)
  BY <1>t, <1>9 DEF CheckParent
<1>10. CASE CreateLocalDir(w)
  BY <1>t, <1>10 DEF CreateLocalDir, MakeDirectory
<1>11. CASE CreateLocalFile(w)
  <2> HIDE DEF Absent, Places
  <2>1. \/ pc'[w] = "copy"
        \/ pc'[w] = "clean" /\ tmp'[w]["local"] = Absent
        \/ left'[w]
    BY <1>t, <1>11 DEF CreateLocalFile, MakeFile
  <2>2. QED
    BY <2>1
<1>12. CASE CopyAcross(w)
  BY <1>t, <1>12 DEF CopyAcross
<1>13. CASE KeepLocalMode(w)
  BY <1>t, <1>13 DEF KeepLocalMode
<1>14. CASE RenameLocal(w)
  BY <1>t, <1>14 DEF RenameLocal, Installs
<1>15. CASE RemoveLocalFile(w)
  BY <1>t, <1>15 DEF RemoveLocalFile, RemoveFile
<1>16. CASE RemoveLocalDir(w)
  BY <1>t, <1>16 DEF RemoveLocalDir, RemoveDirectory
<1>17. CASE RemoveStagingFile(w)
  BY <1>t, <1>17 DEF RemoveStagingFile, RemoveFile
<1>18. CASE RemoveStagingDir(w)
  <2>1. \/ /\ tmp'[w]["stage"] = Absent /\ left' = left
           /\ tmp'[w]["local"] = tmp[w]["local"]
        \/ tmp[w]["stage"].file # "none" /\ left' = left
        \/ left'[w]
    <3> HIDE DEF Absent, Places
    <3>1. CASE tmp' = [tmp EXCEPT ![w]["stage"] = Absent] /\ left' = left
      BY <1>t, <3>1
    <3>2. CASE left' = [left EXCEPT ![w] = TRUE]
      BY <1>t, <3>2
    <3>3. QED
      BY <1>18, <3>1, <3>2 DEF RemoveStagingDir, RemoveDirectory
  <2>2. pc[w] = "sweep" /\ pc'[w] = "done"
    BY <1>t, <1>18 DEF RemoveStagingDir, RemoveDirectory
  <2>3. QED
    BY <2>1, <2>2
<1>19. QED
  BY <1>1, <1>2, <1>3, <1>4, <1>5, <1>6, <1>7, <1>8, <1>9, <1>10, <1>11,
     <1>12, <1>13, <1>14, <1>15, <1>16, <1>17, <1>18 DEF Step

LEMMA TidyInit == Init => TidyInv
<1>1. SUFFICES ASSUME Init PROVE TidyInv
  OBVIOUS
<1>2. ASSUME NEW w \in Writers PROVE Tidy(w)
  BY <1>1 DEF Init, Tidy, Slots
<1>3. QED
  BY <1>1, <1>2, TypeInit DEF TidyInv

LEMMA TidyNext == TidyInv /\ [Next]_vars => TidyInv'
<1> SUFFICES ASSUME TidyInv, [Next]_vars PROVE TidyInv'
  OBVIOUS
<1>1. TypeInv' /\ TypeInv /\ CallTyped /\ TmpTyped /\ \A w \in Writers : Tidy(w)
  BY TypeNext DEF TidyInv, TypeInv, TypeOK, CallTyped, TmpTyped
<1>2. CASE UNCHANGED vars \/ Reshare
  BY <1>1, <1>2 DEF vars, Reshare, TidyInv, Tidy
<1>3. ASSUME NEW w \in Writers, Crash(w) PROVE TidyInv'
  <2>1. ASSUME NEW v \in Writers PROVE Tidy(v)'
    BY <1>1, <1>3 DEF CallTyped, Crash, Goto, Tidy, WithLocal
  <2>2. QED
    BY <1>1, <2>1 DEF TidyInv
<1>4. ASSUME NEW w \in Writers, Step(w) PROVE TidyInv'
  <2>1. Tidy(w)'
    BY <1>1, <1>4, TidyStep
  <2>2. ASSUME NEW v \in Writers, v # w PROVE Tidy(v)'
    <3>1. pc'[v] = pc[v] /\ tmp'[v] = tmp[v] /\ left'[v] = left[v]
      BY <1>1, <1>4, <2>2, OthersKept, OthersLeft
    <3>2. QED
      BY <1>1, <3>1 DEF Tidy
  <2>3. QED
    BY <1>1, <2>1, <2>2 DEF TidyInv
<1>5. QED
  BY <1>2, <1>3, <1>4 DEF Next

(* Whichever step failed, a call that returned and whose own removals      *)
(* worked has left no staging file and no staging directory, beside the    *)
(* destination or elsewhere, for any number of writers, faults and crashes.*)
THEOREM NothingStays == Spec => []NothingLeftBehind
<1>1. TidyInv => NothingLeftBehind
  BY DEF TidyInv, Tidy, NothingLeftBehind, Slots, WithLocal
<1>2. TidyInv /\ [Next]_vars => TidyInv'
  BY TidyNext
<1>3. QED
  BY TidyInit, <1>1, <1>2, PTL DEF Spec

-----------------------------------------------------------------------------
(* A step keeps a staged file complete until the file is renamed.          *)
LEMMA CompleteStep ==
  ASSUME TypeInv, NEW w \in Writers, Complete(w), Step(w)
  PROVE  Complete(w)'
<1>t. CallTyped /\ TmpTyped
  BY DEF TypeInv, TypeOK, CallTyped, TmpTyped
<1> USE DEF CallTyped, TmpTyped, Complete, Working, Ready, Copied, Slots, Places,
            Goto, Proceed, Abandon, Puts, Absent
<1>1. CASE ChooseBase(w)
  BY <1>t, <1>1 DEF ChooseBase
<1>2. CASE CreateStagingDir(w)
  BY <1>t, <1>2 DEF CreateStagingDir, MakeDirectory
<1>3. CASE CreateStagingFile(w)
  BY <1>t, <1>3 DEF CreateStagingFile, MakeFile
<1>4. CASE WriteFile(w)
  BY <1>t, <1>4 DEF WriteFile
<1>5. CASE KeepMode(w)
  BY <1>t, <1>5 DEF KeepMode
<1>6. CASE Rename(w)
  BY <1>t, <1>6 DEF Rename, Installs
<1>7. CASE RemoveDestination(w)
  BY <1>t, <1>7 DEF RemoveDestination
<1>8. CASE RenameAgain(w)
  BY <1>t, <1>8 DEF RenameAgain, Installs
<1>9. CASE CheckParent(w)
  BY <1>t, <1>9 DEF CheckParent
<1>10. CASE CreateLocalDir(w)
  BY <1>t, <1>10 DEF CreateLocalDir, MakeDirectory
<1>11. CASE CreateLocalFile(w)
  BY <1>t, <1>11 DEF CreateLocalFile, MakeFile
<1>12. CASE CopyAcross(w)
  <2> DEFINE copied == [tmp[w]["local"] EXCEPT !.file = tmp[w]["stage"].file,
                                               !.mode = tmp[w]["stage"].mode]
  <2>1. copied.file = tmp[w]["stage"].file
    OBVIOUS
  <2>2. Puts(w, "local", copied) =>
          tmp'[w]["local"].file = tmp[w]["stage"].file
    BY <1>t, <2>1
  <2>3. pc'[w] = "localMode" => Puts(w, "local", copied)
    BY <1>t, <1>12 DEF CopyAcross
  <2>4. /\ pc[w] = "copy"
        /\ \/ pc'[w] = "localMode" /\ result'[w] = result[w]
           \/ pc'[w] = "localClean" /\ result'[w] = "failed"
    BY <1>t, <1>12 DEF CopyAcross
  <2>5. QED
    BY <2>2, <2>3, <2>4
<1>13. CASE KeepLocalMode(w)
  <2> DEFINE kept == [tmp[w]["local"] EXCEPT !.mode = dest.mode]
  <2>1. kept.file = tmp[w]["local"].file
    OBVIOUS
  <2>2. Puts(w, "local", kept) => tmp'[w]["local"].file = tmp[w]["local"].file
    BY <1>t, <2>1
  <2>3. Puts(w, "local", kept) \/ UNCHANGED tmp
    BY <1>t, <1>13 DEF KeepLocalMode
  <2>4. pc'[w] = "localPromote" /\ pc[w] = "localMode" /\ result'[w] = result[w]
    BY <1>t, <1>13 DEF KeepLocalMode
  <2>5. QED
    BY <2>2, <2>3, <2>4
<1>14. CASE RenameLocal(w)
  BY <1>t, <1>14 DEF RenameLocal, Installs
<1>15. CASE RemoveLocalFile(w)
  BY <1>t, <1>15 DEF RemoveLocalFile, RemoveFile
<1>16. CASE RemoveLocalDir(w)
  BY <1>t, <1>16 DEF RemoveLocalDir, RemoveDirectory
<1>17. CASE RemoveStagingFile(w)
  BY <1>t, <1>17 DEF RemoveStagingFile, RemoveFile
<1>18. CASE RemoveStagingDir(w)
  BY <1>t, <1>18 DEF RemoveStagingDir, RemoveDirectory
<1>19. QED
  BY <1>1, <1>2, <1>3, <1>4, <1>5, <1>6, <1>7, <1>8, <1>9, <1>10, <1>11,
     <1>12, <1>13, <1>14, <1>15, <1>16, <1>17, <1>18 DEF Step

(* A step of a call leaves the path as it is, empties it, or puts the      *)
(* call's complete file there and makes the call a success.                *)
LEMMA PathStep ==
  ASSUME TypeInv, NEW w \in Writers, Complete(w), Step(w)
  PROVE  /\ result[w] = "ok" => result'[w] = "ok"
         /\ \/ dest' = dest
            \/ dest' = Gone
            \/ dest'.whole /\ dest'.by = w /\ result'[w] = "ok"
<1>t. CallTyped
  BY DEF TypeInv, TypeOK, CallTyped
<1>i. ASSUME NEW s \in Slots, Installs(w, s), tmp[w][s].file = "whole"
      PROVE  dest'.whole /\ dest'.by = w /\ result'[w] = "ok"
  <2>1. dest'.whole = (tmp[w][s].file = "whole") /\ dest'.by = w
    BY <1>i, Zenon DEF Installs
  <2>2. result'[w] = "ok"
    BY <1>t, <1>i DEF CallTyped, Installs
  <2>3. QED
    BY <1>i, <2>1, <2>2
<1>s. "stage" \in Slots /\ "local" \in Slots
  BY DEF Slots
<1> USE DEF CallTyped, Complete, Working, Ready, Copied, Goto, Proceed, Abandon
<1>1. CASE ChooseBase(w)
  BY <1>t, <1>i, <1>s, <1>1 DEF ChooseBase
<1>2. CASE CreateStagingDir(w)
  BY <1>t, <1>i, <1>s, <1>2 DEF CreateStagingDir, MakeDirectory
<1>3. CASE CreateStagingFile(w)
  BY <1>t, <1>i, <1>s, <1>3 DEF CreateStagingFile, MakeFile
<1>4. CASE WriteFile(w)
  BY <1>t, <1>i, <1>s, <1>4 DEF WriteFile
<1>5. CASE KeepMode(w)
  BY <1>t, <1>i, <1>s, <1>5 DEF KeepMode
<1>6. CASE Rename(w)
  BY <1>t, <1>i, <1>s, <1>6 DEF Rename
<1>7. CASE RemoveDestination(w)
  BY <1>t, <1>i, <1>s, <1>7 DEF RemoveDestination
<1>8. CASE RenameAgain(w)
  BY <1>t, <1>i, <1>s, <1>8 DEF RenameAgain
<1>9. CASE CheckParent(w)
  BY <1>t, <1>i, <1>s, <1>9 DEF CheckParent
<1>10. CASE CreateLocalDir(w)
  BY <1>t, <1>i, <1>s, <1>10 DEF CreateLocalDir, MakeDirectory
<1>11. CASE CreateLocalFile(w)
  BY <1>t, <1>i, <1>s, <1>11 DEF CreateLocalFile, MakeFile
<1>12. CASE CopyAcross(w)
  BY <1>t, <1>i, <1>s, <1>12 DEF CopyAcross
<1>13. CASE KeepLocalMode(w)
  BY <1>t, <1>i, <1>s, <1>13 DEF KeepLocalMode
<1>14. CASE RenameLocal(w)
  BY <1>t, <1>i, <1>s, <1>14 DEF RenameLocal
<1>15. CASE RemoveLocalFile(w)
  BY <1>t, <1>i, <1>s, <1>15 DEF RemoveLocalFile, RemoveFile
<1>16. CASE RemoveLocalDir(w)
  BY <1>t, <1>i, <1>s, <1>16 DEF RemoveLocalDir, RemoveDirectory
<1>17. CASE RemoveStagingFile(w)
  BY <1>t, <1>i, <1>s, <1>17 DEF RemoveStagingFile, RemoveFile
<1>18. CASE RemoveStagingDir(w)
  BY <1>t, <1>i, <1>s, <1>18 DEF RemoveStagingDir, RemoveDirectory
<1>19. QED
  BY <1>1, <1>2, <1>3, <1>4, <1>5, <1>6, <1>7, <1>8, <1>9, <1>10, <1>11,
     <1>12, <1>13, <1>14, <1>15, <1>16, <1>17, <1>18 DEF Step

LEMMA WholeInit == Init => WholeInv
<1>1. SUFFICES ASSUME Init PROVE WholeInv
  OBVIOUS
<1>2. WholeOrOriginal
  BY <1>1, InitDest DEF WholeOrOriginal
<1>3. ASSUME NEW w \in Writers PROVE Complete(w)
  BY <1>1 DEF Init, Complete, Working, Ready, Copied
<1>4. QED
  BY <1>1, <1>2, <1>3, TypeInit DEF WholeInv

LEMMA WholeNext == WholeInv /\ [Next]_vars => WholeInv'
<1> SUFFICES ASSUME WholeInv, [Next]_vars PROVE WholeInv'
  OBVIOUS
<1>1. /\ TypeInv' /\ TypeInv /\ CallTyped /\ TmpTyped /\ dest \in Paths
      /\ WholeOrOriginal /\ \A w \in Writers : Complete(w)
  BY TypeNext DEF WholeInv, TypeInv, TypeOK, CallTyped, TmpTyped
<1>2. CASE UNCHANGED vars \/ Reshare
  BY <1>1, <1>2 DEF vars, Reshare, WholeInv, WholeOrOriginal, Complete
<1>3. ASSUME NEW w \in Writers, Crash(w) PROVE WholeInv'
  <2>1. ASSUME NEW v \in Writers PROVE Complete(v)'
    BY <1>1, <1>3 DEF CallTyped, Crash, Goto, Complete, Working, Ready, Copied
  <2>2. WholeOrOriginal'
    BY <1>1, <1>3 DEF Crash, WholeOrOriginal
  <2>3. QED
    BY <1>1, <2>1, <2>2 DEF WholeInv
<1>4. ASSUME NEW w \in Writers, Step(w) PROVE WholeInv'
  <2>1. Complete(w)'
    BY <1>1, <1>4, CompleteStep
  <2>2. ASSUME NEW v \in Writers, v # w
        PROVE  Complete(v)' /\ result'[v] = result[v]
    <3>1. pc'[v] = pc[v] /\ tmp'[v] = tmp[v] /\ result'[v] = result[v]
      BY <1>1, <1>4, <2>2, OthersKept
    <3>2. QED
      BY <1>1, <3>1 DEF Complete
  <2>3. /\ result[w] = "ok" => result'[w] = "ok"
        /\ \/ dest' = dest
           \/ dest' = Gone
           \/ dest'.whole /\ dest'.by = w /\ result'[w] = "ok"
    BY <1>1, <1>4, PathStep
  <2>4. WholeOrOriginal'
    <3>1. CASE dest' = dest
      BY <1>1, <2>2, <2>3, <3>1 DEF WholeOrOriginal, Paths
    <3>2. CASE dest' = Gone
      BY <3>2 DEF Gone, WholeOrOriginal
    <3>3. CASE dest'.whole /\ dest'.by = w /\ result'[w] = "ok"
      BY <3>3 DEF WholeOrOriginal
    <3>4. QED
      BY <2>3, <3>1, <3>2, <3>3
  <2>5. QED
    BY <1>1, <2>1, <2>2, <2>4 DEF WholeInv
<1>5. QED
  BY <1>2, <1>3, <1>4 DEF Next

(* On every platform, whatever fails or dies: the path holds what was      *)
(* there at first, nothing, or one complete file of a call that reports    *)
(* success or died after its rename; never a torn file and never the file  *)
(* of a call that reports an error.                                        *)
THEOREM NeverTorn == Spec => []WholeOrOriginal
<1>1. WholeInv => WholeOrOriginal
  BY DEF WholeInv
<1>2. WholeInv /\ [Next]_vars => WholeInv'
  BY WholeNext
<1>3. QED
  BY WholeInit, <1>1, <1>2, PTL DEF Spec
=============================================================================
