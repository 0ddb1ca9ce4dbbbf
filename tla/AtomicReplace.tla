--------------------------- MODULE AtomicReplace ----------------------------
(***************************************************************************)
(* What `write` promises about the destination path                        *)
(* (src/src/io/mod.rs, documentation of `write`, lines 418-427 and         *)
(* 442-445): the path changes in one step from what it held to one         *)
(* complete file, with the mode bits the call found there or, when it      *)
(* found no file, those its own process gives a new one; a failed write    *)
(* leaves the path alone, and a write that reports success has had its     *)
(* step.  Several writes of the same path may be in progress.              *)
(***************************************************************************)
CONSTANTS
  Writers,     \* the calls of `write` on one path
  Modes,       \* permission bits
  Default      \* for each call, the mode of a file nobody set permissions on

(* A path that holds nothing, a symlink, or a complete regular file.       *)
Holdings ==
  [kind : {"absent", "symlink"}, by : {"outsider"}, mode : {"none"}]
    \cup [kind : {"file"}, by : Writers \cup {"outsider"}, mode : Modes]

VARIABLES
  path,        \* what the destination path holds
  found,       \* the mode each call will install its file with
  outcome      \* how far each call is, and what it reports if it lives

vars == <<path, found, outcome>>

Init ==
  /\ path \in {h \in Holdings : h.by = "outsider"}
  /\ found = [w \in Writers |-> "none"]
  /\ outcome = [w \in Writers |-> "pending"]

(* The call looks what its file will replace, perhaps more than once.      *)
Look(w) ==
  /\ outcome[w] = "pending"
  /\ found' = [found EXCEPT ![w] = IF path.kind = "file" THEN path.mode ELSE Default[w]]
  /\ UNCHANGED <<path, outcome>>

Ends(w, o) ==
  /\ outcome' = [outcome EXCEPT ![w] = o]
  /\ found' = [found EXCEPT ![w] = "none"]

(* The call's file takes the path, with the mode the call found.           *)
Install(w) ==
  /\ outcome[w] = "pending" /\ found[w] # "none"
  /\ Ends(w, "installed")
  /\ path' = [kind |-> "file", by |-> w, mode |-> found[w]]

Report(w) ==
  /\ outcome[w] = "installed"
  /\ outcome' = [outcome EXCEPT ![w] = "ok"]
  /\ UNCHANGED <<path, found>>

(* The call gives up: it will not touch the path any more.                 *)
Refuse(w) ==
  /\ outcome[w] = "pending"
  /\ Ends(w, "failed")
  /\ UNCHANGED path

(* A process that dies before or after its step.                           *)
Crash(w) ==
  /\ outcome[w] \in {"pending", "installed"}
  /\ Ends(w, "crashed")
  /\ UNCHANGED path

Next ==
  \E w \in Writers : Look(w) \/ Install(w) \/ Report(w) \/ Refuse(w) \/ Crash(w)

Spec == Init /\ [][Next]_vars
=============================================================================
