----------------------------- MODULE StagingBase -----------------------------
(***************************************************************************)
(* secure_staging_base of hdf5_write.rs: where a write may put its staging *)
(* directory.  A place is the chain of entries its path names, from the    *)
(* file system's root (or, of a relative path, the nothing its ancestors   *)
(* end in) to the directory itself.                                        *)
(***************************************************************************)
EXTENDS Sequences, Naturals, SequencesExt

CONSTANTS
  Machines,  (* file systems and environments the call may meet             *)
  Unset      (* an environment variable that is not set                     *)

Entries ==
  [kind : {"dir", "symlink", "dangling", "none", "denied"},
   owner : {"root", "self", "other"}, open : BOOLEAN, sticky : BOOLEAN]

(* What exists lies in directories and links to them; only the place itself *)
(* may be a link to nothing or beyond the caller's reach.                   *)
Existing(chain) ==
  Last(chain).kind # "none" =>
    /\ chain[1].kind \in {"dir", "none"}
    /\ \A i \in 2 .. Len(chain) - 1 : chain[i].kind \in {"dir", "symlink"}

(* `open' is group- or world-writable, `writable' what is_writable finds.   *)
Places ==
  {p \in [chain : Seq(Entries), writable : BOOLEAN] : p.chain # <<>> /\ Existing(p.chain)}

(* The directories of the environment, and how many names are joined to     *)
(* each: "nir-rs-staging", "nir-rs"/"staging", ".cache"/"nir-rs"/"staging".  *)
Private == {"runtime", "cache", "home"}
Joined == [runtime |-> 1, cache |-> 2, home |-> 3]
Earlier == [runtime |-> {}, cache |-> {"runtime"}, home |-> {"runtime", "cache"}]

(* `added' is what the joined names find: directories and links to them,    *)
(* then names that are free (`none'), taken by something else (`dangling')  *)
(* or out of reach (`denied').  `closable': the mode 0700 can be set.       *)
PrivatePlaces(c) ==
  {p \in [chain : Seq(Entries), added : Seq(Entries), closable : BOOLEAN] :
     /\ p.chain # <<>> /\ Existing(p.chain)
     /\ Len(p.added) = Joined[c]
     /\ \A i \in 2 .. Len(p.added) :
          p.added[i].kind \in {"dir", "symlink"} => p.added[i - 1].kind \in {"dir", "symlink"}}

(* `lax': the umask leaves new directories group- or world-writable.        *)
ASSUME MachineAssumption ==
  \A m \in Machines :
    /\ DOMAIN m = {"unix", "lax", "dest", "temp"} \cup Private
    /\ m.unix \in BOOLEAN /\ m.lax \in BOOLEAN /\ m.dest \in Places /\ m.temp \in Places
    /\ \A c \in Private : m[c] \in PrivatePlaces(c) \cup {Unset}

VARIABLES
  machine,  \* the file system and the environment at the start of the call
  pc,       \* the next candidate, the next step, or the end
  base,     \* the base that was taken, or is being closed
  tree      \* what the joined names of each private candidate find now

vars == <<machine, pc, base, tree>>

-----------------------------------------------------------------------------
(* The two walks over a path. *)

Trusted(e) == e.owner \in {"root", "self"}

Loose(e) == e.open /\ ~e.sticky

At(place) == Last(place.chain)

(* Mutant: a sticky directory is treated as any other open one.             *)
StickyForgotten(place) ==
  \A i \in DOMAIN place.chain :
    LET e == place.chain[i] IN e.kind = "dir" /\ Trusted(e) /\ ~e.open

(* verify_owned_ancestry: an entry that cannot be looked at refuses.        *)
VerifyOwnedAncestry(place) ==
  \A i \in DOMAIN place.chain :
    LET e == place.chain[i] IN e.kind = "dir" /\ Trusted(e) /\ ~Loose(e)

SharedItself(place) ==
  At(place).kind \in {"symlink", "dangling"} \/ ~Trusted(At(place)) \/ Loose(At(place))

(* parent_is_shared_nonsticky: the directory, then its ancestors up to the  *)
(* first that cannot be looked at.                                          *)
ParentIsSharedNonsticky(place) ==
  \/ SharedItself(place)
  \/ \E i \in 1 .. Len(place.chain) - 1 :
       LET e == place.chain[i]
       IN  /\ \A j \in i .. Len(place.chain) - 1 : place.chain[j].kind \notin {"none", "denied"}
           /\ e.kind = "symlink" \/ ~Trusted(e) \/ Loose(e)

-----------------------------------------------------------------------------
(* Candidates. *)

(* A temp that is a link is followed by the first three tests and refused   *)
(* by the fourth.                                                           *)
TempTaken ==
  /\ At(machine.temp).kind = "dir" /\ At(machine.temp).sticky
  /\ Trusted(At(machine.temp))
  /\ machine.temp.writable
  /\ VerifyOwnedAncestry(machine.temp)

Verified(c) == machine[c] # Unset /\ VerifyOwnedAncestry(machine[c])

Before(c) == IF machine[c] = Unset THEN <<>> ELSE machine[c].added

Init ==
  /\ machine \in Machines
  /\ pc = "dest"
  /\ base = "none"
  /\ tree = [c \in Private |-> Before(c)]

Take(c) == pc' = "taken" /\ base' = c

Look(c) == pc' = c /\ UNCHANGED base

(* The destination's own directory, unless it is shared.  One that does not *)
(* exist is left for the creation of the staging directory to report.       *)
TryDestination ==
  /\ pc = "dest"
  /\ LET kind == At(machine.dest).kind
     IN  \/ (~machine.unix \/ kind \in {"none", "dangling"}) /\ Take("dest")
         \/ machine.unix /\ kind = "denied" /\ Look("failed")
         \/ /\ machine.unix /\ kind \in {"dir", "symlink"}
            /\ IF ParentIsSharedNonsticky(machine.dest) THEN Look("temp") ELSE Take("dest")
  /\ UNCHANGED <<machine, tree>>

TryTemp ==
  /\ pc = "temp"
  /\ IF TempTaken THEN Take("temp") ELSE Look("runtime")
  /\ UNCHANGED <<machine, tree>>

(* Names that create_dir_all can neither find as directories nor make.      *)
Blocked(c) ==
  {i \in DOMAIN machine[c].added : machine[c].added[i].kind \in {"dangling", "denied"}}

New == [kind |-> "dir", owner |-> "self", open |-> machine.lax, sticky |-> FALSE]

(* The free names before the first of those become directories.             *)
Filled(c) ==
  [i \in DOMAIN tree[c] |->
     IF tree[c][i].kind = "none" /\ (\A j \in Blocked(c) : i < j) THEN New ELSE tree[c][i]]

(* Mutant: a base that cannot be made is passed over.                       *)
TryPrivateOrNext(c, next) ==
  /\ pc = c
  /\ \/ ~Verified(c) /\ Look(next) /\ UNCHANGED tree
     \/ /\ Verified(c) /\ tree' = [tree EXCEPT ![c] = Filled(c)]
        /\ IF Blocked(c) = {} THEN pc' = "close" /\ base' = c ELSE Look(next)
  /\ UNCHANGED machine

(* Mutant: the directories are made before the ancestry is looked at.       *)
TryPrivateMakingFirst(c, next) ==
  /\ pc = c
  /\ \/ machine[c] = Unset /\ Look(next) /\ UNCHANGED tree
     \/ /\ machine[c] # Unset /\ tree' = [tree EXCEPT ![c] = Filled(c)]
        /\ IF Verified(c) /\ Blocked(c) = {} THEN pc' = "close" /\ base' = c ELSE Look(next)
  /\ UNCHANGED machine

(* ensure_private_dir, first half: create_dir_all; what it made before an   *)
(* error stays.                                                             *)
CreateDirAll(c) ==
  /\ tree' = [tree EXCEPT ![c] = Filled(c)]
  /\ IF Blocked(c) = {} THEN pc' = "close" /\ base' = c ELSE Look("failed")

(* A private candidate whose ancestry is accepted is the last one tried.    *)
TryPrivate(c, next) ==
  /\ pc = c
  /\ \/ ~Verified(c) /\ Look(next) /\ UNCHANGED tree
     \/ Verified(c) /\ CreateDirAll(c)
  /\ UNCHANGED machine

(* Mode 0700, of the directory itself or of the one a link leads to.        *)
Closed(e) == IF e.kind = "dir" THEN [e EXCEPT !.open = FALSE, !.sticky = FALSE] ELSE e

(* ensure_private_dir, second half: the last directory is closed, and no    *)
(* other.                                                                   *)
ClosePrivateDir ==
  /\ pc = "close"
  /\ IF machine[base].closable
     THEN /\ Take(base)
          /\ tree' = [tree EXCEPT ![base][Joined[base]] = Closed(@)]
     ELSE pc' = "failed" /\ base' = "none" /\ UNCHANGED tree
  /\ UNCHANGED machine

Next ==
  \/ TryDestination \/ TryTemp
  \/ TryPrivate("runtime", "cache") \/ TryPrivate("cache", "home")
  \/ TryPrivate("home", "failed") \/ ClosePrivateDir

Spec == Init /\ [][Next]_vars

-----------------------------------------------------------------------------
(* Properties. *)

(* The states of one choice.                                                *)
TypeOK ==
  /\ machine \in Machines
  /\ pc \in {"dest", "temp", "close", "taken", "failed"} \cup Private
  /\ base \in {"none", "dest", "temp"} \cup Private
  /\ DOMAIN tree = Private
  /\ \A c \in Private : tree[c] \in [DOMAIN Before(c) -> Entries]

Candidates ==
  {machine.dest, machine.temp} \cup ({machine[c] : c \in Private} \ {Unset})

(* verify_owned_ancestry and parent_is_shared_nonsticky are kept by hand    *)
(* and differ in where they stop: of a directory that exists and is named   *)
(* from the root, one says safe exactly when the other says not shared.     *)
WalksAgree ==
  \A p \in Candidates :
    p.chain[1].kind = "dir" /\ At(p).kind = "dir"
      => (VerifyOwnedAncestry(p) <=> ~ParentIsSharedNonsticky(p))

(* `Staging base' of io::write, in the words of its documentation, of the  *)
(* entries of a path.                                                       *)
DocumentedUntrusted(entries) ==
  \E e \in entries :
    \/ e.open /\ ~e.sticky
    \/ e.kind \in {"symlink", "dangling"}
    \/ e.owner = "other"

Ancestry(c) == Range(machine[c].chain)

Shared ==
  /\ machine.unix /\ At(machine.dest).kind \in {"dir", "symlink"}
  /\ ParentIsSharedNonsticky(machine.dest)

(* Before the call: every joined name is free or a directory only the user  *)
(* and root can rename entries of.  The last one may be open, it is closed. *)
AddedSafe(c) ==
  \A i \in DOMAIN machine[c].added :
    LET e == machine[c].added[i]
    IN  \/ e.kind = "none" /\ (i < Joined[c] => ~machine.lax)
        \/ e.kind = "dir" /\ Trusted(e) /\ (i < Joined[c] => ~Loose(e))

(* Where a write stages, against what io::write says of it.  A destination  *)
(* named from the root, temp and the directory of the environment are taken *)
(* only if the documentation trusts all their ancestors, and temp only if   *)
(* it is sticky.  The directories added to the environment's are as trusted *)
(* exactly when the names were free, or owned and closed, before the call.  *)
TakenAsDocumented ==
  pc = "taken" /\ machine.unix =>
    /\ At(machine[base]).kind = "dir" /\ machine[base].chain[1].kind = "dir" =>
         ~DocumentedUntrusted(Ancestry(base))
    /\ base = "temp" => At(machine.temp).sticky
    /\ base # "dest" =>
         DocumentedUntrusted(Ancestry("dest")) /\ machine[base].chain[1].kind = "dir"
    /\ base \in Private => (DocumentedUntrusted(Range(tree[base])) <=> ~AddedSafe(base))

(* "a private per-user runtime/cache directory (if all ancestors are owned  *)
(* by the current user or root, non-symlink, and free of non-sticky         *)
(* group/world-writable modes)" (src/src/io/mod.rs:431-433), of the whole   *)
(* path of the directory that is taken.                                     *)
WholeBaseTrusted ==
  pc = "taken" /\ base \in Private =>
    ~DocumentedUntrusted(Ancestry(base) \cup Range(tree[base]))

(* Nothing is made and no mode is changed but below the first directory of  *)
(* the environment that is owned throughout, and only for a shared          *)
(* destination that temp does not serve: also when the call fails half way  *)
(* and leaves what it made.                                                 *)
TouchesOnlyOwned ==
  \A c \in Private : tree[c] # Before(c) =>
    /\ Shared /\ ~TempTaken
    /\ Verified(c) /\ \A d \in Earlier[c] : ~Verified(d)

(* The verdicts on the bases that AtomicWrite chooses by.                   *)
Verdicts ==
  [i \in 1 .. 4 |->
     IF i = 1 THEN IF TempTaken THEN "usable" ELSE "unsafe"
     ELSE LET c == <<"temp", "runtime", "cache", "home">>[i]
          IN  IF ~Verified(c) THEN "unsafe"
              ELSE IF Blocked(c) = {} /\ machine[c].closable THEN "usable" ELSE "unusable"]

Writer ==
  INSTANCE AtomicWrite WITH
    bases <- Verdicts, Writers <- {}, Modes <- {}, Default <- Unset, Windows <- FALSE,
    BaseLists <- {}, MaxFaults <- 0, MaxCrashes <- 0, MaxReshares <- 0,
    dest <- Unset, tmp <- Unset, where <- Unset, shared <- Unset, remote <- Unset,
    pc <- Unset, result <- Unset, left <- Unset, faults <- 0, crashes <- 0, reshares <- 0

(* The choice ends as ChooseBase of AtomicWrite says it does: elsewhere if  *)
(* the first base whose ancestry passes is usable, and not at all if that   *)
(* one is unusable, although a later one might serve.                       *)
ChosenAsInAtomicWrite ==
  LET denied == machine.unix /\ At(machine.dest).kind = "denied"
  IN  /\ pc = "taken" =>
           IF Shared THEN Writer!UsableBase /\ base # "dest" ELSE base = "dest"
      /\ pc = "failed" => denied \/ (Shared /\ ~Writer!UsableBase)

=============================================================================
