-------------------------- MODULE StagingBaseProofs --------------------------
(***************************************************************************)
(* For every file system and environment: the two ancestry walks agree, a  *)
(* base is only taken as io::write documents, and the choice is the one    *)
(* AtomicWrite makes by the verdicts alone.                                *)
(***************************************************************************)
EXTENDS StagingBase, TLAPS

(* A directory named from the root, all of whose ancestors exist.           *)
Rooted(p) == p.chain[1].kind = "dir" /\ At(p).kind = "dir"

(* All that the walks look at of a candidate is its chain of entries.       *)
Chained(p) == p.chain \in Seq(Entries) /\ p.chain # <<>> /\ Existing(p.chain)

LEMMA PlaceFacts ==
  ASSUME NEW p, Chained(p)
  PROVE  /\ p.chain \in Seq(Entries) /\ Len(p.chain) \in Nat \ {0}
         /\ At(p) = p.chain[Len(p.chain)]
         /\ \A i \in 1 .. Len(p.chain) : p.chain[i] \in Entries
         /\ DOMAIN p.chain = 1 .. Len(p.chain)
<1>1. p.chain \in Seq(Entries) /\ p.chain # <<>>
  BY DEF Chained
<1>2. Len(p.chain) \in Nat \ {0}
  BY <1>1
<1>3. QED
  BY <1>1, <1>2 DEF At, Last

(* On a rooted directory every entry is a directory or a link.              *)
LEMMA RootedKinds ==
  ASSUME NEW p, Chained(p), Rooted(p), NEW i \in 1 .. Len(p.chain)
  PROVE  p.chain[i].kind \in {"dir", "symlink"}
<1>1. Existing(p.chain) /\ Last(p.chain).kind = "dir"
  BY DEF Chained, Rooted, At
<1>2. \A j \in 2 .. Len(p.chain) - 1 : p.chain[j].kind \in {"dir", "symlink"}
  BY <1>1 DEF Existing
<1>3. Len(p.chain) \in Nat \ {0} /\ At(p) = p.chain[Len(p.chain)]
  BY PlaceFacts
<1>4. i = 1 \/ i = Len(p.chain) \/ i \in 2 .. Len(p.chain) - 1
  BY <1>3
<1>5. QED
  BY <1>2, <1>3, <1>4 DEF Rooted

(* The walk over the ancestors of a rooted directory is never cut short.    *)
LEMMA SharedMeansBadEntry ==
  ASSUME NEW p, Chained(p), Rooted(p)
  PROVE  ParentIsSharedNonsticky(p) <=>
           \E i \in 1 .. Len(p.chain) :
             p.chain[i].kind = "symlink" \/ ~Trusted(p.chain[i]) \/ Loose(p.chain[i])
<1> DEFINE Bad(i) == p.chain[i].kind = "symlink" \/ ~Trusted(p.chain[i]) \/ Loose(p.chain[i])
<1>1. Len(p.chain) \in Nat \ {0} /\ At(p) = p.chain[Len(p.chain)]
  BY PlaceFacts
<1>2. SharedItself(p) <=> Bad(Len(p.chain))
  BY <1>1 DEF SharedItself, Rooted
<1>3. \A i \in 1 .. Len(p.chain) - 1 :
        \A j \in i .. Len(p.chain) - 1 : p.chain[j].kind \notin {"none", "denied"}
  <2>1. SUFFICES ASSUME NEW i \in 1 .. Len(p.chain) - 1, NEW j \in i .. Len(p.chain) - 1
                 PROVE  p.chain[j].kind \notin {"none", "denied"}
    OBVIOUS
  <2>2. j \in 1 .. Len(p.chain)
    BY <1>1
  <2>3. QED
    BY <2>2, RootedKinds
<1>4. ParentIsSharedNonsticky(p) <=>
        Bad(Len(p.chain)) \/ \E i \in 1 .. Len(p.chain) - 1 : Bad(i)
  BY <1>2, <1>3 DEF ParentIsSharedNonsticky
<1> HIDE DEF Bad
<1>5. (\E i \in 1 .. Len(p.chain) : Bad(i)) <=>
        Bad(Len(p.chain)) \/ \E i \in 1 .. Len(p.chain) - 1 : Bad(i)
  BY <1>1
<1>6. QED
  BY <1>4, <1>5 DEF Bad

LEMMA WalksOpposite ==
  ASSUME NEW p, Chained(p), Rooted(p)
  PROVE  VerifyOwnedAncestry(p) <=> ~ParentIsSharedNonsticky(p)
<1>1. DOMAIN p.chain = 1 .. Len(p.chain)
  BY PlaceFacts
<1>2. \A i \in 1 .. Len(p.chain) : p.chain[i].kind = "dir" <=> p.chain[i].kind # "symlink"
  BY RootedKinds
<1>3. QED
  BY <1>1, <1>2, SharedMeansBadEntry DEF VerifyOwnedAncestry

LEMMA CandidatesAreChained ==
  ASSUME machine \in Machines
  PROVE  /\ \A p \in Candidates : Chained(p)
         /\ Chained(machine.dest) /\ Chained(machine.temp)
         /\ \A c \in Private : machine[c] # Unset => Chained(machine[c])
BY MachineAssumption DEF Candidates, Chained, Places, PrivatePlaces

(* The hand-kept walks (verify_owned_ancestry, parent_is_shared_nonsticky)  *)
(* agree on every directory of every file system.                           *)
THEOREM WalksAlwaysAgree == Spec => []WalksAgree
<1>1. Init => machine \in Machines
  BY DEF Init
<1>2. machine \in Machines /\ [Next]_vars => (machine \in Machines)'
  BY DEF Next, TryDestination, TryTemp, TryPrivate, ClosePrivateDir, vars
<1>3. machine \in Machines => WalksAgree
  BY CandidatesAreChained, WalksOpposite DEF WalksAgree, Rooted
<1>4. QED
  BY <1>1, <1>2, <1>3, PTL DEF Spec

-----------------------------------------------------------------------------
(* What each label knows of the candidates that were passed over or taken,  *)
(* and what has become of the names joined to them.                         *)

Untouched(c) == tree[c] = Before(c)

(* The first private candidate whose ancestry is accepted.                  *)
Accepted(c) ==
  /\ Shared /\ ~TempTaken
  /\ Verified(c) /\ \A d \in Earlier[c] : ~Verified(d)

(* Before the call a name was a directory or a link, or it was free and is  *)
(* now a directory of the user's; the last one is closed.                   *)
AddedNow(c, i) ==
  LET e == machine[c].added[i]
  IN  IF e.kind = "none" THEN New ELSE e

Made(c, done) ==
  /\ Blocked(c) = {}
  /\ \A i \in DOMAIN machine[c].added :
       tree[c][i] = IF done /\ i = Joined[c] THEN Closed(AddedNow(c, i)) ELSE AddedNow(c, i)

IInv ==
  /\ TypeOK
  /\ pc \notin {"close", "taken"} => base = "none"
  /\ pc \in {"temp"} \cup Private => Shared
  /\ pc \in Private =>
       ~TempTaken /\ (\A d \in Earlier[pc] : ~Verified(d)) /\ (\A c \in Private : Untouched(c))
  /\ pc \in {"dest", "temp"} => \A c \in Private : Untouched(c)
  /\ pc = "close" => base \in Private /\ Made(base, FALSE)
  /\ \A c \in Private : Untouched(c) \/ Accepted(c)
  /\ pc \in {"close", "taken"} /\ base \in Private => Accepted(base)
  /\ pc = "taken" =>
       /\ base # "none"
       /\ base = "dest" /\ machine.unix =>
            At(machine.dest).kind \in {"none", "dangling"} \/ ~ParentIsSharedNonsticky(machine.dest)
       /\ base = "temp" => Shared /\ TempTaken
       /\ base \in Private => Made(base, TRUE)

LEMMA InitEstablishes == Init => IInv
<1> SUFFICES ASSUME Init PROVE IInv
  OBVIOUS
<1>1. \A c \in Private : tree[c] = Before(c) /\ tree[c] \in [DOMAIN Before(c) -> Entries]
  <2>1. SUFFICES ASSUME NEW c \in Private PROVE Before(c) \in [DOMAIN Before(c) -> Entries]
    BY DEF Init
  <2>2. CASE machine[c] = Unset
    BY <2>2 DEF Before
  <2>3. CASE machine[c] # Unset
    <3>1. machine[c].added \in Seq(Entries)
      BY <2>3, MachineAssumption DEF Init, PrivatePlaces
    <3>2. QED
      BY <2>3, <3>1 DEF Before
  <2>4. QED
    BY <2>2, <2>3
<1>2. QED
  BY <1>1 DEF Init, IInv, TypeOK, Private, Untouched

(* What is said of the machine stays as it was.                             *)
LEMMA MachineStays ==
  ASSUME machine' = machine
  PROVE  /\ Shared' = Shared /\ TempTaken' = TempTaken
         /\ \A c \in Private : /\ Verified(c)' = Verified(c) /\ Before(c)' = Before(c)
                               /\ Blocked(c)' = Blocked(c) /\ Accepted(c)' = Accepted(c)
         /\ New' = New
BY DEF Shared, TempTaken, Verified, Before, Blocked, Accepted, New

LEMMA DestinationKeeps == IInv /\ TryDestination => IInv'
<1> SUFFICES ASSUME IInv, TryDestination PROVE IInv'
  OBVIOUS
<1>1. /\ machine' = machine /\ tree' = tree /\ pc = "dest" /\ base = "none"
      /\ \A c \in Private : Untouched(c)' = Untouched(c) /\ Untouched(c)
  BY DEF TryDestination, IInv, Untouched, Before
<1>t. DOMAIN tree' = Private /\ \A c \in Private : tree'[c] \in [DOMAIN Before(c)' -> Entries]
  BY <1>1, MachineStays DEF IInv, TypeOK
<1>2. CASE pc' = "failed" /\ base' = base
  BY <1>1, <1>t, <1>2 DEF IInv, TypeOK, Private
<1>3. CASE /\ pc' = "taken" /\ base' = "dest"
           /\ machine.unix => At(machine.dest).kind \in {"none", "dangling"}
                              \/ ~ParentIsSharedNonsticky(machine.dest)
  BY <1>1, <1>t, <1>3 DEF IInv, TypeOK, Private
<1>4. CASE pc' = "temp" /\ base' = base /\ Shared
  BY <1>1, <1>t, <1>4, MachineStays DEF IInv, TypeOK, Private
<1>5. QED
  BY <1>2, <1>3, <1>4 DEF TryDestination, Take, Look, Shared

LEMMA TempKeeps == IInv /\ TryTemp => IInv'
<1> SUFFICES ASSUME IInv, TryTemp PROVE IInv'
  OBVIOUS
<1>1. /\ machine' = machine /\ tree' = tree /\ pc = "temp" /\ base = "none" /\ Shared
      /\ \A c \in Private : Untouched(c)' = Untouched(c) /\ Untouched(c)
  BY DEF TryTemp, IInv, Untouched, Before
<1>t. DOMAIN tree' = Private /\ \A c \in Private : tree'[c] \in [DOMAIN Before(c)' -> Entries]
  BY <1>1, MachineStays DEF IInv, TypeOK
<1>3. CASE pc' = "taken" /\ base' = "temp" /\ TempTaken
  BY <1>1, <1>t, <1>3, MachineStays DEF IInv, TypeOK, Private
<1>4. CASE pc' = "runtime" /\ base' = base /\ ~TempTaken
  BY <1>1, <1>t, <1>4, MachineStays DEF IInv, TypeOK, Private, Earlier
<1>5. QED
  BY <1>3, <1>4 DEF TryTemp, Take, Look

(* create_dir_all leaves the names as Made says, or some of them free.      *)
LEMMA FilledIsTyped ==
  ASSUME IInv, NEW c \in Private, Verified(c), Untouched(c)
  PROVE  /\ Before(c) = machine[c].added
         /\ Filled(c) \in [DOMAIN Before(c) -> Entries]
         /\ Blocked(c) = {} => \A i \in DOMAIN machine[c].added : Filled(c)[i] = AddedNow(c, i)
<1>1. machine \in Machines /\ machine[c] # Unset /\ tree[c] \in [DOMAIN Before(c) -> Entries]
  BY DEF IInv, TypeOK, Verified
<1>2. Before(c) = machine[c].added /\ tree[c] = machine[c].added
  BY <1>1 DEF Before, Untouched
<1>3. New \in Entries
  BY <1>1, MachineAssumption DEF New, Entries
<1>4. Filled(c) \in [DOMAIN Before(c) -> Entries]
  BY <1>1, <1>2, <1>3 DEF Filled
<1>5. ASSUME Blocked(c) = {}, NEW i \in DOMAIN machine[c].added
      PROVE  Filled(c)[i] = AddedNow(c, i)
  BY <1>2, <1>5 DEF Filled, AddedNow
<1>6. QED
  BY <1>2, <1>4, <1>5

LEMMA PrivateKeeps ==
  ASSUME NEW c \in Private, NEW next, TryPrivate(c, next), IInv,
         <<c, next>> \in {<<"runtime", "cache">>, <<"cache", "home">>, <<"home", "failed">>}
  PROVE  IInv'
<1>1. /\ machine' = machine /\ pc = c /\ base = "none" /\ Shared /\ ~TempTaken
      /\ \A d \in Private : Untouched(d)
      /\ \A d \in Earlier[c] : ~Verified(d)
      /\ DOMAIN tree = Private
  BY DEF TryPrivate, IInv, TypeOK, Private
<1>2. CASE pc' = next /\ base' = base /\ tree' = tree /\ ~Verified(c)
  <2>1. \A d \in Private : Untouched(d)'
    BY <1>1, <1>2, MachineStays DEF Untouched
  <2>2. DOMAIN tree' = Private /\ \A d \in Private : tree'[d] \in [DOMAIN Before(d)' -> Entries]
    BY <1>1, <1>2, MachineStays DEF IInv, TypeOK
  <2>3. next \in Private => \A d \in Earlier[next] : ~Verified(d)
    BY <1>1, <1>2 DEF Earlier, Private
  <2>4. next \in Private => Earlier[next] \subseteq Private
    BY DEF Earlier, Private
  <2>5. QED
    BY <1>1, <1>2, <2>1, <2>2, <2>3, <2>4, MachineStays DEF IInv, TypeOK, Private
<1>3. CASE Verified(c) /\ CreateDirAll(c)
  <2>1. tree' = [tree EXCEPT ![c] = Filled(c)] /\ Accepted(c)
    BY <1>1, <1>3 DEF CreateDirAll, Accepted
  <2>2. /\ tree'[c] = Filled(c) /\ DOMAIN tree' = Private
        /\ \A d \in Private \ {c} : tree'[d] = tree[d]
    BY <1>1, <2>1
  <2>3. \A d \in Private : tree'[d] \in [DOMAIN Before(d)' -> Entries]
    BY <1>1, <1>3, <2>2, FilledIsTyped, MachineStays DEF IInv, TypeOK
  <2>4. \A d \in Private : Untouched(d)' \/ Accepted(d)'
    BY <1>1, <2>1, <2>2, MachineStays DEF Untouched
  <2>5. CASE Blocked(c) = {} /\ pc' = "close" /\ base' = c
    <3>1. Made(c, FALSE)'
      BY <1>1, <1>3, <2>2, <2>5, FilledIsTyped, MachineStays DEF Made, AddedNow
    <3>2. QED
      BY <1>1, <2>1, <2>2, <2>3, <2>4, <2>5, <3>1, MachineStays DEF IInv, TypeOK, Private
  <2>6. CASE pc' = "failed" /\ base' = base
    BY <1>1, <2>2, <2>3, <2>4, <2>6, MachineStays DEF IInv, TypeOK, Private
  <2>7. QED
    BY <1>3, <2>5, <2>6 DEF CreateDirAll, Look
<1>4. QED
  BY <1>2, <1>3 DEF TryPrivate, Look

LEMMA CloseKeeps == IInv /\ ClosePrivateDir => IInv'
<1> SUFFICES ASSUME IInv, ClosePrivateDir PROVE IInv'
  OBVIOUS
<1>1. /\ machine' = machine /\ pc = "close" /\ base \in Private /\ Accepted(base)
      /\ Made(base, FALSE) /\ DOMAIN tree = Private
      /\ \A c \in Private : tree[c] \in [DOMAIN Before(c) -> Entries]
  BY DEF ClosePrivateDir, IInv, TypeOK
<1>2. CASE pc' = "failed" /\ base' = "none" /\ tree' = tree
  <2>1. \A c \in Private : Untouched(c)' = Untouched(c)
    BY <1>1, <1>2, MachineStays DEF Untouched
  <2>2. QED
    BY <1>1, <1>2, <2>1, MachineStays DEF IInv, TypeOK, Private
<1>3. CASE /\ pc' = "taken" /\ base' = base
           /\ tree' = [tree EXCEPT ![base][Joined[base]] = Closed(@)]
  <2> DEFINE now == tree[base]
             shut == [now EXCEPT ![Joined[base]] = Closed(@)]
  <2>1. /\ machine[base] # Unset /\ machine[base].added \in Seq(Entries)
        /\ Len(machine[base].added) = Joined[base] /\ Before(base) = machine[base].added
    BY <1>1, MachineAssumption DEF IInv, TypeOK, Accepted, Verified, PrivatePlaces, Before
  <2>2. Joined[base] \in Nat \ {0} /\ DOMAIN machine[base].added = 1 .. Joined[base]
    BY <1>1, <2>1 DEF Joined, Private
  <2>3. now \in [1 .. Joined[base] -> Entries]
    BY <1>1, <2>1, <2>2
  <2>4. \A e \in Entries : Closed(e) \in Entries
    BY DEF Closed, Entries
  <2>5. /\ shut \in [1 .. Joined[base] -> Entries]
        /\ \A i \in 1 .. Joined[base] :
             shut[i] = IF i = Joined[base] THEN Closed(now[i]) ELSE now[i]
    <3> HIDE DEF now
    <3>1. QED
      BY <2>2, <2>3, <2>4
  <2>6. tree'[base] = shut /\ DOMAIN tree' = Private /\ \A c \in Private \ {base} : tree'[c] = tree[c]
    BY <1>1, <1>3
  <2> HIDE DEF shut, now
  <2>7. \A c \in Private : tree'[c] \in [DOMAIN Before(c)' -> Entries]
    BY <1>1, <2>1, <2>2, <2>5, <2>6, MachineStays
  <2>8. Made(base, TRUE)'
    <3>1. \A i \in 1 .. Joined[base] : now[i] = AddedNow(base, i)
      BY <1>1, <2>2 DEF Made, now
    <3>2. \A i \in 1 .. Joined[base] :
            tree'[base][i] = IF i = Joined[base] THEN Closed(AddedNow(base, i)) ELSE AddedNow(base, i)
      BY <2>5, <2>6, <3>1
    <3>3. Blocked(base)' = {} /\ AddedNow(base, 1)' = AddedNow(base, 1)
          /\ \A i \in 1 .. Joined[base] : AddedNow(base, i)' = AddedNow(base, i)
      BY <1>1, <1>3, MachineStays DEF Made, AddedNow
    <3>4. QED
      BY <1>1, <1>3, <2>2, <3>2, <3>3 DEF Made
  <2>9. \A c \in Private : Untouched(c)' \/ Accepted(c)'
    <3>1. ASSUME NEW c \in Private, c # base PROVE Untouched(c)' \/ Accepted(c)'
      BY <1>1, <2>6, <3>1, MachineStays DEF IInv, Untouched
    <3>2. QED
      BY <1>1, <3>1, MachineStays
  <2>10. QED
    BY <1>1, <1>3, <2>6, <2>7, <2>8, <2>9, MachineStays DEF IInv, TypeOK, Private
<1>4. QED
  BY <1>2, <1>3 DEF ClosePrivateDir, Take

LEMMA Inductive == Spec => []IInv
<1>1. IInv /\ [Next]_vars => IInv'
  <2>1. ASSUME IInv, Next PROVE IInv'
    BY <2>1, DestinationKeeps, TempKeeps, PrivateKeeps, CloseKeeps DEF Next, Private
  <2>2. ASSUME IInv, UNCHANGED vars PROVE IInv'
    <3>1. machine' = machine /\ pc' = pc /\ base' = base /\ tree' = tree
      BY <2>2 DEF vars
    <3>2. IInv' <=> IInv
      BY <3>1 DEF IInv, TypeOK, Untouched, Before, Made, AddedNow, New, Blocked, Accepted,
                  Shared, TempTaken, Verified
    <3>3. QED
      BY <2>2, <3>2
  <2>3. QED
    BY <2>1, <2>2
<1>2. QED
  BY InitEstablishes, <1>1, PTL DEF Spec

(* Every state of one choice is well typed, on every machine.               *)
THEOREM BaseTypeCorrect == Spec => []TypeOK
<1>1. IInv => TypeOK
  BY DEF IInv
<1>2. QED
  BY Inductive, <1>1, PTL

(* The file system is only touched below the first directory of the         *)
(* environment whose ancestry is accepted, also when create_dir_all stops   *)
(* half way or the mode cannot be set.                                      *)
THEOREM OnlyOwnedIsTouched == Spec => []TouchesOnlyOwned
<1>1. IInv => TouchesOnlyOwned
  BY DEF IInv, TouchesOnlyOwned, Untouched, Accepted
<1>2. QED
  BY Inductive, <1>1, PTL

LEMMA VerifiedIsTrusted ==
  ASSUME NEW p, Chained(p), VerifyOwnedAncestry(p)
  PROVE  Rooted(p) /\ ~DocumentedUntrusted(Range(p.chain))
<1>1. DOMAIN p.chain = 1 .. Len(p.chain) /\ Len(p.chain) \in Nat \ {0}
      /\ At(p) = p.chain[Len(p.chain)]
  BY PlaceFacts
<1>2. \A i \in 1 .. Len(p.chain) :
        p.chain[i].kind = "dir" /\ Trusted(p.chain[i]) /\ ~Loose(p.chain[i])
  BY <1>1 DEF VerifyOwnedAncestry
<1>3. 1 \in 1 .. Len(p.chain) /\ Len(p.chain) \in 1 .. Len(p.chain)
  BY <1>1
<1>4. Rooted(p)
  BY <1>1, <1>2, <1>3 DEF Rooted
<1>5. ~DocumentedUntrusted(Range(p.chain))
  BY <1>1, <1>2 DEF DocumentedUntrusted, Range, Trusted, Loose
<1>6. QED
  BY <1>4, <1>5

LEMMA SharedIsUntrusted ==
  ASSUME NEW p, Chained(p), ParentIsSharedNonsticky(p)
  PROVE  DocumentedUntrusted(Range(p.chain))
<1>1. DOMAIN p.chain = 1 .. Len(p.chain) /\ Len(p.chain) \in Nat \ {0}
      /\ At(p) = p.chain[Len(p.chain)]
      /\ \A i \in 1 .. Len(p.chain) : p.chain[i] \in Entries
  BY PlaceFacts
<1>2. PICK i \in 1 .. Len(p.chain) :
        p.chain[i].kind \in {"symlink", "dangling"} \/ ~Trusted(p.chain[i]) \/ Loose(p.chain[i])
  <2>1. CASE SharedItself(p)
    BY <1>1, <2>1 DEF SharedItself
  <2>2. CASE \E i \in 1 .. Len(p.chain) - 1 :
               p.chain[i].kind = "symlink" \/ ~Trusted(p.chain[i]) \/ Loose(p.chain[i])
    <3>1. 1 .. Len(p.chain) - 1 \subseteq 1 .. Len(p.chain)
      BY <1>1
    <3>2. QED
      BY <2>2, <3>1
  <2>3. QED
    BY <2>1, <2>2 DEF ParentIsSharedNonsticky
<1>3. p.chain[i] \in Entries
  BY <1>1
<1>4. QED
  BY <1>1, <1>2, <1>3 DEF DocumentedUntrusted, Range, Trusted, Loose, Entries

(* What the names joined to an accepted directory have become, judged by    *)
(* what they were.                                                          *)
LEMMA AddedJudged ==
  ASSUME machine \in Machines, NEW c \in Private, machine[c] # Unset, Made(c, TRUE),
         tree[c] \in [DOMAIN Before(c) -> Entries]
  PROVE  DocumentedUntrusted(Range(tree[c])) <=> ~AddedSafe(c)
<1> DEFINE added == machine[c].added
           Bad(e) == (e.open /\ ~e.sticky) \/ e.kind \in {"symlink", "dangling"} \/ e.owner = "other"
           Safe(i) == \/ added[i].kind = "none" /\ (i < Joined[c] => ~machine.lax)
                      \/ /\ added[i].kind = "dir" /\ Trusted(added[i])
                         /\ i < Joined[c] => ~Loose(added[i])
<1>1. /\ added \in Seq(Entries) /\ Len(added) = Joined[c] /\ Before(c) = added
      /\ machine.lax \in BOOLEAN
  BY MachineAssumption DEF PrivatePlaces, Before
<1>2. Joined[c] \in Nat \ {0} /\ DOMAIN added = 1 .. Joined[c]
  BY <1>1 DEF Joined, Private
<1>3. DOMAIN tree[c] = 1 .. Joined[c]
  BY <1>1, <1>2
<1>4. ASSUME NEW i \in 1 .. Joined[c] PROVE Bad(tree[c][i]) <=> ~Safe(i)
  <2>1. added[i] \in Entries /\ added[i].kind \notin {"dangling", "denied"}
    BY <1>1, <1>2 DEF Made, Blocked
  <2>2. tree[c][i] = IF i = Joined[c] THEN Closed(AddedNow(c, i)) ELSE AddedNow(c, i)
    BY <1>2 DEF Made
  <2>3. i < Joined[c] <=> i # Joined[c]
    BY <1>2
  <2>4. CASE added[i].kind = "none"
    <3>1. AddedNow(c, i) = New
      BY <2>4 DEF AddedNow
    <3>2. ~Bad(Closed(New)) /\ (Bad(New) <=> machine.lax)
      BY <1>1 DEF Closed, New
    <3>3. QED
      BY <2>2, <2>3, <2>4, <3>1, <3>2
  <2>5. CASE added[i].kind = "dir"
    <3>1. AddedNow(c, i) = added[i]
      BY <2>5 DEF AddedNow
    <3>2. /\ Bad(Closed(added[i])) <=> ~Trusted(added[i])
          /\ Bad(added[i]) <=> ~Trusted(added[i]) \/ Loose(added[i])
      BY <2>1, <2>5 DEF Closed, Trusted, Loose, Entries
    <3>3. QED
      BY <2>2, <2>3, <2>5, <3>1, <3>2
  <2>6. CASE added[i].kind = "symlink"
    <3>1. AddedNow(c, i) = added[i] /\ Closed(added[i]) = added[i]
      BY <2>6 DEF AddedNow, Closed
    <3>2. QED
      BY <2>2, <2>6, <3>1
  <2>7. QED
    BY <2>1, <2>4, <2>5, <2>6 DEF Entries
<1>5. DocumentedUntrusted(Range(tree[c])) <=> \E i \in 1 .. Joined[c] : Bad(tree[c][i])
  BY <1>3 DEF DocumentedUntrusted, Range
<1>6. AddedSafe(c) <=> \A i \in 1 .. Joined[c] : Safe(i)
  BY <1>2 DEF AddedSafe
<1> HIDE DEF Bad, Safe
<1>7. QED
  BY <1>4, <1>5, <1>6

(* On every file system a write stages only where io::write says it does:   *)
(* beside a destination nobody else can rename, in a sticky temp, or below  *)
(* a directory of the environment that is owned and link-free throughout;   *)
(* and the directories it adds there are as trusted exactly when their      *)
(* names were free, or owned and closed, before.                            *)
THEOREM BaseAsDocumented == Spec => []TakenAsDocumented
<1>1. IInv => TakenAsDocumented
  <2> SUFFICES ASSUME IInv, pc = "taken", machine.unix
               PROVE  /\ Rooted(machine[base]) => ~DocumentedUntrusted(Ancestry(base))
                      /\ base = "temp" => At(machine.temp).sticky
                      /\ base # "dest" => DocumentedUntrusted(Ancestry("dest"))
                                          /\ machine[base].chain[1].kind = "dir"
                      /\ base \in Private =>
                           (DocumentedUntrusted(Range(tree[base])) <=> ~AddedSafe(base))
    BY DEF TakenAsDocumented, Rooted
  <2> USE DEF Ancestry
  <2>1. machine \in Machines /\ base \in {"dest", "temp"} \cup Private
    BY DEF IInv, TypeOK
  <2>2. CASE base = "dest"
    <3>1. Chained(machine.dest)
      BY <2>1, CandidatesAreChained
    <3>2. Rooted(machine.dest) => ~ParentIsSharedNonsticky(machine.dest)
      BY <2>2 DEF IInv, Rooted
    <3>3. Rooted(machine.dest) => ~DocumentedUntrusted(Ancestry("dest"))
      BY <3>1, <3>2, WalksOpposite, VerifiedIsTrusted
    <3>4. QED
      BY <2>2, <3>3 DEF Private
  <2>3. CASE base = "temp"
    <3>1. Shared /\ TempTaken /\ Chained(machine.dest) /\ Chained(machine.temp)
      BY <2>1, <2>3, CandidatesAreChained DEF IInv
    <3>2. Rooted(machine.temp) /\ ~DocumentedUntrusted(Ancestry("temp"))
          /\ At(machine.temp).sticky /\ DocumentedUntrusted(Ancestry("dest"))
      BY <3>1, VerifiedIsTrusted, SharedIsUntrusted DEF TempTaken, Shared
    <3>3. QED
      BY <2>3, <3>2 DEF Rooted, Private
  <2>4. CASE base \in Private
    <3>1. Shared /\ Verified(base) /\ Chained(machine.dest) /\ Made(base, TRUE)
      BY <2>1, <2>4, CandidatesAreChained DEF IInv, Accepted
    <3>2. Chained(machine[base]) /\ VerifyOwnedAncestry(machine[base]) /\ machine[base] # Unset
      BY <2>1, <2>4, <3>1, CandidatesAreChained DEF Verified
    <3>3. Rooted(machine[base]) /\ ~DocumentedUntrusted(Ancestry(base))
          /\ DocumentedUntrusted(Ancestry("dest"))
      BY <3>1, <3>2, VerifiedIsTrusted, SharedIsUntrusted DEF Shared
    <3>4. DocumentedUntrusted(Range(tree[base])) <=> ~AddedSafe(base)
      BY <2>1, <2>4, <3>1, <3>2, AddedJudged DEF IInv, TypeOK
    <3>5. QED
      BY <2>4, <3>3, <3>4 DEF Private, Rooted
  <2>5. QED
    BY <2>1, <2>2, <2>3, <2>4
<1>2. QED
  BY Inductive, <1>1, PTL

-----------------------------------------------------------------------------
(* The candidates passed over, by their verdicts.                           *)

Denied == machine.unix /\ At(machine.dest).kind = "denied"

Usable(c) == Blocked(c) = {} /\ machine[c].closable

ChoiceInv ==
  /\ pc = "temp" => Shared
  /\ pc \in Private => Shared /\ ~TempTaken
  /\ pc \in {"cache", "home"} => ~Verified("runtime")
  /\ pc = "home" => ~Verified("cache")
  /\ pc = "close" => Shared /\ base \in Private /\ (Usable(base) <=> Writer!UsableBase)
                     /\ (Usable(base) <=> machine[base].closable)
  /\ pc = "taken" => IF Shared THEN Writer!UsableBase /\ base # "dest" ELSE base = "dest"
  /\ pc = "failed" => Denied \/ (Shared /\ ~Writer!UsableBase)

(* The first verdict that is not "unsafe", candidate by candidate.          *)
LEMMA UsableBaseUnfolds ==
  Writer!UsableBase <=>
    \/ TempTaken
    \/ ~TempTaken /\ Verified("runtime") /\ Usable("runtime")
    \/ /\ ~TempTaken /\ ~Verified("runtime")
       /\ Verified("cache") /\ Usable("cache")
    \/ /\ ~TempTaken /\ ~Verified("runtime") /\ ~Verified("cache")
       /\ Verified("home") /\ Usable("home")
<1> DEFINE usable(i) == Verdicts[i] = "usable"
           unsafe(i) == Verdicts[i] = "unsafe"
<1>1. DOMAIN Verdicts = 1 .. 4
  BY DEF Verdicts
<1>2. Writer!UsableBase <=> \E i \in 1 .. 4 : usable(i) /\ \A j \in 1 .. i - 1 : unsafe(j)
  BY <1>1 DEF Writer!UsableBase
<1>3. /\ usable(1) <=> TempTaken
      /\ unsafe(1) <=> ~TempTaken
  BY DEF Verdicts
<1>4. /\ usable(2) <=> Verified("runtime") /\ Usable("runtime")
      /\ unsafe(2) <=> ~Verified("runtime")
  BY DEF Verdicts, Usable
<1>5. /\ usable(3) <=> Verified("cache") /\ Usable("cache")
      /\ unsafe(3) <=> ~Verified("cache")
  BY DEF Verdicts, Usable
<1>6. usable(4) <=> Verified("home") /\ Usable("home")
  BY DEF Verdicts, Usable
<1> HIDE DEF usable, unsafe
<1>7. (\E i \in 1 .. 4 : usable(i) /\ \A j \in 1 .. i - 1 : unsafe(j)) <=>
        \/ usable(1)
        \/ unsafe(1) /\ usable(2)
        \/ unsafe(1) /\ unsafe(2) /\ usable(3)
        \/ unsafe(1) /\ unsafe(2) /\ unsafe(3) /\ usable(4)
  OBVIOUS
<1>8. QED
  BY <1>2, <1>3, <1>4, <1>5, <1>6, <1>7

LEMMA VerdictsStay ==
  ASSUME machine' = machine
  PROVE  /\ Shared' = Shared /\ Denied' = Denied /\ TempTaken' = TempTaken
         /\ \A c \in Private : Verified(c)' = Verified(c) /\ Usable(c)' = Usable(c)
         /\ Writer!UsableBase' = Writer!UsableBase
<1>1. Verdicts' = Verdicts
  BY DEF Verdicts, TempTaken, Verified, Blocked
<1>2. QED
  BY <1>1 DEF Shared, Denied, TempTaken, Verified, Blocked, Usable, Writer!UsableBase

(* On every machine the choice ends as AtomicWrite's ChooseBase takes it to *)
(* end, the two modules being kept apart.                                   *)
THEOREM ChoicesAgree == Spec => []ChosenAsInAtomicWrite
<1>1. Init => ChoiceInv
  BY DEF Init, ChoiceInv, Private
<1>2. ASSUME ChoiceInv, IInv, Next PROVE ChoiceInv'
  <2>1. machine' = machine
    BY <1>2 DEF Next, TryDestination, TryTemp, TryPrivate, ClosePrivateDir
  <2>2. CASE TryDestination
    <3>1. machine \in Machines
      BY <1>2 DEF IInv, TypeOK
    <3>2. CASE pc' = "taken" /\ base' = "dest" /\ ~Shared
      BY <2>1, <3>2, VerdictsStay DEF ChoiceInv, Private
    <3>3. CASE pc' = "failed" /\ Denied
      BY <2>1, <3>3, VerdictsStay DEF ChoiceInv, Private
    <3>4. CASE pc' = "temp" /\ Shared
      BY <2>1, <3>4, VerdictsStay DEF ChoiceInv, Private
    <3>5. QED
      BY <2>2, <3>2, <3>3, <3>4 DEF TryDestination, Take, Look, Shared, Denied
  <2>3. CASE TryTemp
    <3>1. Shared
      BY <1>2, <2>3 DEF ChoiceInv, TryTemp
    <3>2. CASE pc' = "taken" /\ base' = "temp" /\ TempTaken
      BY <2>1, <3>1, <3>2, VerdictsStay, UsableBaseUnfolds DEF ChoiceInv, Private
    <3>3. CASE pc' = "runtime" /\ ~TempTaken
      BY <2>1, <3>1, <3>3, VerdictsStay DEF ChoiceInv, Private
    <3>4. QED
      BY <2>3, <3>2, <3>3 DEF TryTemp, Take, Look
  <2>4. ASSUME NEW c \in Private, NEW next, TryPrivate(c, next),
               <<c, next>> \in {<<"runtime", "cache">>, <<"cache", "home">>, <<"home", "failed">>}
        PROVE  ChoiceInv'
    <3>1. /\ pc = c /\ Shared /\ ~TempTaken
          /\ c # "runtime" => ~Verified("runtime")
          /\ c = "home" => ~Verified("cache")
      BY <1>2, <2>4 DEF ChoiceInv, TryPrivate, Private
    <3>2. CASE pc' = next /\ ~Verified(c)
      BY <2>1, <2>4, <3>1, <3>2, VerdictsStay, UsableBaseUnfolds DEF ChoiceInv, Private
    <3>3. CASE pc' = "close" /\ base' = c /\ Verified(c) /\ Blocked(c) = {}
      <4>1. Usable(c) <=> Writer!UsableBase
        BY <2>4, <3>1, <3>3, UsableBaseUnfolds DEF Private
      <4>2. (Usable(c) <=> machine[c].closable) /\ machine[c]' = machine[c]
        BY <2>1, <3>3 DEF Usable
      <4>3. QED
        BY <2>1, <2>4, <3>1, <3>3, <4>1, <4>2, VerdictsStay DEF ChoiceInv, Private
    <3>4. CASE pc' = "failed" /\ Verified(c) /\ Blocked(c) # {}
      <4>1. ~Writer!UsableBase
        BY <2>4, <3>1, <3>4, UsableBaseUnfolds DEF Private, Usable
      <4>2. QED
        BY <2>1, <2>4, <3>1, <3>4, <4>1, VerdictsStay DEF ChoiceInv, Private
    <3>5. QED
      BY <2>4, <3>2, <3>3, <3>4 DEF TryPrivate, CreateDirAll, Look
  <2>5. CASE ClosePrivateDir
    <3>1. /\ Shared /\ base \in Private
          /\ machine[base].closable <=> Writer!UsableBase
      BY <1>2, <2>5 DEF ChoiceInv, ClosePrivateDir
    <3>2. CASE pc' = "taken" /\ base' = base /\ machine[base].closable
      BY <2>1, <3>1, <3>2, VerdictsStay DEF ChoiceInv, Private
    <3>3. CASE pc' = "failed" /\ ~machine[base].closable
      BY <2>1, <3>1, <3>3, VerdictsStay DEF ChoiceInv, Private
    <3>4. QED
      BY <2>5, <3>2, <3>3 DEF ClosePrivateDir, Take
  <2>6. QED
    BY <1>2, <2>2, <2>3, <2>4, <2>5 DEF Next, Private
<1>3. ASSUME ChoiceInv, UNCHANGED vars PROVE ChoiceInv'
  BY <1>3, VerdictsStay DEF ChoiceInv, vars, Private
<1>4. ChoiceInv => ChosenAsInAtomicWrite
  BY DEF ChoiceInv, ChosenAsInAtomicWrite, Shared, Denied
<1>5. QED
  BY Inductive, <1>1, <1>2, <1>3, <1>4, PTL DEF Spec

=============================================================================
