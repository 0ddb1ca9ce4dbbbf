---------------------------- MODULE MCStagingBase ----------------------------
(***************************************************************************)
(* Every destination of up to two directories below the root or below the  *)
(* working directory with fixed bases; one shared destination with every    *)
(* combination of bases of each kind, and with everything the names joined  *)
(* to an accepted base can find.                                            *)
(***************************************************************************)
EXTENDS StagingBase

Entry(kind, owner, open, sticky) ==
  [kind |-> kind, owner |-> owner, open |-> open, sticky |-> sticky]

Rooted   == Entry("dir", "root", FALSE, FALSE)
Relative == Entry("none", "root", FALSE, FALSE)
Own      == Entry("dir", "self", FALSE, FALSE)
Foreign  == Entry("dir", "other", FALSE, FALSE)
Drop     == Entry("dir", "root", TRUE, FALSE)
Sticky   == Entry("dir", "root", TRUE, TRUE)
Link     == Entry("symlink", "self", FALSE, FALSE)

Directories ==
  [kind : {"dir"}, owner : {"root", "self", "other"}, open : BOOLEAN, sticky : BOOLEAN]
    \cup {Link}

Ends == Directories \cup {Entry(k, "root", FALSE, FALSE) : k \in {"none", "denied", "dangling"}}

Place(chain, writable) == [chain |-> chain, writable |-> writable]

DestChains ==
  {<<r, e>> : r \in {Rooted, Relative}, e \in Ends}
    \cup {<<r, d, e>> : r \in {Rooted, Relative}, d \in Directories, e \in Ends}

Temps ==
  {Place(c, w) : c \in {<<Rooted, Sticky>>, <<Rooted, Drop>>, <<Rooted, Link>>,
                        <<Rooted, Foreign, Sticky>>, <<Relative, Sticky>>},
                 w \in BOOLEAN}
    \cup {Place(<<Rooted, Entry("dir", "other", TRUE, TRUE)>>, TRUE)}

NoTemp == Place(<<Rooted, Sticky>>, FALSE)
Shares == Place(<<Rooted, Drop>>, TRUE)

(* What one joined name finds.                                              *)
Free == Entry("none", "root", FALSE, FALSE)
OwnOpen == Entry("dir", "self", TRUE, FALSE)
Found == {Free, Own, OwnOpen, Foreign, Link, Entry("dangling", "self", FALSE, FALSE),
          Entry("denied", "root", FALSE, FALSE)}

Home(chain, added, closable) == [chain |-> chain, added |-> added, closable |-> closable]

Ordered(added) ==
  \A i \in 2 .. Len(added) :
    added[i].kind \in {"dir", "symlink"} => added[i - 1].kind \in {"dir", "symlink"}

(* Every finding below an accepted directory; some below a refused one.     *)
Accepted(c) ==
  {Home(<<Rooted, Own>>, a, m) : a \in {a \in [1 .. Joined[c] -> Found] : Ordered(a)},
                                 m \in BOOLEAN}
Refused(c) ==
  {Unset} \cup
  {Home(h, [i \in 1 .. Joined[c] |-> Free], TRUE) :
     h \in {<<Rooted, Foreign>>, <<Rooted, Drop, Own>>, <<Relative, Own>>}}

(* A few of both.                                                           *)
Typical(c) ==
  Refused(c) \cup
  {Home(<<Rooted, Own>>, [i \in 1 .. Joined[c] |-> IF i = Joined[c] THEN e ELSE Free], m) :
     e \in {Free, Entry("denied", "root", FALSE, FALSE)}, m \in BOOLEAN}

MCMachines ==
  [unix : BOOLEAN, lax : {FALSE}, dest : {Place(c, TRUE) : c \in DestChains},
   temp : {NoTemp}, runtime : {Unset}, cache : {Unset},
   home : {Home(<<Rooted, Own>>, <<Own, Free, Free>>, TRUE)}]
  \cup
  [unix : {TRUE}, lax : {FALSE}, dest : {Shares}, temp : Temps,
   runtime : Typical("runtime"), cache : Typical("cache"), home : Typical("home")]
  \cup
  [unix : {TRUE}, lax : BOOLEAN, dest : {Shares}, temp : {NoTemp},
   runtime : Accepted("runtime"), cache : Typical("cache"), home : {Unset}]
  \cup
  [unix : {TRUE}, lax : BOOLEAN, dest : {Shares}, temp : {NoTemp},
   runtime : Refused("runtime"), cache : Accepted("cache"), home : Typical("home")]
  \cup
  [unix : {TRUE}, lax : BOOLEAN, dest : {Shares}, temp : {NoTemp},
   runtime : Refused("runtime"), cache : Refused("cache"), home : Accepted("home")]

(* Bases nobody has prepared yet, under either umask.                       *)
MCFreshMachines ==
  [unix : {TRUE}, lax : BOOLEAN, dest : {Shares}, temp : {NoTemp},
   runtime : Refused("runtime"),
   cache : Refused("cache") \cup {Home(<<Rooted, Own>>, <<Free, Free>>, TRUE)},
   home : {Home(<<Rooted, Own>>, <<Free, Free, Free>>, TRUE)}]
=============================================================================
