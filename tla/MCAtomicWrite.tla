--------------------------- MODULE MCAtomicWrite ----------------------------
(* Instances of AtomicWrite for TLC.                                       *)
EXTENDS AtomicWrite

CONSTANTS w1, w2, m600, m644

MCWriters == {w1, w2}
OneWriter == {w1}
MCModes == {m600, m644}

(* One process has umask 022 and the other 077.                            *)
MCDefault == [w \in Writers |-> IF w = w1 THEN m644 ELSE m600]

(* No safe base at all, a usable one after an unsafe one, and a first safe *)
(* one that cannot be set up although a later one could.                   *)
MCBaseLists ==
  {<<"unsafe", "unsafe">>, <<"unsafe", "usable">>, <<"unsafe", "unusable", "usable">>}
=============================================================================
