----------------------------- MODULE ReadBudget -----------------------------
(***************************************************************************)
(* The ledgers one read of a .nir file charges: decoded bytes, nodes,      *)
(* edges and NIRGraph groups (struct ReadBudget and struct CountLedger of  *)
(* hdf5_read.rs).  A ledger is a pair of an optional limit and an amount   *)
(* used; the operators below are pure and the modules that own a ledger    *)
(* keep `used' as state.                                                   *)
(***************************************************************************)
EXTENDS Integers

CONSTANTS
  UsizeMax,   (* usize::MAX of the build                                    *)
  NoLimit,    (* the None of an Option<usize> limit                         *)
  Overflow    (* the None of an Option<usize> request: it fits no usize     *)

ASSUME UsizeAssumption == UsizeMax \in Nat \ {0}
ASSUME NoLimitAssumption == NoLimit \notin Nat
ASSUME OverflowAssumption == Overflow \notin Nat

Usize    == 0 .. UsizeMax
Limits   == Usize \cup {NoLimit}
Requests == Usize \cup {Overflow}

(* The four ledgers. *)
Resources == {"bytes", "nodes", "edges", "graphs"}

(* usize::checked_add and usize::checked_mul, with ? on either operand.     *)
CheckedAdd(a, b) ==
  IF a # Overflow /\ b # Overflow /\ a + b <= UsizeMax THEN a + b ELSE Overflow

CheckedMul(a, b) ==
  IF a # Overflow /\ b # Overflow /\ a * b <= UsizeMax THEN a * b ELSE Overflow

AdmitsOneMore(limit, used, requested) ==
  limit # NoLimit =>
    /\ CheckedAdd(used, requested) # Overflow
    /\ CheckedAdd(used, requested) <= limit + 1

(* ReadBudget::would_fit, and the test both charge functions make first.    *)
Admits(limit, used, requested) ==
  limit # NoLimit =>
    /\ CheckedAdd(used, requested) # Overflow
    /\ CheckedAdd(used, requested) <= limit

(* The ledger after a charge that was admitted: an unlimited one is not     *)
(* kept at all.                                                             *)
Charged(limit, used, requested) ==
  IF limit = NoLimit THEN used ELSE used + requested

=============================================================================
