---------------------------- MODULE VersionPolicy ----------------------------
(***************************************************************************)
(* Applying a VersionPolicy to the /version of a file (io/version.rs): the *)
(* caller builds the policy, the reader has decoded the text or found none *)
(* and enforce_version_policy decides.  A text is a sequence of            *)
(* characters, of which only the class matters, and the value of a digit.  *)
(***************************************************************************)
EXTENDS Integers, FiniteSets, SequencesExt

CONSTANTS
  DigitValue,  (* the digits in use -> their values                         *)
  Letters,     (* ASCII letters                                             *)
  Others,      (* characters that no part of a version may hold             *)
  Absent,      (* there is no /version                                      *)
  Malformed,   (* the None of parse_nir_version and parse_component         *)
  U64Max,      (* u64::MAX                                                  *)
  Texts,       (* what a file may hold                                      *)
  Lists        (* the majors a caller may list                              *)

Digits     == DOMAIN DigitValue
Characters == Digits \cup Letters \cup Others \cup {".", "-", "+"}
Versions   == Seq(Characters)

ASSUME VersionAssumption ==
  /\ \A d \in Digits : DigitValue[d] \in 0 .. 9
  /\ "0" \in Digits /\ \A d \in Digits : DigitValue[d] = 0 <=> d = "0"
  /\ Digits \cap Letters = {} /\ Others \cap (Digits \cup Letters) = {}
  /\ {".", "-", "+"} \cap (Digits \cup Letters \cup Others) = {}
  /\ U64Max \in Nat
  /\ Malformed \notin Nat /\ Malformed \notin Nat \X Nat \X Nat
  /\ Texts \subseteq Versions /\ Absent \notin Texts
  /\ Lists \subseteq Seq(0 .. U64Max)

VARIABLES
  observed,  \* the decoded /version, or Absent
  policy,    \* the VersionPolicy of the call
  listed,    \* the majors the caller gave to compatible_major
  outcome,   \* "pending", "ok" or "incompatible"
  reported   \* the `observed' of IncompatibleVersion

vars == <<observed, policy, listed, outcome, reported>>

-----------------------------------------------------------------------------
(* Texts. *)

Occurs(c, s) == \E i \in DOMAIN s : s[i] = c

(* str::split_once: what is left and right of the first c.                  *)
LeftOf(c, s)  == SubSeq(s, 1, SelectInSeq(s, LAMBDA x : x = c) - 1)
RightOf(c, s) == SubSeq(s, SelectInSeq(s, LAMBDA x : x = c) + 1, Len(s))

(* str::split('.'): the maximal stretches between dots, by their bounds.    *)
Stretches(s) ==
  {b \in (1 .. Len(s) + 1) \X (0 .. Len(s)) :
     /\ b[1] <= b[2] + 1
     /\ b[1] > 1 => s[b[1] - 1] = "."
     /\ b[2] < Len(s) => s[b[2] + 1] = "."
     /\ \A k \in b[1] .. b[2] : s[k] # "."}

Pieces(s) == {SubSeq(s, b[1], b[2]) : b \in Stretches(s)}

AllDigits(s) == \A i \in DOMAIN s : s[i] \in Digits

(* str::parse: the number that the first i digits make, for every i.        *)
Read(s) ==
  LET read[i \in 0 .. Len(s)] ==
        IF i = 0 THEN 0 ELSE 10 * read[i - 1] + DigitValue[s[i]]
  IN  read

Number(s) == Read(s)[Len(s)]

LeadingZero(s) == Len(s) > 1 /\ s[1] = "0"

(* Mutant: the number is not compared with the largest u64.                 *)
ParseComponentUnbounded(s) ==
  IF s = <<>> \/ LeadingZero(s) \/ ~AllDigits(s) THEN Malformed ELSE Number(s)

(* parse_component: digits that fit no u64 are malformed as well.           *)
ParseComponent(s) ==
  IF s = <<>> \/ LeadingZero(s) \/ ~AllDigits(s) \/ Number(s) > U64Max THEN Malformed
  ELSE Number(s)

IdentifierOk(s) ==
  s # <<>> /\ \A i \in DOMAIN s : s[i] \in Digits \cup Letters \cup {"-"}

IsValidBuildMetadata(s) == s # <<>> /\ \A p \in Pieces(s) : IdentifierOk(p)

(* A numeric prerelease identifier must not have a leading zero.            *)
IsValidPrerelease(s) ==
  s # <<>> /\ \A p \in Pieces(s) : IdentifierOk(p) /\ ~(AllDigits(p) /\ LeadingZero(p))

(* The three parts of the core, which need exactly two dots.                *)
ParseCore(s) ==
  LET dots  == {i \in DOMAIN s : s[i] = "."}
      first == Min(dots)
      last  == Max(dots)
      parts == <<ParseComponent(SubSeq(s, 1, first - 1)),
                 ParseComponent(SubSeq(s, first + 1, last - 1)),
                 ParseComponent(SubSeq(s, last + 1, Len(s)))>>
  IN  IF Cardinality(dots) = 2 /\ \A i \in 1 .. 3 : parts[i] # Malformed
      THEN parts ELSE Malformed

(* The part of a text before an optional suffix, and the suffixes' checks.  *)
Before(c, s)    == IF Occurs(c, s) THEN LeftOf(c, s) ELSE s
BuildOk(s)      == Occurs("+", s) => IsValidBuildMetadata(RightOf("+", s))
PrereleaseOk(s) == Occurs("-", s) => IsValidPrerelease(RightOf("-", s))

(* Mutant: the prerelease is split off first.                               *)
ParsePrereleaseFirst(raw) ==
  IF PrereleaseOk(raw) /\ BuildOk(Before("-", raw))
  THEN ParseCore(Before("+", Before("-", raw))) ELSE Malformed

(* parse_nir_version: build metadata is split off at the first plus, then   *)
(* the prerelease at the first hyphen of the rest.                          *)
ParseNirVersion(raw) ==
  IF BuildOk(raw) /\ PrereleaseOk(Before("+", raw))
  THEN ParseCore(Before("-", Before("+", raw))) ELSE Malformed

-----------------------------------------------------------------------------
(* Policies. *)

(* sort_unstable: equal majors cannot be told apart.                        *)
Sorted(list) ==
  LET order == CHOOSE p \in Bijection(DOMAIN list, DOMAIN list) :
                 \A i, j \in DOMAIN list : i < j => list[p[i]] <= list[p[j]]
  IN  [i \in DOMAIN list |-> list[order[i]]]

(* Vec::dedup drops equal neighbours only.                                  *)
Kept(s) ==
  LET kept[i \in 0 .. Len(s)] ==
        IF i = 0 THEN <<>>
        ELSE IF i > 1 /\ s[i - 1] = s[i] THEN kept[i - 1]
        ELSE Append(kept[i - 1], s[i])
  IN  kept

Dedup(s) == Kept(s)[Len(s)]

(* Mutant: the list is not sorted.                                          *)
CanonicalUnsorted(list) == Dedup(list)

(* compatible_major: sorted, then without duplicates.                       *)
Canonical(list) == Dedup(Sorted(list))

Policies ==
  [kind : {"permissive", "present"}] \cup
  [kind : {"major"}, majors : Seq(0 .. U64Max)]

Init ==
  /\ observed \in Texts \cup {Absent}
  /\ \/ listed = <<>> /\ policy \in [kind : {"permissive", "present"}]
     \/ listed \in Lists /\ policy = [kind |-> "major", majors |-> Canonical(listed)]
  /\ outcome = "pending"
  /\ reported = Absent

Accepts ==
  CASE policy.kind = "permissive" -> TRUE
    [] policy.kind = "present"    -> observed # Absent
    [] policy.kind = "major"      ->
         /\ observed # Absent
         /\ LET parsed == ParseNirVersion(observed)
            IN  parsed # Malformed /\ Contains(policy.majors, parsed[1])

(* enforce_version_policy: the error carries the text as it was observed.   *)
EnforceVersionPolicy ==
  /\ outcome = "pending"
  /\ \/ Accepts /\ outcome' = "ok" /\ UNCHANGED reported
     \/ ~Accepts /\ outcome' = "incompatible" /\ reported' = observed
  /\ UNCHANGED <<observed, policy, listed>>

Next == EnforceVersionPolicy

Spec == Init /\ [][Next]_vars

-----------------------------------------------------------------------------

(* The states of one decision; an error never shows another text than the  *)
(* one that was observed.                                                   *)
TypeOK ==
  /\ observed \in Texts \cup {Absent}
  /\ listed \in Lists \cup {<<>>}
  /\ policy \in Policies
  /\ outcome \in {"pending", "ok", "incompatible"}
  /\ reported \in {observed, Absent}

=============================================================================
