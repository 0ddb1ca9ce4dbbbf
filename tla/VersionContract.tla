--------------------------- MODULE VersionContract ---------------------------
(***************************************************************************)
(* What VersionPolicy documents of the texts it accepts, as a grammar that *)
(* derives a text by cutting it anywhere, where the code cuts at the first *)
(* separator it meets; and the policy as GraphReader applies it.           *)
(***************************************************************************)
EXTENDS VersionPolicy

CONSTANT Anything  (* what GraphReader needs and its policy does not read   *)

Slice(s, i, j) == SubSeq(s, i, j)

Numeric(s) == s # <<>> /\ AllDigits(s) /\ (s[1] = "0" => Len(s) = 1)

Alphanumeric(s) ==
  s # <<>> /\ \A i \in DOMAIN s : s[i] \in Characters \ (Others \cup {".", "+"})

(* One or more words with a dot between two, words being given by where     *)
(* they begin and end: a list of them ends after its first word, or after a *)
(* list, a dot and a word.                                                  *)
Ends(s, words) ==
  LET ends[j \in 0 .. Len(s)] ==
        IF j = 0 THEN {}
        ELSE LET shorter == ends[j - 1]
             IN  IF \/ <<1, j>> \in words
                    \/ \E i \in shorter : s[i + 1] = "." /\ <<i + 2, j>> \in words
                 THEN shorter \cup {j} ELSE shorter
  IN  ends

Dotted(s, words) == Len(s) \in Ends(s, words)[Len(s)]

Within(s) == (1 .. Len(s)) \X (1 .. Len(s))

Build(s) == Dotted(s, {w \in Within(s) : Alphanumeric(Slice(s, w[1], w[2]))})

PrereleaseIdentifier(s) == Alphanumeric(s) /\ (AllDigits(s) => Numeric(s))

Prerelease(s) == Dotted(s, {w \in Within(s) : PrereleaseIdentifier(Slice(s, w[1], w[2]))})

(* What may follow the core: -prerelease, then +build, each optional.       *)
BuildSuffix(s) == s = <<>> \/ (s[1] = "+" /\ Build(Tail(s)))

Suffix(s) ==
  \/ BuildSuffix(s)
  \/ /\ s[1] = "-"
     /\ \E k \in 1 .. Len(s) :
          Prerelease(Slice(s, 2, k)) /\ BuildSuffix(Slice(s, k + 1, Len(s)))

(* The sum of the digits by their places, units first.                      *)
Places(s) ==
  LET places[k \in 0 .. Len(s)] ==
        IF k = 0 THEN [sum |-> 0, unit |-> 1]
        ELSE LET right == places[k - 1]
             IN  [sum  |-> right.sum + right.unit * DigitValue[s[Len(s) - k + 1]],
                  unit |-> 10 * right.unit]
  IN  places

Value(s) == Places(s)[Len(s)].sum

(* Every way to read a text as MAJOR.MINOR.PATCH with a suffix.             *)
Readings(s) ==
  LET Dots  == {i \in DOMAIN s : s[i] = "."}
      ok(c) == /\ c[1] < c[2] /\ c[2] < c[3]
               /\ Numeric(Slice(s, 1, c[1] - 1))
               /\ Numeric(Slice(s, c[1] + 1, c[2] - 1))
               /\ Numeric(Slice(s, c[2] + 1, c[3]))
               /\ Suffix(Slice(s, c[3] + 1, Len(s)))
  IN  {<<Value(Slice(s, 1, c[1] - 1)), Value(Slice(s, c[1] + 1, c[2] - 1)),
         Value(Slice(s, c[2] + 1, c[3]))>> : c \in {x \in Dots \X Dots \X DOMAIN s : ok(x)}}

Fitting(s) == {r \in Readings(s) : \A i \in 1 .. 3 : r[i] <= U64Max}

(* `# Parsing' of VersionPolicy::CompatibleMajor: no text has two readings, *)
(* and the parser finds the one there is, unless a component fits no u64.   *)
ParsesGrammar ==
  observed # Absent =>
    /\ Cardinality(Readings(observed)) <= 1
    /\ IF Fitting(observed) = {} THEN ParseNirVersion(observed) = Malformed
       ELSE ParseNirVersion(observed) \in Fitting(observed)

(* `Duplicates are dropped and the list is sorted': callers that list the   *)
(* same majors hold the same policy.                                        *)
SamePolicyForSameMajors ==
  \A other \in Lists :
    /\ policy.kind = "major"
    /\ ToSet(other) = ToSet(listed)
    => policy = [kind |-> "major", majors |-> Canonical(other)]

(* The policy as a read applies it, with this parser for its MajorOf.       *)
Reader ==
  INSTANCE GraphReader WITH
    Groups <- Anything, Datasets <- Anything, Root <- Anything, Names <- Anything,
    NoName <- Anything, NoLink <- Anything, Rank <- Anything, Values <- Texts,
    NoVersion <- Absent, Reads <- Anything, FieldPlan <- Anything,
    WordSize <- Anything, PairSize <- Anything, MaxGraphs <- Anything,
    UsizeMax <- Anything, NoLimit <- Anything, Overflow <- Anything,
    MajorOf <- [t \in Texts |-> LET parsed == ParseNirVersion(t)
                              IN  IF parsed = Malformed THEN -1 ELSE parsed[1]],
    call <- [policy |-> [kind   |-> policy.kind,
                         majors |-> IF policy.kind = "major" THEN ToSet(policy.majors)
                                    ELSE {}]],
    version <- observed,
    file <- Anything, pc <- Anything, frame <- Anything, callers <- Anything,
    visited <- Anything, used <- Anything, tree <- Anything, error <- Anything,
    followed <- Anything

(* VersionPolicy: permissive accepts whatever the file holds,               *)
(* require-present whatever is there, and a list of majors exactly the      *)
(* versions whose major the caller listed, in any order and number; a       *)
(* refusal reports the text unchanged.                                      *)
Documented ==
  \/ policy.kind = "permissive"
  \/ policy.kind = "present" /\ observed # Absent
  \/ /\ policy.kind = "major" /\ observed # Absent
     /\ \E r \in Fitting(observed) : \E i \in DOMAIN listed : listed[i] = r[1]

(* The verdict is the documented one, and the one a read of GraphReader     *)
(* comes to: `Shared by the full graph reader and read_version_with so the  *)
(* two cannot disagree' (enforce_version_policy).                           *)
EnforcedAsDocumented ==
  outcome # "pending" =>
    /\ Reader!PolicyAccepts <=> Documented
    /\ IF Documented THEN outcome = "ok"
       ELSE outcome = "incompatible" /\ reported = observed

=============================================================================
