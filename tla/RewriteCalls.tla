----------------------------- MODULE RewriteCalls -----------------------------
(***************************************************************************)
(* The rewrite engine as its callers see it: an engine is given a rule, and *)
(* is asked about one version after another, or about one version and the   *)
(* list a registry offers.                                                  *)
(***************************************************************************)
EXTENDS Rewrite, FiniteSets

CONSTANTS
    Cases,      \* engines: the ecosystem, strategy and target of their rule
    Asked,      \* Asked[eco][strategy]: the texts an engine is asked about
    Offers,     \* Offers[strategy]: the lists offered to it
    MaxCalls    \* bound: versions an engine is asked about

ASSUME TextAssumption ==
    \A c \in Cases : \A text \in Asked[c.eco][c.strategy] \cup {c.target} :
        text.nums \in Seq(Nat) /\ Len(text.nums) <= 4
ASSUME OfferAssumption ==
    \A c \in Cases : \A available \in Offers[c.strategy] :
        /\ DOMAIN available \subseteq Nat
        /\ \A i \in DOMAIN available :
               available[i].nums \in Seq(Nat) /\ Len(available[i].nums) <= 4

VARIABLES
    case,       \* which engine
    given,      \* what Apply has answered: pairs of a text and its rewrite
    checked     \* what ApplyWithAvailable has answered, once

vars == <<case, given, checked>>

\* The rule of the engine, which matches the package "a".
Rule == [ecosystems |-> {case.eco}, names |-> {"a"}, versions |-> Asked[case.eco][case.strategy],
         rename |-> "", strategy |-> case.strategy, target |-> case.target,
         mode |-> "transparent"]

Init ==
    /\ case \in Cases
    /\ given = {}
    /\ checked = <<>>

CallApply ==
    /\ checked = <<>>
    /\ Cardinality(given) < MaxCalls
    /\ \E text \in Asked[case.eco][case.strategy] :
        given' = given \cup {<<text, Apply(<<Rule>>, case.eco, "a", text).version>>}
    /\ UNCHANGED <<case, checked>>

CallApplyWithAvailable ==
    /\ given = {} /\ checked = <<>>
    /\ \E text \in Asked[case.eco][case.strategy] : \E available \in Offers[case.strategy] :
        checked' = <<[text |-> text, available |-> available,
                      result |-> ApplyWithAvailable(<<Rule>>, case.eco, "a", text, available)]>>
    /\ UNCHANGED <<case, given>>

Next == CallApply \/ CallApplyWithAvailable

Spec == Init /\ [][Next]_vars

-----------------------------------------------------------------------------
(* Properties *)

Snaps == case.strategy \in {"nearest-minor", "nearest-major"}

\* Versions that were in order stay in order when a rule snaps them, or bounds them
\* by a version, pre-releases and versions of fewer numbers included: a range a
\* client asks for is not turned round by the rewrite of its ends.
RewriteKeepsOrder ==
    Snaps \/ (case.strategy \in {"min", "max"} /\ Parses(case.target)) => \A p, q \in given :
        Parses(p[1]) /\ Parses(q[1]) /\ Compare(p[1], q[1]) <= 0 => Compare(p[2], q[2]) <= 0

\* All versions of a line are rewritten to one text, however many numbers and
\* whatever suffix they have: the handlers look for the target in the registry's
\* list by comparing texts.
LineSnapsToOne ==
    Snaps => \A p, q \in given :
        /\ Parses(p[1]) /\ Parses(q[1]) /\ p[1].v = q[1].v
        /\ IF case.strategy = "nearest-minor" THEN SameMinor(p[1], q[1], case.eco)
                                                 ELSE SameMajor(p[1], q[1], case.eco)
        => p[2] = q[2]

\* "replaces the major version component" (rewrite.go:222), and so for minor and
\* patch: the component named has the rule's number, if it is one, the others, the
\* suffix and the "v" are as they were.  Versions with a fourth number or a Maven suffix
\* behind a dot lose numbers and are not claimed: 5.3.7.Final with major 6
\* becomes 6.3Final.
ReplacesJustOne ==
    \A p \in given :
        IsNumber(case.target) /\ Parses(p[1]) /\ Len(p[1].nums) <= 3 /\ p[1].suffix # ".Final" =>
            LET n == case.target.nums[1]
                Has(major, minor, patch) ==
                    /\ <<Num(p[2], 1), Num(p[2], 2), Num(p[2], 3)>> = <<major, minor, patch>>
                    /\ p[2].v = p[1].v /\ p[2].suffix = p[1].suffix
            IN  /\ case.strategy = "replace-major" => Has(n, Num(p[1], 2), Num(p[1], 3))
                /\ case.strategy = "replace-minor" => Has(Num(p[1], 1), n, Num(p[1], 3))
                /\ case.strategy = "replace-patch" => Has(Num(p[1], 1), Num(p[1], 2), n)

\* "preferring the same major.minor prefix" (rewrite.go:274): where the target is
\* not offered, the version taken instead is of its minor if one is, or else of
\* its major if one is; in its minor none on the same side of it is nearer, and
\* one below it is taken only if none as near is above ("prefer versions above
\* the target", rewrite.go:298), in whatever order the registry lists them.  The
\* third number of a PyPI or Maven version of four is not read, and counts as 0.
ClosestKeepsLine ==
    \A call \in Range(checked) :
        LET target == Apply(<<Rule>>, case.eco, "a", call.text).version
            usable == {text \in Range(call.available) : Parses(text)}
            taken == call.result.version
            Below(text) == Compare(text, target) < 0
            Off(text) == Abs(ParseVersion(text, case.eco).patch - ParseVersion(target, case.eco).patch)
        IN  IF target = call.text \/ target \in Range(call.available) THEN taken = target
            ELSE IF ~Parses(target) \/ usable = {} THEN taken = call.text /\ ~call.result.matched
            ELSE /\ taken \in usable
                 /\ \A text \in usable :
                       /\ SameMajor(text, target, case.eco) => SameMajor(taken, target, case.eco)
                       /\ SameMinor(text, target, case.eco) =>
                            /\ SameMinor(taken, target, case.eco)
                            /\ Below(text) = Below(taken) => Off(taken) <= Off(text)
                            /\ Below(taken) /\ ~Below(text) => Off(taken) < Off(text)
=============================================================================
