---------------------------- MODULE PomInspection ----------------------------
(***************************************************************************)
(* handlePom of internal/handler/maven: a request for a .pom file.  The     *)
(* POM is fetched and served as it is; before that its dependencies, with   *)
(* the property references in them replaced, are evaluated like versions of *)
(* a list, so that the decision log has them.  pom.go resolves references   *)
(* against the properties of the POM and of the ancestors it can fetch.     *)
(*                                                                         *)
(* A text is the sequence of its parts: literals, and references, which are *)
(* the keys they name.  The empty text is an empty element.                 *)
(***************************************************************************)
EXTENDS Naturals, Sequences, FiniteSets, Functions

CONSTANTS
    Coordinates,    \* the POMs the registry can be asked for
    Registry,       \* Registry[c]: what the registry has there
    Keys,           \* names of properties
    Literals,       \* texts without references
    MaxParentDepth, \* ancestors that are fetched
    Rounds          \* rounds of substitution

ImplicitKeys == {"project.groupId", "project.artifactId", "project.version"}
Parts == Keys \cup Literals
Text == Seq(Parts)
Dependency == [group : Text, artifact : Text, version : Text]

Entries(names, f) == DOMAIN f \subseteq names /\ \A k \in DOMAIN f : f[k] \in Text

\* What the inspection reads of a POM: its parent, its properties, what it lists,
\* and which of groupId, artifactId and version it gives itself (own).
PomProject(p) ==
    /\ p.parent \in Coordinates \cup {"none", "incomplete"}
    /\ p.parentVersion \in Text
    /\ Entries(ImplicitKeys, p.own)
    /\ Entries(Keys, p.properties)
    /\ p.dependencies \in Seq(Dependency)
    /\ p.managed \in Seq(Dependency)

ASSUME PomAssumption ==
    /\ ImplicitKeys \subseteq Keys
    /\ Keys \cap Literals = {}
    /\ IsFiniteSet(Keys) /\ IsFiniteSet(Coordinates)
    /\ Coordinates \cap {"none", "incomplete"} = {}
    /\ \A c \in Coordinates : PomProject(Registry[c])
    /\ MaxParentDepth \in Nat /\ Rounds \in Nat

NoEntries == [k \in {} |-> << >>]

VARIABLE pom    \* the request for a POM

(***************************************************************************)
(* The request: which POM it asks for, the ancestors fetched so far         *)
(* (outermost first), the properties collected, the dependencies yet to be  *)
(* resolved, those yet to be evaluated, those recorded, those whose         *)
(* evaluation failed, and the answer.  complete is read by the properties   *)
(* only: no fetch of an ancestor failed.                                    *)
(***************************************************************************)
NoPom ==
    [pc |-> "idle", of |-> "none", chain |-> << >>, props |-> NoEntries,
     rest |-> << >>, todo |-> << >>, recorded |-> << >>, failed |-> {},
     answer |-> "none", complete |-> TRUE]

PomInit == pom = NoPom

PomAnswered(answer) == pom' = [pom EXCEPT !.pc = "idle", !.answer = answer]

-----------------------------------------------------------------------------
(* Properties and references *)

\* The entries of f, and those of g that f does not have.
Over(f, g) == [k \in DOMAIN f \cup DOMAIN g |-> IF k \in DOMAIN f THEN f[k] ELSE g[k]]

\* project.groupId, project.artifactId and project.version of the POM itself; a
\* version it does not have is its parent's.
Implicit(p) ==
    Over(p.own, IF p.parent # "none" /\ p.parentVersion # << >>
                THEN [k \in {"project.version"} |-> p.parentVersion] ELSE NoEntries)

\* Mutant of CollectProperties: what is there already is kept.
CollectKeeping(p, chain) ==
    LET set[n \in 0..Len(chain)] ==
            IF n = 0 THEN NoEntries ELSE Over(set[n - 1], chain[n].properties)
    IN  Over(Implicit(p), Over(p.properties, set[Len(chain)]))

\* Entries of ancestors are set first, outermost ancestor first, so that nearer
\* ones replace them.
CollectProperties(p, chain) ==
    LET set[n \in 0..Len(chain)] ==
            IF n = 0 THEN NoEntries ELSE Over(chain[n].properties, set[n - 1])
    IN  Over(Implicit(p), Over(p.properties, set[Len(chain)]))

\* The text made of what a table has for each part of a text.
Spelled(text, of) ==
    LET done[n \in 0..Len(text)] ==
            IF n = 0 THEN << >> ELSE done[n - 1] \o of[text[n]]
    IN  done[Len(text)]

\* Every reference that has an entry is replaced by it.
Replaced(text, props) ==
    Spelled(text, [part \in Parts |->
                      IF part \in DOMAIN props THEN props[part] ELSE <<part>>])

\* A few rounds of that; a round that changes nothing is the last in the code.
ResolveVersion(text, props) ==
    LET round[n \in 0..Rounds] ==
            IF n = 0 THEN text ELSE Replaced(round[n - 1], props)
    IN  round[Rounds]

Unresolved(text) == \E i \in DOMAIN text : text[i] \in Keys

Resolved(dep, props) == [f \in DOMAIN dep |-> ResolveVersion(dep[f], props)]

Known(version) == version # << >> /\ ~Unresolved(version)

-----------------------------------------------------------------------------
(* A request *)

PomArrive(c) ==
    /\ pom.pc = "idle"
    /\ pom' = [NoPom EXCEPT !.pc = "fetch", !.of = c]

\* The registry does not answer, or with another status than 200.
PomFetchFails ==
    /\ pom.pc = "fetch"
    /\ PomAnswered("error") \/ PomAnswered("as is")

PomFetched ==
    /\ pom.pc = "fetch"
    /\ pom' = [pom EXCEPT !.pc = "parents"]

\* The POM cannot be parsed: it is served without an inspection.
PomUnparsed ==
    /\ pom.pc = "fetch"
    /\ PomAnswered("ok")

\* The ancestor whose parent is the next to be fetched.
Outermost == IF pom.chain = << >> THEN Registry[pom.of] ELSE Head(pom.chain)

\* Mutant of MoreParents: one ancestor more than the limit.
MoreParentsByOne == Outermost.parent # "none" /\ Len(pom.chain) <= MaxParentDepth

\* There is a parent, and the depth allows it.
MoreParents == Outermost.parent # "none" /\ Len(pom.chain) < MaxParentDepth

\* Mutant of ParentFetched: the chain is in the order of the fetches.
ParentAppended ==
    /\ pom.pc = "parents" /\ MoreParents
    /\ Outermost.parent \in Coordinates
    /\ pom' = [pom EXCEPT !.chain = Append(@, Registry[Outermost.parent])]

ParentFetched ==
    /\ pom.pc = "parents" /\ MoreParents
    /\ Outermost.parent \in Coordinates
    /\ pom' = [pom EXCEPT !.chain = <<Registry[Outermost.parent]>> \o @]

\* collectProperties, with the ancestors there are.
Collect(complete) ==
    LET p == Registry[pom.of]
    IN  pom' = [pom EXCEPT !.pc = "resolve", !.complete = complete,
                    !.props = CollectProperties(p, pom.chain),
                    !.rest = p.dependencies \o p.managed]

\* Its coordinates are incomplete, or it cannot be fetched or parsed: the walk
\* ends and the inspection goes on.
ParentFails ==
    /\ pom.pc = "parents" /\ MoreParents
    /\ Collect(FALSE)

ParentsDone ==
    /\ pom.pc = "parents" /\ ~MoreParents
    /\ Collect(TRUE)

\* Mutant of Added: a dependency is listed as often as it is declared.
AddedAgain(deps, dep) == IF Known(dep.version) THEN Append(deps, dep) ELSE deps

\* A dependency whose version is known is listed, once; its group and artifact are
\* taken as they are, resolved or not.
Added(deps, dep) ==
    IF Known(dep.version) /\ dep \notin Range(deps) THEN Append(deps, dep) ELSE deps

\* resolvedDependencies, one declared dependency a step.
Resolve ==
    /\ pom.pc = "resolve"
    /\ pom' = IF pom.rest = << >> THEN [pom EXCEPT !.pc = "evaluate"]
              ELSE [pom EXCEPT !.rest = Tail(@),
                               !.todo = Added(@, Resolved(Head(pom.rest), pom.props))]

\* EvaluateVersion records its verdict, or fails and records nothing.
EvaluateDependency ==
    /\ pom.pc = "evaluate" /\ pom.todo # << >>
    /\ \/ pom' = [pom EXCEPT !.todo = Tail(@), !.recorded = Append(@, Head(pom.todo))]
       \/ pom' = [pom EXCEPT !.todo = Tail(@), !.failed = @ \cup {Head(pom.todo)}]

\* The POM is served whatever the verdicts were.
ServePom ==
    /\ pom.pc = "evaluate" /\ pom.todo = << >>
    /\ PomAnswered("ok")

HandlePom ==
    \/ PomFetchFails \/ PomFetched \/ PomUnparsed
    \/ ParentFetched \/ ParentFails \/ ParentsDone \/ Resolve
    \/ EvaluateDependency \/ ServePom

-----------------------------------------------------------------------------
(* What the texts of a POM mean *)

\* More ancestors than there are POMs that differ.
AllGenerations == MaxParentDepth + Cardinality(Coordinates)

\* The n-th ancestor of c, with c the 0th.
Generation(c) ==
    LET line[n \in 0..AllGenerations] ==
            IF n = 0 THEN c
            ELSE IF line[n - 1] \in Coordinates THEN Registry[line[n - 1]].parent ELSE "none"
    IN  line

\* What k stands for in c: the POM's own element, or the definition of the
\* nearest of its first n ancestors.
Definition(c, k, n) ==
    LET p == Registry[c]
        line == Generation(c)
        defining == {i \in 0..n : line[i] \in Coordinates
                                  /\ k \in DOMAIN Registry[line[i]].properties}
        nearest == CHOOSE i \in defining : \A j \in defining : i <= j
    IN  IF k \in DOMAIN Implicit(p) THEN Implicit(p)[k]
        ELSE IF defining # {} THEN Registry[line[nearest]].properties[k]
        ELSE <<k>>

\* A table of every part, unfolded in c with its first n ancestors d deep.
AllDepths == Rounds + Cardinality(Keys)
Unfolded ==
    [c \in Coordinates |-> [n \in 0..AllGenerations |->
        LET unfold[d \in 0..AllDepths] ==
                [part \in Parts |->
                    IF d = 0 \/ part \in Literals THEN <<part>>
                    ELSE Spelled(Definition(c, part, n), unfold[d - 1])]
        IN  [d \in 0..AllDepths |-> [part \in Parts |-> unfold[d][part]]]]]

\* A text within reach of n ancestors and of a number of nested references, and
\* what it means in full.
Within(c, text, n, depth) == Spelled(text, Unfolded[c][n][depth])
Meaning(c, text) == Within(c, text, AllGenerations, AllDepths)

Declared(c) == Range(Registry[c].dependencies \o Registry[c].managed)

-----------------------------------------------------------------------------
(* Properties *)

Evaluated == Range(pom.recorded) \cup pom.failed \cup Range(pom.todo)

PomTypeOK ==
    /\ pom.pc \in {"idle", "fetch", "parents", "resolve", "evaluate"}
    /\ Entries(Keys, pom.props)
    /\ pom.answer \in {"none", "ok", "as is", "error"}
    /\ pom.of \in Coordinates \cup {"none"}
    /\ pom.chain \in Seq({Registry[c] : c \in Coordinates})
    /\ Len(pom.chain) <= MaxParentDepth
    /\ Evaluated \subseteq Dependency
    /\ pom.complete \in BOOLEAN

\* What has been fetched is a line of ancestors also when a POM is its own parent:
\* each is the parent of the one after it and the last is the POM's, so that what
\* outer ancestors define is set first.
LineOfParents ==
    pom.pc # "idle" => \A i \in DOMAIN pom.chain :
        LET child == IF i = Len(pom.chain) THEN Registry[pom.of] ELSE pom.chain[i + 1]
        IN  child.parent \in Coordinates /\ pom.chain[i] = Registry[child.parent]

\* The log has no version a POM does not ask for: what is evaluated is a declared
\* dependency with the version it has when every ancestor is read, also when the
\* walk was cut short, failed half-way or went in a circle.
EvaluatedAsMeant ==
    \A new \in Evaluated : \E dep \in Declared(pom.of) : \A f \in DOMAIN dep :
        \/ new[f] = Meaning(pom.of, dep[f])
        \/ f # "version" /\ Unresolved(new[f])

\* A dependency is not forgotten: one whose version the ancestors within reach
\* define, at most Rounds references deep, is recorded unless its evaluation
\* failed; and each is recorded once, however often and wherever it is declared.
ReachableAreEvaluated ==
    (pom.pc = "evaluate" \/ pom.recorded # << >>) =>
        LET reach == IF pom.complete THEN MaxParentDepth ELSE Len(pom.chain)
            known == {dep \in Declared(pom.of) :
                        Known(Within(pom.of, dep.version, reach, Rounds))}
        IN  /\ \A dep \in known : \E new \in Evaluated :
                  \A f \in DOMAIN dep : new[f] = Within(pom.of, dep[f], reach, Rounds)
            /\ IsInjective(pom.recorded \o pom.todo)
            /\ pom.failed \cap Range(pom.recorded \o pom.todo) = {}
=============================================================================
