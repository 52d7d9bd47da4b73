---------------------------- MODULE MetadataFilter ----------------------------
(***************************************************************************)
(* The metadata handlers of the proxy, internal/handler/{npm,pypi,gomod,    *)
(* maven}: fetch a document from the registry, evaluate its versions one by *)
(* one, answer with those the policy allows.  Meanwhile the policy may be   *)
(* reloaded (PolicyEngine, whose lock makes an evaluation one step) and the *)
(* mirror may change what is known of a version (OsvSync).                  *)
(*                                                                         *)
(* Versions are numbered in the order of the registry's list; 0 stands for  *)
(* "no version": a tag that is absent or cleared, or a rewrite's target     *)
(* that the registry does not have.                                         *)
(***************************************************************************)
EXTENDS Integers

CONSTANTS
    NumVersions,    \* versions of the package
    Tags,           \* dist-tags (npm), info.version (PyPI), latest and release (Maven)
    Policies,       \* policies that may be in force
    Verdict,        \* Verdict[p][v][k]: p on v, k = a vulnerability of v is known
    Target,         \* Target[v]: the version rewrite.Engine.Apply gives for v
    Redirects,      \* the versions whose rule has mode redirect
    Requests,       \* requests the server handles at a time
    Kinds,          \* kinds of request that arrive
    MaxChanges      \* bound: policy reloads and changes of the mirror

Versions == 1..NumVersions
AllKinds == {"npm", "pypi", "maven", "go list", "go latest", "go info"}

\* Kinds whose document lists versions, and among them those that walk a Go map.
ListKinds == {"npm", "pypi", "maven", "go list"}
MapKinds == {"npm", "pypi"}

ASSUME VersionAssumption == NumVersions \in Nat
ASSUME PolicyAssumption ==
    /\ Policies # {}
    /\ Verdict \in [Policies -> [Versions -> [BOOLEAN -> {"allow", "deny", "error"}]]]
ASSUME RewriteAssumption ==
    /\ Target \in [Versions -> Versions \cup {0}]
    /\ Redirects \subseteq Versions
ASSUME KindAssumption == Kinds \subseteq AllKinds /\ MaxChanges \in Nat

VARIABLES
    policy,     \* the policy in force
    flagged,    \* the versions the mirror knows a vulnerability of
    changes,    \* how often either has changed
    req         \* what each request holds

vars == <<policy, flagged, changes, req>>

(***************************************************************************)
(* A request: where it is and what it asks for; the versions the registry   *)
(* listed and its tags; the tags it answers with (given); the versions it   *)
(* has yet to visit (todo), keeps and has removed; the version under         *)
(* evaluation (asked) and whether a vulnerability was found for it; its     *)
(* entries in the decision log; and its answer.  Two fields only the        *)
(* properties read: the policies that have been in force during the         *)
(* request, and the versions that may have been evaluated as clean, because *)
(* they were once or because the lookup failed.                             *)
(***************************************************************************)
Request ==
    [pc : {"idle", "fetch", "visit", "eval"}, kind : AllKinds,
     listed : SUBSET Versions,
     tags : [Tags -> Versions \cup {0}], given : [Tags -> Versions \cup {0}],
     todo : SUBSET Versions, kept : SUBSET Versions, removed : SUBSET Versions,
     asked : Versions \cup {0}, known : BOOLEAN,
     recorded : SUBSET (Versions \X BOOLEAN),
     answer : {"none", "ok", "as is", "denied", "redirect", "error"},
     inForce : SUBSET Policies, clean : SUBSET Versions]

NoTags == [t \in Tags |-> 0]
Fresh(kind) ==
    [pc |-> "fetch", kind |-> kind, listed |-> {}, tags |-> NoTags, given |-> NoTags,
     todo |-> {}, kept |-> {}, removed |-> {}, asked |-> 0, known |-> FALSE,
     recorded |-> {}, answer |-> "none", inForce |-> {policy},
     clean |-> Versions \ flagged]

Init ==
    /\ policy \in Policies
    /\ flagged \in SUBSET Versions
    /\ changes = 0
    /\ req = [q \in Requests |-> [Fresh(CHOOSE k \in AllKinds : TRUE) EXCEPT !.pc = "idle"]]

Put(q, new) == req' = [req EXCEPT ![q] = new] /\ UNCHANGED <<policy, flagged, changes>>
Answered(r, answer) == [r EXCEPT !.pc = "idle", !.answer = answer]

-----------------------------------------------------------------------------
(* Around the handlers *)

\* A reload puts another policy in force.
Reload(p) ==
    /\ changes < MaxChanges
    /\ changes' = changes + 1
    /\ policy' = p
    /\ req' = [q \in Requests |-> [req[q] EXCEPT !.inForce = @ \cup {p}]]
    /\ UNCHANGED flagged

\* The mirror stores or drops a vulnerability of v.
Sync(v) ==
    /\ changes < MaxChanges
    /\ changes' = changes + 1
    /\ IF v \in flagged
       THEN /\ flagged' = flagged \ {v}
            /\ req' = [q \in Requests |-> [req[q] EXCEPT !.clean = @ \cup {v}]]
       ELSE /\ flagged' = flagged \cup {v}
            /\ UNCHANGED req
    /\ UNCHANGED policy

-----------------------------------------------------------------------------
(* A request *)

\* A request arrives.  One for the .info of a version is rewritten at once,
\* without looking whether the registry has the target.
Arrive(q) ==
    /\ req[q].pc = "idle"
    /\ \/ \E kind \in Kinds \ {"go info"} : Put(q, Fresh(kind))
       \/ /\ "go info" \in Kinds
          /\ \E v \in Versions :
                LET new == [Fresh("go info") EXCEPT !.asked = Target[v]]
                IN  Put(q, IF Target[v] # v /\ v \in Redirects
                           THEN Answered(new, "redirect") ELSE new)

\* The versions a rule maps to another version of the same list.
RewrittenAway(listed) == {v \in listed : Target[v] # v /\ Target[v] \in listed}

\* The handlers of lists skip those versions; the others look as they go.
ToVisit(kind, listed) == IF kind \in MapKinds THEN listed ELSE listed \ RewrittenAway(listed)

\* The registry does not answer, or the body cannot be read or parsed.
FetchFails(q) ==
    /\ req[q].pc = "fetch"
    /\ Put(q, Answered(req[q], "error"))

\* Another status than 200, or a document without versions, is passed on.
FetchAsIs(q) ==
    /\ req[q].pc = "fetch"
    /\ Put(q, Answered(req[q], "as is"))

FetchList(q) ==
    /\ req[q].pc = "fetch"
    /\ req[q].kind \in ListKinds
    /\ \E listed \in SUBSET Versions : \E tags \in [Tags -> listed \cup {0}] :
        /\ req[q].kind = "maven" => listed # {}
        /\ req[q].kind = "go list" => tags = NoTags
        /\ Put(q, [req[q] EXCEPT !.pc = "visit", !.listed = listed, !.tags = tags,
                              !.todo = ToVisit(req[q].kind, listed)])

\* @latest and .info name one version; the proxy itself chose it for .info.
FetchOne(q) ==
    /\ req[q].pc = "fetch"
    /\ req[q].kind \notin ListKinds
    /\ \E v \in Versions :
        /\ req[q].kind = "go info" => v = req[q].asked
        /\ Put(q, [req[q] EXCEPT !.pc = "visit", !.listed = {v}, !.todo = {v}])

\* The versions the loop may come to next: any of a map, the first of a list.
NextVersions(r) == {v \in r.todo : r.kind \in MapKinds \/ \A w \in r.todo : v <= w}

\* Mutant of Skips: only a target that was visited before is looked for.
SkipsVisited(r, v) == r.kind \in MapKinds /\ Target[v] # v /\ Target[v] \in r.kept

\* npm and PyPI: a version is removed when its target is still in the document.
Skips(r, v) == r.kind \in MapKinds /\ Target[v] # v /\ Target[v] \in r.listed \ r.removed

Remove(q) ==
    /\ req[q].pc = "visit"
    /\ \E v \in NextVersions(req[q]) :
        /\ Skips(req[q], v)
        /\ Put(q, [req[q] EXCEPT !.todo = @ \ {v}, !.removed = @ \cup {v}])

\* EvaluateVersion looks vulnerabilities up; when that fails it goes on with none.
Lookup(q) ==
    /\ req[q].pc = "visit"
    /\ \E v \in NextVersions(req[q]) :
        /\ ~Skips(req[q], v)
        /\ LET looked == [req[q] EXCEPT !.pc = "eval", !.asked = v, !.todo = @ \ {v}]
           IN  \/ Put(q, [looked EXCEPT !.known = v \in flagged])
               \/ Put(q, [looked EXCEPT !.known = FALSE, !.clean = @ \cup {v}])

\* The policy's verdict on the version looked up.
Decision(r) == Verdict[policy][r.asked][r.known]

\* Mutant of Decided: denied versions stay in the document.
DecidedKeeping(r) ==
    LET v == r.asked
    IN  [r EXCEPT !.pc = "visit", !.kept = @ \cup {v},
                  !.recorded = @ \cup {<<v, Decision(r) = "allow">>}]

\* A verdict is recorded, and the version kept or removed.
Decided(r) ==
    LET v == r.asked
    IN  IF Decision(r) = "allow"
        THEN [r EXCEPT !.pc = "visit", !.kept = @ \cup {v}, !.recorded = @ \cup {<<v, TRUE>>}]
        ELSE [r EXCEPT !.pc = "visit", !.removed = @ \cup {v}, !.recorded = @ \cup {<<v, FALSE>>}]

\* Mutant of Evaluate: a version whose evaluation fails is kept.
EvaluateOpen(q) ==
    /\ req[q].pc = "eval"
    /\ Put(q, IF Decision(req[q]) # "error" THEN Decided(req[q])
              ELSE [req[q] EXCEPT !.pc = "visit", !.kept = @ \cup {req[q].asked}])

\* Mutant of Evaluate: a version whose evaluation fails is evaluated again.
EvaluateAgain(q) ==
    /\ req[q].pc = "eval"
    /\ Put(q, IF Decision(req[q]) # "error" THEN Decided(req[q])
              ELSE [req[q] EXCEPT !.pc = "visit", !.todo = @ \cup {req[q].asked}])

\* An evaluation that fails is not recorded: the Go list leaves the version out,
\* the others answer with an error.
Evaluate(q) ==
    /\ req[q].pc = "eval"
    /\ Put(q, IF Decision(req[q]) # "error" THEN Decided(req[q])
              ELSE IF req[q].kind = "go list" THEN [req[q] EXCEPT !.pc = "visit"]
              ELSE Answered(req[q], "error"))

\* Mutant of CleanTags: Maven's latest and release are left alone like others.
CleanTagsAlike(r, last) ==
    [t \in Tags |-> IF r.tags[t] \in r.removed THEN 0 ELSE r.tags[t]]

\* Mutant of CleanTags: the index of the last version is off by one.
CleanTagsPastLast(r, last) ==
    IF r.kind = "maven"
    THEN [t \in Tags |-> IF r.tags[t] = 0 THEN 0 ELSE last + 1]
    ELSE [t \in Tags |-> IF r.tags[t] \in r.removed THEN 0 ELSE r.tags[t]]

\* cleanDistTags; info.version; latest and release of Maven, which move to the
\* last version kept when they had a value.
CleanTags(r, last) ==
    IF r.kind = "maven"
    THEN [t \in Tags |-> IF r.tags[t] = 0 THEN 0 ELSE last]
    ELSE [t \in Tags |-> IF r.tags[t] \in r.removed THEN 0 ELSE r.tags[t]]

LastKept(r) == {v \in r.kept \cup {0} : \A w \in r.kept : w <= v}

\* The loop is over and the document written; @latest and .info of a denied
\* version are answered with 404.
Finish(q) ==
    /\ req[q].pc = "visit"
    /\ req[q].todo = {}
    /\ \E last \in LastKept(req[q]) :
        Put(q, IF req[q].kind \notin ListKinds /\ req[q].kept = {}
               THEN Answered(req[q], "denied")
               ELSE Answered([req[q] EXCEPT !.given = CleanTags(req[q], last)], "ok"))

Handle(q) ==
    \/ FetchFails(q) \/ FetchAsIs(q) \/ FetchList(q) \/ FetchOne(q)
    \/ Remove(q) \/ Lookup(q) \/ Evaluate(q) \/ Finish(q)

Next ==
    \/ \E p \in Policies : Reload(p)
    \/ \E v \in Versions : Sync(v)
    \/ \E q \in Requests : Arrive(q) \/ Handle(q)

Spec == Init /\ [][Next]_vars

-----------------------------------------------------------------------------
(* Properties *)

TypeOK ==
    /\ policy \in Policies
    /\ flagged \subseteq Versions
    /\ changes \in Nat
    /\ req \in [Requests -> Request]

Ok(q) == req[q].answer = "ok"

\* p allows v with the vulnerabilities known of it, or without any when they may
\* not have been seen.
Allows(p, v, r) ==
    \/ Verdict[p][v][TRUE] = "allow"
    \/ v \in r.clean /\ Verdict[p][v][FALSE] = "allow"

\* Every version a client is given was allowed by a policy that was in force
\* while its request was handled, on what could be known of the version then: a
\* version that every one of them denies, or cannot evaluate, is not served,
\* whatever is reloaded or synced meanwhile and whatever was rewritten.
ServedWasAllowed ==
    \A q \in Requests : Ok(q) =>
        \A v \in req[q].kept : \E p \in req[q].inForce : Allows(p, v, req[q])

\* An answer holds together: its tags point at versions it serves, also when a
\* version was removed for being rewritten or denied after others were kept.
TagsAreServed ==
    \A q \in Requests : Ok(q) =>
        \A t \in Tags : req[q].given[t] # 0 => req[q].given[t] \in req[q].kept

\* Recent Decisions is the "list of every package version evaluated"
\* (README.md:273): of an answered list, each version is served just when its
\* allowance was recorded, and one without an entry was rewritten or failed.
RecordMatchesAnswer ==
    \A q \in Requests : Ok(q) => \A v \in req[q].listed :
        /\ v \in req[q].kept <=> <<v, TRUE>> \in req[q].recorded
        /\ ~(<<v, TRUE>> \in req[q].recorded /\ <<v, FALSE>> \in req[q].recorded)
        /\ \/ \E allowed \in BOOLEAN : <<v, allowed>> \in req[q].recorded
           \/ Target[v] # v
           \/ req[q].kind = "go list" /\
                \E p \in req[q].inForce : \E k \in BOOLEAN : Verdict[p][v][k] = "error"

\* A version and the one a rule rewrites it to are never offered together,
\* although npm and PyPI remove versions while they walk the document.
TargetReplacesSource ==
    \A q \in Requests : Ok(q) =>
        \A v \in req[q].kept : Target[v] = v \/ Target[v] \notin req[q].kept
=============================================================================
