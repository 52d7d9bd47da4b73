----------------------------- MODULE MCProxyServer -----------------------------
(***************************************************************************)
(* Instances of ProxyServer for TLC: the versions 1.2.0, 1.2.1 and 2.0.1 of *)
(* a package, and what the rules of Rewrite make of them; six POMs; and the *)
(* requests of the package managers that the README tells how to set up.    *)
(***************************************************************************)
EXTENDS ProxyServer, TLC

CONSTANTS q1

OneRequest == {q1}
OneTag == {"latest"}

\* "strict" denies what has a known vulnerability; "odd" denies version 1 and
\* cannot evaluate version 2.
MCPolicies == {"strict", "odd"}
MCVerdict ==
    "strict" :> [v \in Versions |-> (TRUE :> "deny" @@ FALSE :> "allow")] @@
    "odd"    :> [v \in Versions |-> [k \in BOOLEAN |->
                    CASE v = 1 -> "deny" [] v = 2 -> "error" [] OTHER -> "allow"]]

-----------------------------------------------------------------------------
(* Rewriting *)

Rewriting == INSTANCE Rewrite WITH Numbers <- 0..2

Listed == <<[v |-> FALSE, nums |-> <<1, 2, 0>>, suffix |-> ""],
            [v |-> FALSE, nums |-> <<1, 2, 1>>, suffix |-> ""],
            [v |-> FALSE, nums |-> <<2, 0, 1>>, suffix |-> ""]>>

Rule(texts, strategy, mode) ==
    [ecosystems |-> {"npm"}, names |-> {"a"}, versions |-> texts, rename |-> "",
     strategy |-> strategy, target |-> Rewriting!Junk, mode |-> mode]

\* Versions of major 2 snap to their major, others to their minor: 1.2.1 is
\* rewritten to 1.2.0, and 2.0.1 to 2.0.0, which the registry does not have.
SnapRules ==
    <<Rule({text \in Rewriting!Texts("npm") : Rewriting!Num(text, 1) = 2},
           "nearest-major", "redirect"),
      Rule(Rewriting!Texts("npm"), "nearest-minor", "transparent")>>

Rewritten(v) == Rewriting!Apply(SnapRules, "npm", "a", Listed[v])

\* Where a version goes among those listed.
Place(text) == IF \E w \in Versions : Listed[w] = text
               THEN CHOOSE w \in Versions : Listed[w] = text ELSE 0
MCTarget == [v \in Versions |-> Place(Rewritten(v).version)]
MCRedirects == {v \in Versions : Rewritten(v).mode = "redirect"}

-----------------------------------------------------------------------------
(* POMs *)

MCKeys == ImplicitKeys \cup {"x", "y", "z"}
MCLiterals == {"1", "2", "g"}

Dep(group, version) == [group |-> group, artifact |-> <<"g">>, version |-> version]
Project(parent, parentVersion, own, properties, dependencies, managed) ==
    [parent |-> parent, parentVersion |-> parentVersion, own |-> own,
     properties |-> properties, dependencies |-> dependencies, managed |-> managed]

\* app has three ancestors, of which two are fetched: mid and top both define y,
\* and z is base's.  loop is its own parent and its properties refer to each other;
\* the parent of odd has no version.
MCRegistry ==
    "app" :> Project("mid", <<"2">>, "project.artifactId" :> <<"g">>, "x" :> <<"y">>,
                     <<Dep(<<"g">>, <<"x">>), Dep(<<"project.groupId">>, <<"project.version">>),
                       Dep(<<"g">>, <<"z">>), Dep(<<"g">>, << >>)>>,
                     <<Dep(<<"project.artifactId">>, <<"1">>), Dep(<<"g">>, <<"1", "y">>)>>) @@
    "mid" :> Project("top", <<"1">>, "project.version" :> <<"2">>, "y" :> <<"1">>,
                     <<Dep(<<"g">>, <<"z">>), Dep(<<"g">>, <<"x">>)>>, << >>) @@
    "top" :> Project("base", <<"1">>, "project.version" :> <<"1">>,
                     "y" :> <<"2">> @@ "x" :> <<"2">>, <<Dep(<<"g">>, <<"z">>)>>, << >>) @@
    "base" :> Project("none", << >>, NoEntries, "z" :> <<"1", "y">>,
                      <<Dep(<<"g">>, <<"z">>)>>, << >>) @@
    "loop" :> Project("loop", <<"1">>, NoEntries, "x" :> <<"y">> @@ "y" :> <<"x">>,
                      <<Dep(<<"g">>, <<"x">>), Dep(<<"g">>, <<"1", "project.version">>)>>, << >>) @@
    "odd" :> Project("incomplete", << >>, "project.groupId" :> <<"g">>, NoEntries,
                     <<Dep(<<"project.groupId">>, <<"project.version">>), Dep(<<"g">>, <<"1">>)>>,
                     <<Dep(<<"project.groupId">>, <<"1">>)>>)
MCCoordinates == DOMAIN MCRegistry

-----------------------------------------------------------------------------
(* Requests *)

\* What the clients of an ecosystem ask for below their base URL.
Paths ==
    "npm"   :> {<<"name">>, <<"scope", "name">>, <<"name", "-", ".tgz">>} @@
    "pypi"  :> {<<"simple", "name", "">>} @@
    "go"    :> {<<"name", "@v", "list">>, <<"name", "@latest">>, <<"name", "@v", ".info">>,
                <<"name", "@v", ".zip">>} @@
    "maven" :> {<<"group", "name", "maven-metadata.xml">>, <<"group", "name", "1", ".pom">>,
                <<"group", "name", "1", ".jar">>}

Headers(starts, says, accept, goGet, repoType) ==
    [starts |-> starts, says |-> says, accept |-> accept, goGet |-> goGet, repoType |-> repoType]

\* npm/ says npm and node, bun/ neither; pip/ says CPython, uv/ does not; other
\* installers are known by the form of the index they accept.
Agents ==
    "npm"   :> {Headers("npm", says, "other", FALSE, "other") : says \in {{"npm"}, {}}} @@
    "pypi"  :> {Headers("pypi", {"pypi"}, "other", FALSE, "other"),
                Headers("pypi", {}, "pypi", FALSE, "other"),
                Headers("other", {}, "pypi", FALSE, "other")} @@
    "go"    :> {Headers("other", {"go"}, "other", goGet, "other") : goGet \in BOOLEAN} @@
    "maven" :> {Headers("maven", says, "other", FALSE, "other") : says \in {{"maven"}, {}}}

\* With or without the type of its repository.
Artifactory(ecosystem) == Headers("other", {"artifactory"}, "other", FALSE, ecosystem)

\* A request of client, with the prefix in its base URL or without.
Sent(client, base, path, headers) ==
    [path |-> base \o path, client |-> client, sends |-> path, starts |-> headers.starts,
     says |-> headers.says, accept |-> headers.accept, goGet |-> headers.goGet,
     repoType |-> headers.repoType]

ClientAsks == UNION {UNION {UNION {
    {Sent(e, base, path, headers) : base \in {<< >>, <<e>>}} :
        path \in Paths[e]} : headers \in Agents[e] \cup {Artifactory(e), Artifactory("other")}} :
        e \in Ecosystems}

\* The endpoints that the usage page names, and what no client is known by.
OtherAsks ==
    {Sent("pypi", <<"pypi">>, <<"pypi", "name", "json">>, Headers("other", {}, "other", FALSE, "other"))}
    \cup {Sent("other", << >>, path, Headers("other", says, "other", FALSE, "other")) :
            path \in {<< >>, <<"health">>, <<"api", "lookup">>, <<"name", "1", ".pom">>},
            says \in {{}, {"artifactory"}}}

MCAsks == ClientAsks \cup OtherAsks
\* Each of them tells its ecosystem.
ASSUME MCClientsTell == ClientsTell

\* What pip asks for, as the README sets it up.
OnePip == {Sent("pypi", <<"pypi">>, path, Headers("pypi", {"pypi"}, "other", FALSE, "other")) :
            path \in Paths["pypi"]}
=============================================================================
