------------------------------ MODULE ProxyServer ------------------------------
(***************************************************************************)
(* The proxy, internal/proxy/server.go: a request goes to the handler of    *)
(* its ecosystem, by the prefix of its path or else by what its headers     *)
(* tell of the client, and that handler filters the versions of a document  *)
(* (MetadataFilter), inspects a POM (PomInspection) or passes the request   *)
(* on to the registry unread.  One request after another, while the policy  *)
(* is reloaded and the mirror changes.                                      *)
(*                                                                         *)
(* A path is the sequence of its segments; only those the code looks for    *)
(* have a name of their own, a file is named by its ending.                 *)
(***************************************************************************)
EXTENDS MetadataFilter, PomInspection

CONSTANTS
    Asks,           \* the requests that arrive
    AdminToken,     \* the token of the configuration, "" when there is none
    Bearers         \* the tokens that callers of the reload endpoint send

Ecosystems == {"go", "npm", "pypi", "maven"}

(***************************************************************************)
(* A request: its path; which ecosystem's client the User-Agent starts      *)
(* with, and those of which, or of Artifactory, a word is anywhere in it;   *)
(* what Accept asks for; whether the query has go-get=1; and the type of    *)
(* repository an Artifactory names.  client and sends are read by the       *)
(* properties only: the ecosystem of who asks, and the path below the base  *)
(* URL that it was configured with.                                         *)
(***************************************************************************)
Ask ==
    [path : Seq(STRING), starts : Ecosystems \cup {"other"},
     says : SUBSET (Ecosystems \cup {"artifactory"}), accept : {"npm", "pypi", "other"},
     goGet : BOOLEAN, repoType : Ecosystems \cup {"other"},
     client : Ecosystems \cup {"other"}, sends : Seq(STRING)]

ASSUME AskAssumption == Asks \subseteq Ask

VARIABLE http   \* the request that is being routed, and what becomes of it

server == <<vars, pom, http>>

NoAsk == [client |-> "none", sends |-> << >>]
Nobody == [ask |-> NoAsk, kind |-> "none"]
NoRequest == [Fresh(CHOOSE k \in AllKinds : TRUE) EXCEPT !.pc = "idle"]

ServerInit == Init /\ PomInit /\ http = Nobody

-----------------------------------------------------------------------------
(* Which handler *)

\* A segment with another after it, and the last one.
In(segment, path) == \E i \in 1..(Len(path) - 1) : path[i] = segment
Ends(path, suffix) == path # << >> /\ path[Len(path)] = suffix

\* ServeHTTP of each handler: what becomes of a path.  "pass" is handed through.
ServeHTTP(ecosystem, path) ==
    CASE ecosystem = "npm" ->
            IF In("-", path) THEN "pass" ELSE "npm"
      [] ecosystem = "pypi" ->
            IF Ends(path, "json") /\ Head(path) = "pypi" THEN "pypi" ELSE "pass"
      [] ecosystem = "go" ->
            IF Ends(path, "list") /\ path[Len(path) - 1] = "@v" THEN "go list"
            ELSE IF Ends(path, "@latest") THEN "go latest"
            ELSE IF Ends(path, ".info") THEN "go info" ELSE "pass"
      [] ecosystem = "maven" ->
            IF Ends(path, "maven-metadata.xml") THEN "maven"
            ELSE IF Ends(path, ".pom") THEN "pom" ELSE "pass"

\* Artifactory without a type of repository: its path must tell.
FromArtifactoryPath(path) ==
    IF In("@v", path) \/ In("@latest", path) \/ Ends(path, "@latest") THEN "go"
    ELSE IF In("simple", path) \/ Ends(path, "json") THEN "pypi"
    ELSE IF In("-", path) THEN "npm"
    ELSE IF Ends(path, "maven-metadata.xml") \/ Ends(path, ".jar") \/ Ends(path, ".pom")
    THEN "maven" ELSE "npm"

\* Mutant of Shows: Accept is not looked at.
ShowsByAgent(ask, ecosystem) ==
    \/ ecosystem \in {ask.starts} \cup ask.says
    \/ ecosystem = "go" /\ ask.goGet

\* A client shows itself as of an ecosystem.
Shows(ask, ecosystem) ==
    \/ ecosystem \in {ask.starts, ask.accept} \cup ask.says
    \/ ecosystem = "go" /\ ask.goGet

\* detectEcosystemFromRequest: the first ecosystem shown, in this order, then what
\* Artifactory says.
DetectionOrder == <<"go", "npm", "pypi", "maven">>
DetectEcosystem(ask) ==
    LET shown == {i \in 1..4 : Shows(ask, DetectionOrder[i])}
    IN  IF shown # {} THEN DetectionOrder[CHOOSE i \in shown : \A j \in shown : i <= j]
        ELSE IF ask.repoType \in Ecosystems THEN ask.repoType
        ELSE IF "artifactory" \in ask.says THEN FromArtifactoryPath(ask.path)
        ELSE "none"

\* The routes of the server: a prefix is taken off; what has no route of its own
\* is left to the detection, and without an ecosystem "/" is the usage page.
Pages == {<<"health">>, <<"policy", "reload">>, <<"api", "decisions">>,
          <<"api", "stats">>, <<"api", "vulndb">>, <<"api", "lookup">>}
Route(ask) ==
    LET path == ask.path
    IN  IF Len(path) > 1 /\ Head(path) \in Ecosystems
        THEN ServeHTTP(Head(path), Tail(path))
        ELSE IF path \in Pages THEN "page"
        ELSE IF DetectEcosystem(ask) # "none" THEN ServeHTTP(DetectEcosystem(ask), path)
        ELSE IF path = << >> THEN "page" ELSE "bad request"

-----------------------------------------------------------------------------
(* The server *)

Resting == http = Nobody /\ pom.pc = "idle" /\ \A q \in Requests : req[q].pc = "idle"
Delivered == pom.answer = "none" /\ \A q \in Requests : req[q].answer = "none"

\* The answer is written, and nothing is kept of the request.
Deliver ==
    /\ Resting /\ ~Delivered
    /\ req' = [q \in Requests |-> NoRequest]
    /\ pom' = NoPom
    /\ UNCHANGED <<policy, flagged, changes, http>>

\* A request arrives and is routed.
Receive(ask) ==
    /\ Resting /\ Delivered
    /\ http' = [ask |-> ask, kind |-> Route(ask)]
    /\ UNCHANGED <<vars, pom>>

\* It is handed to the filter,
Filter(q) ==
    /\ http.kind \in Kinds
    /\ http' = Nobody
    /\ Arrive(q) /\ req'[q].kind = http.kind
    /\ UNCHANGED pom

\* to the inspection of POMs,
Pom(c) ==
    /\ http.kind = "pom"
    /\ http' = Nobody
    /\ PomArrive(c)
    /\ UNCHANGED vars

\* or answered: by the registry, with a page of the proxy, or with an error.
Answer ==
    /\ http.kind \in {"pass", "page", "bad request"}
    /\ http' = Nobody
    /\ UNCHANGED <<vars, pom>>

\* requireAdmin.
Admitted(bearer) == AdminToken = "" \/ bearer = AdminToken

\* POST /policy/reload, on another connection, puts another policy in force; it
\* changes nothing when the caller is not admitted or the reload fails.
HandlePolicyReload(bearer) ==
    /\ Admitted(bearer)
    /\ \E p \in Policies : Reload(p)
    /\ UNCHANGED <<pom, http>>

Work ==
    \/ \E q \in Requests : Filter(q)
    \/ \E c \in Coordinates : Pom(c)
    \/ Answer \/ Deliver
    \/ \E q \in Requests : Handle(q) /\ UNCHANGED <<pom, http>>
    \/ HandlePom /\ UNCHANGED <<vars, http>>

ServerNext ==
    \/ \E ask \in Asks : Receive(ask)
    \/ Work
    \/ \E bearer \in Bearers : HandlePolicyReload(bearer)
    \/ \E v \in Versions : Sync(v) /\ UNCHANGED <<pom, http>>

ServerSpec == ServerInit /\ [][ServerNext]_server /\ WF_server(Work)

-----------------------------------------------------------------------------
(* Properties *)

\* A client that tells what it is (server.go:441-451), set up as the README says
\* (166-209), is served by the handler of its own ecosystem, whether it is told the
\* prefix or the bare address and whatever else its headers mention, and so is an
\* Artifactory (README.md:151-162, 209).
ClientsFindTheirHandler ==
    http.ask.client \in Ecosystems =>
        http.kind = ServeHTTP(http.ask.client, http.ask.sends)

\* The ecosystems that the headers of a request mention.
Mentioned(ask) ==
    Ecosystems \cap ({ask.starts, ask.accept} \cup ask.says \cup {e \in {"go"} : ask.goGet})

\* What a request must tell for that.  With the prefix in the base URL, nothing;
\* without it, the headers mention the client's ecosystem and no other, or none and
\* Artifactory names the type of the repository or the path gives it away, and the
\* path neither starts with a prefix, as a package called "go" does, nor is a page.
ArtifactoryTells(ask) ==
    \/ ask.repoType = ask.client
    \/ /\ ask.repoType = "other" /\ "artifactory" \in ask.says
       /\ FromArtifactoryPath(ask.sends) = ask.client
ClientsTell ==
    \A ask \in Asks : ask.client \in Ecosystems =>
        /\ ask.sends # << >>
        /\ \/ ask.path = <<ask.client>> \o ask.sends
           \/ /\ ask.path = ask.sends
              /\ Head(ask.sends) \notin Ecosystems /\ ask.sends \notin Pages
              /\ \/ Mentioned(ask) = {ask.client}
                 \/ Mentioned(ask) = {} /\ ArtifactoryTells(ask)

\* The document from which a client learns which versions there are.
ListsVersions(client, path) ==
    CASE client = "npm"   -> ~In("-", path)
      [] client = "pypi"  -> In("simple", path) \/ Ends(path, "json")
      [] client = "go"    -> \E end \in {"list", "@latest", ".info"} : Ends(path, end)
      [] client = "maven" -> Ends(path, "maven-metadata.xml")

\* A client "only sees allowed versions" (README.md:70): the list it asks for is
\* never passed on unread.
ListsAreFiltered ==
    http.ask.client \in Ecosystems /\ ListsVersions(http.ask.client, http.ask.sends)
        => http.kind # "pass"

\* Every request is answered: the loops over versions, the walk to the parents of a
\* POM and the references in it come to an end, whatever fails or is reloaded.
RequestsEnd == ~Resting ~> Resting
=============================================================================
