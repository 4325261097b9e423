--------------------------------- MODULE Requests --------------------------------
(***************************************************************************)
(* The way of a request into the node (eggwork-server/src/lib.rs): the     *)
(* policy for its body, decided from its head, the route and the operation *)
(* of its path, the principal of its certificate, the authorization, the   *)
(* handler and what that reads of the body.  Three tables, each matched    *)
(* against the path on its own, decide: request_body_policy, operation_for *)
(* and resource_for_path.  The handlers of requests that name what they    *)
(* are about in the body ask the authorizer once more, about that.         *)
(***************************************************************************)
EXTENDS Integers, Sequences

CONSTANTS
    Methods, RequestPaths,  \* the requests that are made, a path being its segments
    BodyContents,           \* what the bodies of POST requests name, one thing or two
    BlobIds,                \* the segments that are blob digests
    Malformed,              \* the segments that are no identifier
    Certificates,           \* the certificates of callers
    Clients,                \* the clients of the configuration, in its order
    Withheld,               \* the questions an authorizer that minds resources denies
    MAX_REQUEST_BYTES, MAX_BLOB_FIND_REQUEST_BYTES, MAX_WORKSPACE_REQUEST_BYTES,
    MAX_BLOB_BYTES,
    Nothing

ASSUME RequestsAssumption ==
    /\ MAX_REQUEST_BYTES \in Nat /\ MAX_BLOB_FIND_REQUEST_BYTES \in Nat
    /\ MAX_WORKSPACE_REQUEST_BYTES \in Nat /\ MAX_BLOB_BYTES \in Nat
    /\ BlobIds \intersect Malformed = {}
    /\ {"missing", "prepare"} \intersect BlobIds = {}
    /\ Nothing # "body_refused"

VARIABLES
    incoming,   \* the request
    stage,      \* how far it is
    asked,      \* what the authorizer has been asked
    answer      \* what the caller is told

requestVars == <<incoming, stage, asked, answer>>

----------------------------------------------------------------------------
Execution(id) == [kind |-> "execution", id |-> id]
Blob(id) == [kind |-> "blob", id |-> id]
Artifact(id) == [kind |-> "artifact", id |-> id]
Workspace(id) == [kind |-> "workspace", id |-> id]

IsId(segment) == segment \notin Malformed
IsDigest(segment) == segment \in BlobIds

\* An operation, its route, and the resource of the path the route acts on.
Route(operation, route, target) ==
    {[operation |-> operation, route |-> route, target |-> target]}

\* operation_for, one set of routes per arm; a request has at most one.
FixedRoutes(method, path) ==
    CASE method = "GET" /\ path = <<"v1", "capabilities">> ->
            Route("Capabilities", "Capabilities", Nothing)
      [] method = "GET" /\ path = <<"v1", "status">> -> Route("Status", "Status", Nothing)
      [] method = "GET" /\ path = <<"v1", "node", "telemetry">> ->
            Route("Telemetry", "Telemetry", Nothing)
      [] method = "POST" /\ path = <<"v1", "executions">> ->
            Route("Execute", "Execute", Nothing)
      [] method = "POST" /\ path = <<"v1", "blobs", "missing">> ->
            Route("BlobRead", "BlobMissing", Nothing)
      [] method = "POST" /\ path = <<"v1", "blobs", "prepare">> ->
            Route("BlobWrite", "BlobPrepare", Nothing)
      [] method = "POST" /\ path = <<"v1", "workspaces">> ->
            Route("WorkspaceCreate", "WorkspaceCreate", Nothing)
      [] method = "POST" /\ path = <<"v1", "workspaces", "derive">> ->
            Route("WorkspaceCreate", "WorkspaceDerive", Nothing)
      [] OTHER -> {}

\* The last segment of an execution's path.
Below(method, id, last) ==
    CASE method = "POST" /\ last = "cancel" -> Route("Cancel", "Cancel", Execution(id))
      [] method = "POST" /\ last = "renew" -> Route("Renew", "Renew", Execution(id))
      [] method = "GET" /\ last = "events" -> Route("Events", "Events", Execution(id))
      [] method = "GET" /\ last = "artifacts" ->
            Route("ArtifactRead", "ArtifactList", Execution(id))
      [] OTHER -> {}

BlobRoutes(method, id) ==
    CASE method = "PUT" /\ IsDigest(id) -> Route("BlobWrite", "BlobUpload", Blob(id))
      [] method = "GET" /\ IsDigest(id) -> Route("BlobRead", "BlobDownload", Blob(id))
      [] method = "PUT" /\ ~IsDigest(id) -> Route("BlobWrite", "BlobInvalidDigest", Nothing)
      [] method = "GET" /\ ~IsDigest(id) -> Route("BlobRead", "BlobInvalidDigest", Nothing)
      [] OTHER -> {}

operation_for(method, path) ==
    LET under(noun, n) == Len(path) = n /\ path[1] = "v1" /\ path[2] = noun
    IN  CASE FixedRoutes(method, path) # {} -> FixedRoutes(method, path)
          [] under("artifacts", 3) /\ method = "GET" /\ IsId(path[3]) ->
                Route("ArtifactRead", "ArtifactDownload", Artifact(path[3]))
          [] under("executions", 3) /\ method = "GET" /\ IsId(path[3]) ->
                Route("Observe", "Observe", Execution(path[3]))
          [] under("executions", 4) /\ IsId(path[3]) -> Below(method, path[3], path[4])
          [] FixedRoutes(method, path) = {} /\ under("blobs", 3) -> BlobRoutes(method, path[3])
          [] OTHER -> {}

----------------------------------------------------------------------------
Reject == [kind |-> "reject", max |-> 0]
Buffer(max) == [kind |-> "buffer", max |-> max]

\* Mutant of request_body_policy: the route that derives a workspace was added to one
\* table only.
request_body_policy_NoDerive(method, path) ==
    CASE method = "POST" /\ path \in {<<"v1", "blobs", "missing">>, <<"v1", "blobs", "prepare">>} ->
            Buffer(MAX_BLOB_FIND_REQUEST_BYTES)
      [] method = "POST" /\ path = <<"v1", "workspaces">> -> Buffer(MAX_WORKSPACE_REQUEST_BYTES)
      [] method = "PUT" /\ Len(path) = 3 /\ path[2] = "blobs" /\ IsDigest(path[3]) ->
            [kind |-> "stream", max |-> MAX_BLOB_BYTES]
      [] method = "POST" /\ path = <<"v1", "executions">> -> Buffer(MAX_REQUEST_BYTES)
      [] method = "POST" /\ path[Len(path)] \in {"cancel", "renew"} -> Buffer(MAX_REQUEST_BYTES)
      [] OTHER -> Reject

request_body_policy(method, path) ==
    CASE method = "POST" /\ path \in {<<"v1", "blobs", "missing">>, <<"v1", "blobs", "prepare">>} ->
            Buffer(MAX_BLOB_FIND_REQUEST_BYTES)
      [] method = "POST" /\ path \in {<<"v1", "workspaces">>, <<"v1", "workspaces", "derive">>} ->
            Buffer(MAX_WORKSPACE_REQUEST_BYTES)
      [] method = "PUT" /\ Len(path) = 3 /\ path[1] = "v1" /\ path[2] = "blobs"
            /\ IsDigest(path[3]) ->
            [kind |-> "stream", max |-> MAX_BLOB_BYTES]
      [] method = "POST" /\ path = <<"v1", "executions">> -> Buffer(MAX_REQUEST_BYTES)
      [] method = "POST" /\ path[Len(path)] \in {"cancel", "renew"} -> Buffer(MAX_REQUEST_BYTES)
      [] OTHER -> Reject

resource_for_path(operation, path) ==
    CASE operation \in {"Observe", "Cancel", "Renew", "Events"} /\ IsId(path[3]) ->
            Execution(path[3])
      [] operation \in {"BlobRead", "BlobWrite"} /\ IsDigest(path[3]) -> Blob(path[3])
      [] operation = "ArtifactRead" /\ path[2] = "artifacts" /\ IsId(path[3]) ->
            Artifact(path[3])
      [] operation = "ArtifactRead" /\ path[2] # "artifacts" /\ IsId(path[3]) ->
            Execution(path[3])
      [] OTHER -> Nothing

\* What the handler of a route reads of the body.
ReadLimit(route) ==
    CASE route \in {"Execute", "Cancel", "Renew"} -> MAX_REQUEST_BYTES
      [] route \in {"BlobMissing", "BlobPrepare"} -> MAX_BLOB_FIND_REQUEST_BYTES
      [] route \in {"WorkspaceCreate", "WorkspaceDerive"} -> MAX_WORKSPACE_REQUEST_BYTES
      [] route = "BlobUpload" -> MAX_BLOB_BYTES
      [] OTHER -> 0

Optional(id, resource) == IF id = Nothing THEN {} ELSE {resource}

\* What the handler of a route acts on that is named in the body: find_missing,
\* prepare_upload, materialize, materialize_derived, and execute with the row it reserves and
\* the workspace it runs in.
ActsOn(route, body) ==
    CASE route = "BlobMissing" -> {Blob(body.id)} \union Optional(body.more, Blob(body.more))
      [] route = "BlobPrepare" -> {Blob(body.id)}
      [] route \in {"WorkspaceCreate", "WorkspaceDerive"} -> {Workspace(body.id)}
      [] route = "Execute" ->
            {Execution(body.id)} \union Optional(body.more, Workspace(body.more))
      [] OTHER -> {}

\* Mutant of authorize_resource: the workspace of an execution is not asked about.
authorize_resource_NoWorkspace(route, body) ==
    CASE route = "BlobMissing" -> {Blob(body.id)} \union Optional(body.more, Blob(body.more))
      [] route = "BlobPrepare" -> {Blob(body.id)}
      [] route \in {"WorkspaceCreate", "WorkspaceDerive"} -> {Workspace(body.id)}
      [] route = "Execute" -> {Execution(body.id)}
      [] OTHER -> {}

\* The resources the handler of a route asks about, once it has read the body (blob_missing,
\* blob_prepare, workspace_create, workspace_derive, execute).
authorize_resource(route, body) ==
    CASE route = "BlobMissing" -> {Blob(d) : d \in {body.id} \union ({body.more} \ {Nothing})}
      [] route = "BlobPrepare" -> {Blob(body.id)}
      [] route \in {"WorkspaceCreate", "WorkspaceDerive"} -> {Workspace(body.id)}
      [] route = "Execute" ->
            {Execution(body.id)} \union {Workspace(w) : w \in {body.more} \ {Nothing}}
      [] OTHER -> {}

----------------------------------------------------------------------------
\* ServerConfig::principals: the clients by certificate, the grants by principal, of which
\* the last client's stay.
PrincipalOf(certificate) ==
    {Clients[i].principal : i \in {j \in DOMAIN Clients : Clients[j].certificate = certificate}}

Grants(principal) ==
    LET named == {i \in DOMAIN Clients : Clients[i].principal = principal}
    IN  UNION {Clients[i].operations : i \in {j \in named : \A k \in named : k =< j}}

Question(operation, resource) == [operation |-> operation, resource |-> resource]

\* The node's own authorizer goes by the grants alone (GrantAuthorizer).
authorize_request(principal, question) ==
    question.operation \in Grants(principal) /\ question \notin Withheld

RequestInit ==
    /\ incoming \in [method : Methods, path : RequestPaths, peer : Certificates,
                     bytes : 0..MAX_BLOB_BYTES + 1, body : BodyContents \union {Nothing}]
    /\ incoming.method = "GET" => incoming.bytes = 0
    /\ incoming.method = "POST" <=> incoming.body # Nothing
    /\ stage = "head" /\ asked = {} /\ answer = Nothing

End(reply) == stage' = "done" /\ answer' = reply

\* The HTTP server refuses a body the policy has no room for.
ReadHead ==
    /\ stage = "head"
    /\ IF incoming.bytes > request_body_policy(incoming.method, incoming.path).max
       THEN End("body_refused")
       ELSE stage' = "dispatch" /\ UNCHANGED answer
    /\ UNCHANGED <<incoming, asked>>

dispatch ==
    /\ stage = "dispatch"
    /\ LET routes == operation_for(incoming.method, incoming.path)
           principals == PrincipalOf(incoming.peer)
       IN  \/ routes = {} /\ End("not_found") /\ UNCHANGED asked
           \/ routes # {} /\ principals = {} /\ End("unauthenticated") /\ UNCHANGED asked
           \/ \E route \in routes, principal \in principals :
                 LET question == Question(route.operation,
                                          resource_for_path(route.operation, incoming.path))
                 IN  /\ asked' = {question}
                     /\ IF authorize_request(principal, question)
                        THEN stage' = "handle" /\ UNCHANGED answer
                        ELSE End("forbidden")
    /\ UNCHANGED incoming

\* The handler reads the body (read_limited_body, put_stream) and asks about what it names.
Handle ==
    /\ stage = "handle"
    /\ \E route \in operation_for(incoming.method, incoming.path),
          principal \in PrincipalOf(incoming.peer) :
          LET questions == {Question(route.operation, resource) :
                               resource \in authorize_resource(route.route, incoming.body)}
          IN  IF incoming.bytes > ReadLimit(route.route)
              THEN End("body_refused") /\ UNCHANGED asked
              ELSE /\ asked' = asked \union questions
                   /\ End(IF \A q \in questions : authorize_request(principal, q)
                          THEN route.route ELSE "forbidden")
    /\ UNCHANGED incoming

RequestNext == ReadHead \/ dispatch \/ Handle

RequestSpec == RequestInit /\ [][RequestNext]_requestVars

----------------------------------------------------------------------------
\* A request that has a route is refused for its body only when that is larger than the
\* handler of the route reads: the policy that is decided from the head and the limits of
\* the handlers agree on every path (request_body_policy, operation_for).
BodyAdmitted ==
    answer = "body_refused" =>
        \A route \in operation_for(incoming.method, incoming.path) :
            incoming.bytes > ReadLimit(route.route)

\* Whatever a handler goes on to act on, be it named in the path or in the body, the
\* authorizer has been asked about, for the operation of the route (operation_for,
\* resource_for_path, authorize_resource).  The blobs of a manifest are not asked about.
AskedAboutTarget ==
    answer # Nothing =>
        \A route \in operation_for(incoming.method, incoming.path) :
            answer = route.route =>
                \A resource \in ActsOn(route.route, incoming.body)
                                \union Optional(route.target, route.target) :
                    Question(route.operation, resource) \in asked
=================================================================================
