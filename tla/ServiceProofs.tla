------------------------------ MODULE ServiceProofs -----------------------------
(***************************************************************************)
(* Proofs about the parts of the node that stand around the executions.    *)
(*                                                                         *)
(* NodeClient, for every set of calls, clients and identifiers, every      *)
(* build of the node and whatever other clients do: the tables a request   *)
(* goes through agree, every call finds the route it stands for, and what  *)
(* a call returns is true.                                                 *)
(*                                                                         *)
(* The telemetry of the node, for every interval, bound and clock skew;    *)
(* its deployment, for any number of execute requests and starts of the    *)
(* daemon; and the capture of an output stream, for every limit and every  *)
(* way the stream is cut into pieces.                                      *)
(***************************************************************************)
EXTENDS NodeClient, Telemetry, Deployment, OutputCapture, TLAPS

-----------------------------------------------------------------------------
(* Requests and the client.                                                  *)

Goes(r, operation, route, target) ==
    r.operation = operation /\ r.route = route /\ r.target = target

\* A route has the fields it is made of.
LEMMA RouteFields ==
    ASSUME NEW operation, NEW route, NEW target, NEW r \in Route(operation, route, target)
    PROVE  Goes(r, operation, route, target)
BY DEF Route, Goes

\* The routes whose paths are fixed.
LEMMA FixedCases ==
    ASSUME NEW method, NEW path, NEW r \in FixedRoutes(method, path)
    PROVE  \/ /\ method = "GET" /\ path = <<"v1", "capabilities">>
              /\ Goes(r, "Capabilities", "Capabilities", Nothing)
           \/ /\ method = "GET" /\ path = <<"v1", "status">>
              /\ Goes(r, "Status", "Status", Nothing)
           \/ /\ method = "GET" /\ path = <<"v1", "node", "telemetry">>
              /\ Goes(r, "Telemetry", "Telemetry", Nothing)
           \/ /\ method = "POST" /\ path = <<"v1", "executions">>
              /\ Goes(r, "Execute", "Execute", Nothing)
           \/ /\ method = "POST" /\ path = <<"v1", "blobs", "missing">>
              /\ Goes(r, "BlobRead", "BlobMissing", Nothing)
           \/ /\ method = "POST" /\ path = <<"v1", "blobs", "prepare">>
              /\ Goes(r, "BlobWrite", "BlobPrepare", Nothing)
           \/ /\ method = "POST" /\ path = <<"v1", "workspaces">>
              /\ Goes(r, "WorkspaceCreate", "WorkspaceCreate", Nothing)
           \/ /\ method = "POST" /\ path = <<"v1", "workspaces", "derive">>
              /\ Goes(r, "WorkspaceCreate", "WorkspaceDerive", Nothing)
BY ZenonT(30), RouteFields DEF FixedRoutes

\* Such a path does not look like that of another route.
LEMMA FixedShape ==
    ASSUME NEW method, NEW path, FixedRoutes(method, path) # {}
    PROVE  Len(path) # 4 /\ (Len(path) = 3 => path[2] \notin {"artifacts", "executions"})
<1>1. PICK q : q \in FixedRoutes(method, path)
  OBVIOUS
<1>2. path \in {<<"v1", "capabilities">>, <<"v1", "status">>, <<"v1", "node", "telemetry">>, <<"v1", "executions">>,
               <<"v1", "blobs", "missing">>, <<"v1", "blobs", "prepare">>, <<"v1", "workspaces">>,
               <<"v1", "workspaces", "derive">>}
  BY ZenonT(30), <1>1, FixedCases
<1>3. \A b : Len(<<"v1", b>>) = 2
  OBVIOUS
<1>4. \A b, c : Len(<<"v1", b, c>>) = 3 /\ <<"v1", b, c>>[2] = b
  OBVIOUS
<1> QED
  BY <1>2, <1>3, <1>4

\* So it has no other route.
LEMMA FixedAlone ==
    ASSUME NEW method, NEW path, FixedRoutes(method, path) # {}
    PROVE  operation_for(method, path) = FixedRoutes(method, path)
<1>1. Len(path) # 4 /\ (Len(path) = 3 => path[2] \notin {"artifacts", "executions"})
  BY Zenon, FixedShape
<1> QED
  BY ZenonT(30), <1>1 DEF operation_for

\* Those with an identifier in their path.
LEMMA NamedCases ==
    ASSUME NEW method, NEW path, NEW r \in operation_for(method, path), FixedRoutes(method, path) = {}
    PROVE  /\ path[1] = "v1"
           /\ \/ /\ method = "GET" /\ Len(path) = 3 /\ path[2] = "artifacts" /\ IsId(path[3])
                 /\ Goes(r, "ArtifactRead", "ArtifactDownload", Artifact(path[3]))
              \/ /\ method = "GET" /\ Len(path) = 3 /\ path[2] = "executions" /\ IsId(path[3])
                 /\ Goes(r, "Observe", "Observe", Execution(path[3]))
              \/ /\ Len(path) = 4 /\ path[2] = "executions" /\ IsId(path[3])
                 /\ \/ method = "POST" /\ path[4] = "cancel" /\ Goes(r, "Cancel", "Cancel", Execution(path[3]))
                    \/ method = "POST" /\ path[4] = "renew" /\ Goes(r, "Renew", "Renew", Execution(path[3]))
                    \/ method = "GET" /\ path[4] = "events" /\ Goes(r, "Events", "Events", Execution(path[3]))
                    \/ /\ method = "GET" /\ path[4] = "artifacts"
                       /\ Goes(r, "ArtifactRead", "ArtifactList", Execution(path[3]))
              \/ /\ Len(path) = 3 /\ path[2] = "blobs"
                 /\ \/ method = "PUT" /\ IsDigest(path[3]) /\ Goes(r, "BlobWrite", "BlobUpload", Blob(path[3]))
                    \/ method = "GET" /\ IsDigest(path[3]) /\ Goes(r, "BlobRead", "BlobDownload", Blob(path[3]))
                    \/ method = "PUT" /\ ~IsDigest(path[3]) /\ Goes(r, "BlobWrite", "BlobInvalidDigest", Nothing)
                    \/ method = "GET" /\ ~IsDigest(path[3]) /\ Goes(r, "BlobRead", "BlobInvalidDigest", Nothing)
<1>1. \A last : \A q \in Below(method, path[3], last) :
        \/ method = "POST" /\ last = "cancel" /\ Goes(q, "Cancel", "Cancel", Execution(path[3]))
        \/ method = "POST" /\ last = "renew" /\ Goes(q, "Renew", "Renew", Execution(path[3]))
        \/ method = "GET" /\ last = "events" /\ Goes(q, "Events", "Events", Execution(path[3]))
        \/ method = "GET" /\ last = "artifacts" /\ Goes(q, "ArtifactRead", "ArtifactList", Execution(path[3]))
  BY ZenonT(30), RouteFields DEF Below
<1>2. \A q \in BlobRoutes(method, path[3]) :
        \/ method = "PUT" /\ IsDigest(path[3]) /\ Goes(q, "BlobWrite", "BlobUpload", Blob(path[3]))
        \/ method = "GET" /\ IsDigest(path[3]) /\ Goes(q, "BlobRead", "BlobDownload", Blob(path[3]))
        \/ method = "PUT" /\ ~IsDigest(path[3]) /\ Goes(q, "BlobWrite", "BlobInvalidDigest", Nothing)
        \/ method = "GET" /\ ~IsDigest(path[3]) /\ Goes(q, "BlobRead", "BlobInvalidDigest", Nothing)
  BY ZenonT(30), RouteFields DEF BlobRoutes
<1> QED
  BY ZenonT(30), <1>1, <1>2, RouteFields DEF operation_for

\* A policy has a bound.
LEMMA PolicyBound == ASSUME NEW method, NEW path PROVE request_body_policy(method, path).max \in Nat
<1>1. \A n : Buffer(n).max = n
  BY DEF Buffer
<1>2. Reject.max \in Nat
  BY DEF Reject
<1>3. [kind |-> "stream", max |-> MAX_BLOB_BYTES].max = MAX_BLOB_BYTES
  OBVIOUS
<1> QED
  BY ZenonT(30), <1>1, <1>2, <1>3, RequestsAssumption DEF request_body_policy

\* The policy for the fixed paths with a body, and for the others.
LEMMA PolicyCases ==
    /\ \A last \in {"missing", "prepare"} :
          request_body_policy("POST", <<"v1", "blobs", last>>) = Buffer(MAX_BLOB_FIND_REQUEST_BYTES)
    /\ request_body_policy("POST", <<"v1", "workspaces">>) = Buffer(MAX_WORKSPACE_REQUEST_BYTES)
    /\ request_body_policy("POST", <<"v1", "workspaces", "derive">>) = Buffer(MAX_WORKSPACE_REQUEST_BYTES)
    /\ request_body_policy("POST", <<"v1", "executions">>) = Buffer(MAX_REQUEST_BYTES)
    /\ \A path : Len(path) = 4 /\ path[4] \in {"cancel", "renew"} =>
          request_body_policy("POST", path) = Buffer(MAX_REQUEST_BYTES)
    /\ \A path : Len(path) = 3 /\ path[1] = "v1" /\ path[2] = "blobs" /\ IsDigest(path[3]) =>
          request_body_policy("PUT", path) = [kind |-> "stream", max |-> MAX_BLOB_BYTES]
<1>1. \A last \in {"missing", "prepare"} :
         request_body_policy("POST", <<"v1", "blobs", last>>) = Buffer(MAX_BLOB_FIND_REQUEST_BYTES)
  <2>1. \A last \in {"missing", "prepare"} :
          LET path == <<"v1", "blobs", last>>
          IN /\ path \in {<<"v1", "blobs", "missing">>, <<"v1", "blobs", "prepare">>}
             /\ path[Len(path)] \notin {"cancel", "renew"}
    OBVIOUS
  <2> QED
    BY ZenonT(30), <2>1 DEF request_body_policy
<1>2. /\ request_body_policy("POST", <<"v1", "workspaces">>) = Buffer(MAX_WORKSPACE_REQUEST_BYTES)
      /\ request_body_policy("POST", <<"v1", "workspaces", "derive">>) = Buffer(MAX_WORKSPACE_REQUEST_BYTES)
      /\ request_body_policy("POST", <<"v1", "executions">>) = Buffer(MAX_REQUEST_BYTES)
  BY ZenonT(30) DEF request_body_policy
<1>3. ASSUME NEW path, Len(path) = 4, path[4] \in {"cancel", "renew"}
      PROVE  request_body_policy("POST", path) = Buffer(MAX_REQUEST_BYTES)
  <2>1. /\ path \notin {<<"v1", "blobs", "missing">>, <<"v1", "blobs", "prepare">>}
        /\ path \notin {<<"v1", "workspaces">>, <<"v1", "workspaces", "derive">>}
        /\ path # <<"v1", "executions">>
        /\ path[Len(path)] \in {"cancel", "renew"}
    <3>1. \A b, c : Len(<<"v1", b>>) = 2 /\ Len(<<"v1", b, c>>) = 3
      OBVIOUS
    <3>2. Len(path) # 2 /\ Len(path) # 3
      BY <1>3
    <3> QED
      BY Zenon, <1>3, <3>1, <3>2
  <2> QED
    BY ZenonT(30), <2>1 DEF request_body_policy
<1>4. \A path : Len(path) = 3 /\ path[1] = "v1" /\ path[2] = "blobs" /\ IsDigest(path[3]) =>
          request_body_policy("PUT", path) = [kind |-> "stream", max |-> MAX_BLOB_BYTES]
  BY ZenonT(30) DEF request_body_policy
<1> QED
  BY Zenon, <1>1, <1>2, <1>3, <1>4

\* What the handlers read.
LEMMA ReadLimits ==
    /\ \A route \in {"Execute", "Cancel", "Renew"} : ReadLimit(route) = MAX_REQUEST_BYTES
    /\ \A route \in {"BlobMissing", "BlobPrepare"} : ReadLimit(route) = MAX_BLOB_FIND_REQUEST_BYTES
    /\ \A route \in {"WorkspaceCreate", "WorkspaceDerive"} : ReadLimit(route) = MAX_WORKSPACE_REQUEST_BYTES
    /\ ReadLimit("BlobUpload") = MAX_BLOB_BYTES
    /\ \A route \in {"Capabilities", "Status", "Telemetry", "ArtifactDownload", "Observe", "Events",
                      "ArtifactList", "BlobDownload", "BlobInvalidDigest"} : ReadLimit(route) = 0
BY ZenonT(30) DEF ReadLimit

\* The policy of the head has room for what the handler reads.
LEMMA PolicyHasRoom ==
    ASSUME NEW method, NEW path, NEW r \in operation_for(method, path)
    PROVE  /\ ReadLimit(r.route) =< request_body_policy(method, path).max
           /\ r.route \notin {"body_refused", "forbidden", "unauthenticated", "not_found"}
<1>2. \A n : Buffer(n).max = n
  BY DEF Buffer
<1>3. request_body_policy(method, path).max \in Nat
  BY PolicyBound
<1>4. MAX_REQUEST_BYTES \in Nat /\ MAX_BLOB_FIND_REQUEST_BYTES \in Nat /\ MAX_WORKSPACE_REQUEST_BYTES \in Nat
      /\ MAX_BLOB_BYTES \in Nat
  BY RequestsAssumption
<1>5. CASE FixedRoutes(method, path) # {}
  <2>1. r \in FixedRoutes(method, path)
    BY Zenon, <1>5, FixedAlone
  <2>2. CASE method = "GET" /\ r.route \in {"Capabilities", "Status", "Telemetry"}
    BY <1>3, <2>2, ReadLimits
  <2>3. CASE method = "POST" /\ path = <<"v1", "executions">> /\ r.route = "Execute"
    BY <1>2, <1>4, <2>3, ReadLimits, PolicyCases
  <2>4. CASE /\ method = "POST" /\ path \in {<<"v1", "blobs", "missing">>, <<"v1", "blobs", "prepare">>}
             /\ r.route \in {"BlobMissing", "BlobPrepare"}
    <3>1. request_body_policy(method, path) = Buffer(MAX_BLOB_FIND_REQUEST_BYTES)
      BY Zenon, <2>4, PolicyCases
    <3> QED
      BY <1>2, <1>4, <2>4, <3>1, ReadLimits
  <2>5. CASE /\ method = "POST" /\ path \in {<<"v1", "workspaces">>, <<"v1", "workspaces", "derive">>}
             /\ r.route \in {"WorkspaceCreate", "WorkspaceDerive"}
    <3>1. request_body_policy(method, path) = Buffer(MAX_WORKSPACE_REQUEST_BYTES)
      BY Zenon, <2>5, PolicyCases
    <3> QED
      BY <1>2, <1>4, <2>5, <3>1, ReadLimits
  <2> QED
    BY ZenonT(30), <2>1, <2>2, <2>3, <2>4, <2>5, FixedCases DEF Goes
<1>6. CASE FixedRoutes(method, path) = {}
  <2>1. CASE r.route \in {"ArtifactDownload", "Observe", "Events", "ArtifactList", "BlobDownload", "BlobInvalidDigest"}
    BY <1>3, <2>1, ReadLimits
  <2>2. CASE /\ method = "POST" /\ Len(path) = 4 /\ path[4] \in {"cancel", "renew"}
             /\ r.route \in {"Cancel", "Renew"}
    <3>1. request_body_policy(method, path) = Buffer(MAX_REQUEST_BYTES)
      BY Zenon, <2>2, PolicyCases
    <3> QED
      BY <1>2, <1>4, <2>2, <3>1, ReadLimits
  <2>3. CASE /\ method = "PUT" /\ Len(path) = 3 /\ path[1] = "v1" /\ path[2] = "blobs" /\ IsDigest(path[3])
             /\ r.route = "BlobUpload"
    <3>1. request_body_policy(method, path) = [kind |-> "stream", max |-> MAX_BLOB_BYTES]
      BY Zenon, <2>3, PolicyCases
    <3> QED
      BY <1>4, <2>3, <3>1, ReadLimits
  <2> QED
    BY SMTT(30), <1>6, <2>1, <2>2, <2>3, NamedCases DEF Goes
<1> QED
  BY <1>5, <1>6

\* The authorizer is asked about what the handler acts on.
LEMMA ResourceIsTarget ==
    ASSUME NEW method, NEW path, NEW r \in operation_for(method, path)
    PROVE  resource_for_path(r.operation, path) = r.target
<1>2. \A d \in {"missing", "prepare"} : ~IsDigest(d)
  BY RequestsAssumption DEF IsDigest
<1>3. CASE FixedRoutes(method, path) # {}
  <2>1. r \in FixedRoutes(method, path)
    BY Zenon, <1>3, FixedAlone
  <2>2. CASE r.operation \in {"Capabilities", "Status", "Telemetry", "Execute", "WorkspaceCreate"} /\ r.target = Nothing
    BY ZenonT(30), <2>2 DEF resource_for_path
  <2>3. CASE /\ path \in {<<"v1", "blobs", "missing">>, <<"v1", "blobs", "prepare">>}
             /\ r.operation \in {"BlobRead", "BlobWrite"} /\ r.target = Nothing
    <3>1. ~IsDigest(path[3])
      BY <1>2, <2>3
    <3> QED
      BY ZenonT(30), <2>3, <3>1 DEF resource_for_path
  <2> QED
    BY ZenonT(30), <2>1, <2>2, <2>3, FixedCases DEF Goes
<1>4. CASE FixedRoutes(method, path) = {}
  <2>1. CASE r.operation \in {"Observe", "Cancel", "Renew", "Events"} /\ IsId(path[3]) /\ r.target = Execution(path[3])
    BY ZenonT(30), <2>1 DEF resource_for_path
  <2>2. CASE r.operation = "ArtifactRead" /\ path[2] = "artifacts" /\ IsId(path[3]) /\ r.target = Artifact(path[3])
    BY ZenonT(30), <2>2 DEF resource_for_path
  <2>3. CASE r.operation = "ArtifactRead" /\ path[2] = "executions" /\ IsId(path[3]) /\ r.target = Execution(path[3])
    BY ZenonT(30), <2>3 DEF resource_for_path
  <2>4. CASE r.operation \in {"BlobRead", "BlobWrite"} /\ IsDigest(path[3]) /\ r.target = Blob(path[3])
    BY ZenonT(30), <2>4 DEF resource_for_path
  <2>5. CASE r.operation \in {"BlobRead", "BlobWrite"} /\ ~IsDigest(path[3]) /\ r.target = Nothing
    BY ZenonT(30), <2>5 DEF resource_for_path
  <2> QED
    BY SMTT(30), <1>4, <2>1, <2>2, <2>3, <2>4, <2>5, NamedCases DEF Goes
<1> QED
  BY <1>3, <1>4

\* A request has at most one route.
LEMMA OneRoute ==
    ASSUME NEW method, NEW path, NEW q \in operation_for(method, path), NEW r \in operation_for(method, path)
    PROVE  q = r
<1> DEFINE One(S) == \A u, v \in S : u = v
<1>1. One({}) /\ \A o, n, t : One(Route(o, n, t))
  BY Zenon DEF Route
<1> HIDE DEF One
<1>2. One(FixedRoutes(method, path))
  BY ZenonT(30), <1>1 DEF FixedRoutes
<1>3. \A id, last : One(Below(method, id, last))
  BY ZenonT(30), <1>1 DEF Below
<1>4. \A id : One(BlobRoutes(method, id))
  BY ZenonT(30), <1>1 DEF BlobRoutes
<1>5. One(operation_for(method, path))
  BY ZenonT(30), <1>1, <1>2, <1>3, <1>4 DEF operation_for
<1> QED
  BY Zenon, <1>5 DEF One

\* What a handler reads is a number of bytes.
LEMMA ReadLimitBound == ASSUME NEW route PROVE ReadLimit(route) \in Nat
<1>1. 0 \in Nat
  OBVIOUS
<1> QED
  BY ZenonT(30), <1>1, RequestsAssumption DEF ReadLimit

\* The handlers ask about all that is named in the body and acted on.
LEMMA HandlersAsk == ASSUME NEW route, NEW body PROVE ActsOn(route, body) \subseteq authorize_resource(route, body)
<1>1. CASE route = "BlobMissing"
  <2>1. ActsOn(route, body) = {Blob(body.id)} \union Optional(body.more, Blob(body.more))
    BY ZenonT(30), <1>1 DEF ActsOn
  <2>2. authorize_resource(route, body) = {Blob(d) : d \in {body.id} \union ({body.more} \ {Nothing})}
    BY ZenonT(30), <1>1 DEF authorize_resource
  <2> QED
    BY ZenonT(30), <2>1, <2>2 DEF Optional
<1>2. CASE route = "Execute"
  <2>1. ActsOn(route, body) = {Execution(body.id)} \union Optional(body.more, Workspace(body.more))
    BY ZenonT(30), <1>2 DEF ActsOn
  <2>2. authorize_resource(route, body)
           = {Execution(body.id)} \union {Workspace(w) : w \in {body.more} \ {Nothing}}
    BY ZenonT(30), <1>2 DEF authorize_resource
  <2> QED
    BY ZenonT(30), <2>1, <2>2 DEF Optional
<1>3. CASE route \notin {"BlobMissing", "Execute"}
  <2>1. ActsOn(route, body) = authorize_resource(route, body)
    BY ZenonT(30), <1>3 DEF ActsOn, authorize_resource
  <2> QED
    BY <2>1
<1> QED
  BY Zenon, <1>1, <1>2, <1>3

\* Nothing is answered yet, and whoever got to the handler has been asked about.
WayInv ==
    /\ stage # "done" => answer = Nothing
    /\ stage \in {"handle", "record"} =>
          \A route \in operation_for(incoming.method, incoming.path) :
              Question(route.operation, resource_for_path(route.operation, incoming.path)) \in asked

RequestInv ==
    incoming.bytes \in Nat /\ WayInv /\ BodyAdmitted /\ AskedAboutTarget

\* The way of a request through the node keeps what the tables agree on.
LEMMA TablesKept ==
    ASSUME RequestInv, ReadHead \/ dispatch \/ Handle
    PROVE  RequestInv'
<1>1. incoming' = incoming
  BY DEF ReadHead, dispatch, Handle
<1> DEFINE routes == operation_for(incoming.method, incoming.path)
<1>2. \A r \in routes : /\ ReadLimit(r.route) =< request_body_policy(incoming.method, incoming.path).max
                        /\ r.route \notin {"body_refused", "forbidden", "unauthenticated", "not_found"}
                        /\ resource_for_path(r.operation, incoming.path) = r.target
  BY PolicyHasRoom, ResourceIsTarget
<1>3. \A q, r \in routes : q = r
  BY Zenon, OneRoute
<1> HIDE DEF routes
<1>4. CASE ReadHead
  <2>1. UNCHANGED asked /\ stage = "head" /\ answer = Nothing
    BY Zenon, <1>4 DEF ReadHead, RequestInv, WayInv
  <2>2. \/ answer' = Nothing /\ stage' = "dispatch"
        \/ /\ incoming.bytes > request_body_policy(incoming.method, incoming.path).max
           /\ answer' = "body_refused" /\ stage' = "done"
    BY Zenon, <1>4, <2>1 DEF ReadHead, End
  <2>3. ASSUME incoming.bytes > request_body_policy(incoming.method, incoming.path).max, NEW r \in routes
        PROVE  incoming.bytes > ReadLimit(r.route)
    BY <1>2, <2>3, PolicyBound, ReadLimitBound DEF RequestInv
  <2>4. "dispatch" \notin {"handle", "record"} /\ "done" \notin {"handle", "record"} /\ Nothing # "body_refused"
    BY RequestsAssumption
  <2> QED
    BY Zenon, <1>1, <1>2, <2>2, <2>3, <2>4 DEF RequestInv, WayInv, BodyAdmitted, AskedAboutTarget, routes
<1>5. CASE dispatch
  <2>1. answer = Nothing /\ "done" \notin {"handle", "record"} /\ "done" # "handle" /\ Nothing # "body_refused"
    BY Zenon, <1>5, RequestsAssumption DEF dispatch, RequestInv, WayInv
  <2>2. CASE stage' = "done" /\ answer' \in {"not_found", "unauthenticated", "forbidden"}
    BY Zenon, <1>1, <1>2, <2>1, <2>2 DEF RequestInv, WayInv, BodyAdmitted, AskedAboutTarget, routes
  <2>3. CASE /\ stage' = "handle" /\ answer' = answer
             /\ \E r \in routes : asked' = {Question(r.operation, resource_for_path(r.operation, incoming.path))}
    BY Zenon, <1>1, <1>3, <2>1, <2>3 DEF RequestInv, WayInv, BodyAdmitted, AskedAboutTarget, routes
  <2> QED
    BY Zenon, <1>5, <2>2, <2>3 DEF dispatch, End, routes
<1>6. CASE Handle
  <2> DEFINE questions(r) == {Question(r.operation, resource) :
                                 resource \in authorize_resource(r.route, incoming.body)}
  <2>1. PICK r \in routes :
          \/ incoming.bytes > ReadLimit(r.route) /\ answer' = "body_refused" /\ asked' = asked
          \/ answer' \in {r.route, "forbidden"} /\ asked' = asked \union questions(r)
    BY Zenon, <1>6 DEF Handle, End, routes
  <2>2. stage = "handle" /\ stage' = "done" /\ "done" \notin {"handle", "record"}
    BY Zenon, <1>6 DEF Handle, End
  <2>3. \A q \in routes : q = r
    BY Zenon, <1>3
  <2>4. WayInv'
    BY Zenon, <2>2 DEF WayInv
  <2>5. BodyAdmitted'
    BY Zenon, <1>1, <1>2, <2>1, <2>3 DEF BodyAdmitted, routes
  <2>6. ASSUME answer' = r.route,
               NEW resource \in ActsOn(r.route, incoming.body) \union Optional(r.target, r.target)
        PROVE  Question(r.operation, resource) \in asked'
    <3>1. asked' = asked \union questions(r)
      BY Zenon, <1>2, <2>1, <2>6
    <3>2. CASE resource \in ActsOn(r.route, incoming.body)
      BY Zenon, <3>1, <3>2, HandlersAsk
    <3>3. CASE resource \in Optional(r.target, r.target)
      <4>1. resource = r.target
        BY Zenon, <3>3 DEF Optional
      <4>2. Question(r.operation, r.target) \in asked
        BY Zenon, <1>2, <2>2 DEF RequestInv, WayInv, routes
      <4> QED
        BY Zenon, <3>1, <4>1, <4>2
    <3> QED
      BY Zenon, <2>6, <3>2, <3>3
  <2>7. AskedAboutTarget'
    BY Zenon, <1>1, <2>3, <2>6 DEF AskedAboutTarget, routes
  <2> QED
    BY Zenon, <1>1, <2>4, <2>5, <2>7 DEF RequestInv
<1> QED
  BY <1>4, <1>5, <1>6

\* On every path the policy for bodies, the routes and the resources agree: a body is
\* refused only when the handler would not read it, and whatever the handler acts on, named
\* in the path or in the body, the authorizer has been asked about (request_body_policy,
\* operation_for, resource_for_path, authorize_resource).
THEOREM RequestTables == RequestSpec => [](BodyAdmitted /\ AskedAboutTarget)
<1>1. RequestInit => RequestInv
  <2> SUFFICES ASSUME RequestInit PROVE RequestInv
    OBVIOUS
  <2>1. incoming.bytes \in 0..MAX_BLOB_BYTES + 1 /\ MAX_BLOB_BYTES \in Nat /\ answer # "body_refused"
    BY Zenon, RequestsAssumption DEF RequestInit
  <2>2. incoming.bytes \in Nat /\ answer # "body_refused"
    BY <2>1
  <2> QED
    BY Zenon, <2>2 DEF RequestInit, RequestInv, WayInv, BodyAdmitted, AskedAboutTarget
<1>2. RequestInv /\ [RequestNext]_requestVars => RequestInv'
  <2>1. RequestInv /\ UNCHANGED requestVars => RequestInv'
    BY Zenon DEF RequestInv, WayInv, BodyAdmitted, AskedAboutTarget, requestVars
  <2> QED
    BY Zenon, <2>1, TablesKept DEF RequestNext
<1>3. RequestInv => BodyAdmitted /\ AskedAboutTarget
  BY Zenon DEF RequestInv
<1> QED
  BY <1>1, <1>2, <1>3, PTL DEF RequestSpec

\* A request finds the route.
Has(routes, route) == \E r \in routes : r.route = route
Leads(m, route) == m.bytes \in Nat /\ Has(operation_for(m.method, m.path), route)

\* So do the requests the client builds when their paths have it.
LEMMA BuiltLeads ==
    ASSUME NEW path, NEW route
    PROVE  /\ Has(operation_for("GET", path), route) => Leads(Get(path), route)
           /\ \A n \in Nat : /\ Has(operation_for("POST", path), route) => Leads(Post(path, n), route)
                             /\ Has(operation_for("PUT", path), route) => Leads(Put(path, n), route)
<1>1. Get(path).method = "GET" /\ Get(path).path = path /\ Get(path).bytes \in Nat
  BY DEF Get
<1>2. \A n \in Nat : Post(path, n).method = "POST" /\ Post(path, n).path = path /\ Post(path, n).bytes \in Nat
  BY Zenon DEF Post
<1>3. \A n \in Nat : Put(path, n).method = "PUT" /\ Put(path, n).path = path /\ Put(path, n).bytes \in Nat
  BY Zenon DEF Put
<1> QED
  BY Zenon, <1>1, <1>2, <1>3 DEF Leads

\* Requests with a fixed path.
LEMMA FixedLead ==
    /\ Leads(Get(<<"v1", "capabilities">>), "Capabilities") /\ Leads(Get(<<"v1", "status">>), "Status")
    /\ Leads(Get(<<"v1", "node", "telemetry">>), "Telemetry")
    /\ \A n \in Nat :
          /\ Leads(Post(<<"v1", "executions">>, n), "Execute")
          /\ Leads(Post(<<"v1", "blobs", "missing">>, n), "BlobMissing")
          /\ Leads(Post(<<"v1", "blobs", "prepare">>, n), "BlobPrepare")
          /\ Leads(Post(<<"v1", "workspaces">>, n), "WorkspaceCreate")
          /\ Leads(Post(<<"v1", "workspaces", "derive">>, n), "WorkspaceDerive")
<1>1. \A o, n, t : Has(Route(o, n, t), n)
  BY DEF Route, Has
<1>2. /\ FixedRoutes("GET", <<"v1", "capabilities">>) = Route("Capabilities", "Capabilities", Nothing)
      /\ FixedRoutes("GET", <<"v1", "status">>) = Route("Status", "Status", Nothing)
      /\ FixedRoutes("GET", <<"v1", "node", "telemetry">>) = Route("Telemetry", "Telemetry", Nothing)
  BY ZenonT(30) DEF FixedRoutes
<1>3. /\ FixedRoutes("POST", <<"v1", "executions">>) = Route("Execute", "Execute", Nothing)
      /\ FixedRoutes("POST", <<"v1", "blobs", "missing">>) = Route("BlobRead", "BlobMissing", Nothing)
      /\ FixedRoutes("POST", <<"v1", "blobs", "prepare">>) = Route("BlobWrite", "BlobPrepare", Nothing)
      /\ FixedRoutes("POST", <<"v1", "workspaces">>) = Route("WorkspaceCreate", "WorkspaceCreate", Nothing)
      /\ FixedRoutes("POST", <<"v1", "workspaces", "derive">>) = Route("WorkspaceCreate", "WorkspaceDerive", Nothing)
  BY ZenonT(30) DEF FixedRoutes
<1>4. ASSUME NEW method, NEW path, NEW route, Has(FixedRoutes(method, path), route)
      PROVE  Has(operation_for(method, path), route)
  <2>1. FixedRoutes(method, path) # {}
    BY Zenon, <1>4 DEF Has
  <2> QED
    BY Zenon, <1>4, <2>1, FixedAlone
<1>5. /\ Has(operation_for("GET", <<"v1", "capabilities">>), "Capabilities")
      /\ Has(operation_for("GET", <<"v1", "status">>), "Status")
      /\ Has(operation_for("GET", <<"v1", "node", "telemetry">>), "Telemetry")
  BY Zenon, <1>1, <1>2, <1>4
<1>6. /\ Has(operation_for("POST", <<"v1", "executions">>), "Execute")
      /\ Has(operation_for("POST", <<"v1", "blobs", "missing">>), "BlobMissing")
      /\ Has(operation_for("POST", <<"v1", "blobs", "prepare">>), "BlobPrepare")
      /\ Has(operation_for("POST", <<"v1", "workspaces">>), "WorkspaceCreate")
      /\ Has(operation_for("POST", <<"v1", "workspaces", "derive">>), "WorkspaceDerive")
  BY Zenon, <1>1, <1>3, <1>4
<1> QED
  BY Zenon, <1>5, <1>6, BuiltLeads

\* Requests with an identifier in their path.
LEMMA NamedLead ==
    ASSUME NEW id, IsId(id)
    PROVE  /\ Leads(Get(<<"v1", "executions", id>>), "Observe")
           /\ Leads(Get(<<"v1", "artifacts", id>>), "ArtifactDownload")
           /\ Leads(Get(<<"v1", "executions", id, "events">>), "Events")
           /\ Leads(Get(<<"v1", "executions", id, "artifacts">>), "ArtifactList")
           /\ \A n \in Nat : /\ Leads(Post(<<"v1", "executions", id, "cancel">>, n), "Cancel")
                             /\ Leads(Post(<<"v1", "executions", id, "renew">>, n), "Renew")
           /\ IsDigest(id) => /\ Leads(Get(<<"v1", "blobs", id>>), "BlobDownload")
                              /\ \A n \in Nat : Leads(Put(<<"v1", "blobs", id>>, n), "BlobUpload")
<1>1. \A o, n, t : Has(Route(o, n, t), n)
  BY DEF Route, Has
<1>2. /\ \A a, b : /\ Len(<<"v1", a, b>>) = 3 /\ <<"v1", a, b>>[1] = "v1"
                   /\ <<"v1", a, b>>[2] = a /\ <<"v1", a, b>>[3] = b
      /\ \A a, b, c : /\ Len(<<"v1", a, b, c>>) = 4 /\ <<"v1", a, b, c>>[1] = "v1"
                      /\ <<"v1", a, b, c>>[2] = a /\ <<"v1", a, b, c>>[3] = b /\ <<"v1", a, b, c>>[4] = c
  OBVIOUS
<1>3. \A method : /\ FixedRoutes(method, <<"v1", "executions", id>>) = {}
                  /\ FixedRoutes(method, <<"v1", "artifacts", id>>) = {}
                  /\ \A last : FixedRoutes(method, <<"v1", "executions", id, last>>) = {}
                  /\ method # "POST" => FixedRoutes(method, <<"v1", "blobs", id>>) = {}
  <2>1. \A method, path : FixedRoutes(method, path) # {} =>
          Len(path) # 4 /\ (Len(path) = 3 => path[2] \notin {"artifacts", "executions"})
    BY Zenon, FixedShape
  <2>2. \A method : method # "POST" /\ FixedRoutes(method, <<"v1", "blobs", id>>) # {} =>
           <<"v1", "blobs", id>> \in {<<"v1", "capabilities">>, <<"v1", "status">>, <<"v1", "node", "telemetry">>}
    BY ZenonT(30), FixedCases
  <2> QED
    BY <1>2, <2>1, <2>2
<1>4. Has(operation_for("GET", <<"v1", "executions", id>>), "Observe")
  <2> DEFINE path == <<"v1", "executions", id>>
  <2>1. /\ Len(path) = 3 /\ path[1] = "v1" /\ path[2] = "executions" /\ path[3] = id
        /\ Len(path) # 4 /\ FixedRoutes("GET", path) = {}
    BY <1>2, <1>3
  <2> HIDE DEF path
  <2>2. operation_for("GET", path) = Route("Observe", "Observe", Execution(id))
    BY ZenonT(30), <2>1 DEF operation_for
  <2> QED
    BY Zenon, <1>1, <2>2 DEF path
<1>5. Has(operation_for("GET", <<"v1", "artifacts", id>>), "ArtifactDownload")
  <2> DEFINE path == <<"v1", "artifacts", id>>
  <2>1. /\ Len(path) = 3 /\ path[1] = "v1" /\ path[2] = "artifacts" /\ path[3] = id
        /\ Len(path) # 4 /\ FixedRoutes("GET", path) = {}
    BY <1>2, <1>3
  <2> HIDE DEF path
  <2>2. operation_for("GET", path) = Route("ArtifactRead", "ArtifactDownload", Artifact(id))
    BY ZenonT(30), <2>1 DEF operation_for
  <2> QED
    BY Zenon, <1>1, <2>2 DEF path
<1>6. ASSUME NEW method, NEW last
      PROVE  operation_for(method, <<"v1", "executions", id, last>>) = Below(method, id, last)
  <2> DEFINE path == <<"v1", "executions", id, last>>
  <2>1. /\ Len(path) = 4 /\ path[1] = "v1" /\ path[2] = "executions" /\ path[3] = id /\ path[4] = last
        /\ Len(path) # 3 /\ FixedRoutes(method, path) = {}
    BY <1>2, <1>3
  <2> HIDE DEF path
  <2>2. operation_for(method, path) = Below(method, id, last)
    BY ZenonT(30), <2>1 DEF operation_for
  <2> QED
    BY Zenon, <2>2 DEF path
<1>7. /\ Has(Below("POST", id, "cancel"), "Cancel") /\ Has(Below("POST", id, "renew"), "Renew")
      /\ Has(Below("GET", id, "events"), "Events") /\ Has(Below("GET", id, "artifacts"), "ArtifactList")
  BY ZenonT(30), <1>1 DEF Below
<1>8. ASSUME NEW method \in {"GET", "PUT"}
      PROVE  operation_for(method, <<"v1", "blobs", id>>) = BlobRoutes(method, id)
  <2> DEFINE path == <<"v1", "blobs", id>>
  <2>1. /\ Len(path) = 3 /\ path[1] = "v1" /\ path[2] = "blobs" /\ path[3] = id
        /\ Len(path) # 4 /\ FixedRoutes(method, path) = {}
    BY <1>2, <1>3
  <2> HIDE DEF path
  <2>2. operation_for(method, path) = BlobRoutes(method, id)
    BY ZenonT(30), <2>1 DEF operation_for
  <2> QED
    BY Zenon, <2>2 DEF path
<1>9. IsDigest(id) => Has(BlobRoutes("GET", id), "BlobDownload") /\ Has(BlobRoutes("PUT", id), "BlobUpload")
  BY ZenonT(30), <1>1 DEF BlobRoutes
<1> QED
  BY ZenonT(30), <1>4, <1>5, <1>6, <1>7, <1>8, <1>9, BuiltLeads

\* The calls some routes are of; prepare is never the last request.
Stands(c, route) ==
    /\ route = "Observe" => c.name \in {"observe", "observe_generation"}
    /\ route = "ArtifactList" => c.name = "artifacts"
    /\ route = "ArtifactDownload" => c.name = "download_artifact"
    /\ route \in {"Cancel", "Renew"} => c.name \in {"cancel", "renew"}
    /\ c.name = "upload_blob" => route \in {"BlobPrepare", "BlobUpload"}

Proceeds(c, n) ==
    /\ Leads(Sent(c)[n], MeantRoutes(c)[n]) /\ Stands(c, MeantRoutes(c)[n])
    /\ MeantRoutes(c)[n] = "BlobPrepare" => n < Len(Sent(c))

AllProceed(c) ==
    /\ Len(Sent(c)) \in Nat \ {0}
    /\ \A n \in 1..Len(Sent(c)) : Proceeds(c, n)

\* Every request of a call finds the route it stands for.
LEMMA CallLeads ==
    ASSUME NEW c \in Calls
    PROVE  AllProceed(c)
<1>1. c.name \in CallNames /\ c.bytes \in Nat /\ IsId(c.id) /\ 1 \in Nat
  BY NodeClientAssumption
<1>2. c.name \in {"upload_blob", "download_blob"} => IsDigest(c.id)
  BY NodeClientAssumption
<1>3. ASSUME NEW m, NEW route, Sent(c) = <<m>>, MeantRoutes(c) = <<route>>, Leads(m, route), Stands(c, route),
             route # "BlobPrepare"
      PROVE  AllProceed(c)
  <2>1. Len(Sent(c)) = 1 /\ Sent(c)[1] = m /\ MeantRoutes(c)[1] = route
    BY <1>3
  <2>2. Proceeds(c, 1)
    BY Zenon, <1>3, <2>1 DEF Proceeds
  <2> QED
    BY <2>1, <2>2 DEF AllProceed
<1>4. ASSUME NEW m, NEW route, NEW k, NEW last,
             Sent(c) = <<m, k>>, MeantRoutes(c) = <<route, last>>, Leads(m, route), Leads(k, last),
             Stands(c, route), Stands(c, last), last # "BlobPrepare"
      PROVE  AllProceed(c)
  <2>1. /\ Len(Sent(c)) = 2 /\ Sent(c)[1] = m /\ Sent(c)[2] = k
        /\ MeantRoutes(c)[1] = route /\ MeantRoutes(c)[2] = last
    BY <1>4
  <2>2. Proceeds(c, 1)
    <3>1. 1 < Len(Sent(c))
      BY <2>1
    <3> QED
      BY Zenon, <1>4, <2>1, <3>1 DEF Proceeds
  <2>3. Proceeds(c, 2)
    BY Zenon, <1>4, <2>1 DEF Proceeds
  <2>4. \A n \in 1..Len(Sent(c)) : n = 1 \/ n = 2
    BY <2>1
  <2>5. Len(Sent(c)) \in Nat \ {0}
    BY <2>1
  <2> QED
    BY Zenon, <2>2, <2>3, <2>4, <2>5 DEF AllProceed
<1>5. CASE c.name = "capabilities"
  <2>1. Sent(c) = <<AskCapabilities>>
    BY ZenonT(30), <1>5 DEF Sent
  <2>2. MeantRoutes(c) = <<"Capabilities">>
    BY ZenonT(30), <1>5 DEF MeantRoutes
  <2>3. Stands(c, "Capabilities")
    BY Zenon, <1>5 DEF Stands
  <2> QED
    BY Zenon, <1>1, <1>2, <1>3, <1>5, <2>1, <2>2, <2>3, FixedLead, NamedLead DEF AskCapabilities
<1>6. CASE c.name = "status"
  <2>1. Sent(c) = <<Get(<<"v1", "status">>)>>
    BY ZenonT(30), <1>6 DEF Sent
  <2>2. MeantRoutes(c) = <<"Status">>
    BY ZenonT(30), <1>6 DEF MeantRoutes
  <2>3. Stands(c, "Status")
    BY Zenon, <1>6 DEF Stands
  <2> QED
    BY Zenon, <1>1, <1>2, <1>3, <1>6, <2>1, <2>2, <2>3, FixedLead, NamedLead
<1>7. CASE c.name = "telemetry"
  <2>1. Sent(c) = <<Get(<<"v1", "node", "telemetry">>)>>
    BY ZenonT(30), <1>7 DEF Sent
  <2>2. MeantRoutes(c) = <<"Telemetry">>
    BY ZenonT(30), <1>7 DEF MeantRoutes
  <2>3. Stands(c, "Telemetry")
    BY Zenon, <1>7 DEF Stands
  <2> QED
    BY Zenon, <1>1, <1>2, <1>3, <1>7, <2>1, <2>2, <2>3, FixedLead, NamedLead
<1>8. CASE c.name = "create_workspace"
  <2>1. Sent(c) = <<Post(<<"v1", "workspaces">>, c.bytes)>>
    BY ZenonT(30), <1>8 DEF Sent, create_workspaces
  <2>2. MeantRoutes(c) = <<"WorkspaceCreate">>
    BY ZenonT(30), <1>8 DEF MeantRoutes
  <2>3. Stands(c, "WorkspaceCreate")
    BY Zenon, <1>8 DEF Stands
  <2> QED
    BY Zenon, <1>1, <1>2, <1>3, <1>8, <2>1, <2>2, <2>3, FixedLead, NamedLead
<1>9. CASE c.name = "create_workspace_derived"
  <2>1. Sent(c) = <<Post(<<"v1", "workspaces", "derive">>, c.bytes)>>
    BY ZenonT(30), <1>9 DEF Sent, create_workspaces
  <2>2. MeantRoutes(c) = <<"WorkspaceDerive">>
    BY ZenonT(30), <1>9 DEF MeantRoutes
  <2>3. Stands(c, "WorkspaceDerive")
    BY Zenon, <1>9 DEF Stands
  <2> QED
    BY Zenon, <1>1, <1>2, <1>3, <1>9, <2>1, <2>2, <2>3, FixedLead, NamedLead
<1>10. CASE c.name = "observe"
  <2>1. Sent(c) = <<Get(<<"v1", "executions", c.id>>)>>
    BY ZenonT(30), <1>10 DEF Sent
  <2>2. MeantRoutes(c) = <<"Observe">>
    BY ZenonT(30), <1>10 DEF MeantRoutes
  <2>3. Stands(c, "Observe")
    BY Zenon, <1>10 DEF Stands
  <2> QED
    BY Zenon, <1>1, <1>2, <1>3, <1>10, <2>1, <2>2, <2>3, FixedLead, NamedLead
<1>11. CASE c.name = "observe_generation"
  <2>1. Sent(c) = <<Get(<<"v1", "executions", c.id>>)>>
    BY ZenonT(30), <1>11 DEF Sent
  <2>2. MeantRoutes(c) = <<"Observe">>
    BY ZenonT(30), <1>11 DEF MeantRoutes
  <2>3. Stands(c, "Observe")
    BY Zenon, <1>11 DEF Stands
  <2> QED
    BY Zenon, <1>1, <1>2, <1>3, <1>11, <2>1, <2>2, <2>3, FixedLead, NamedLead
<1>12. CASE c.name = "cancel"
  <2>1. Sent(c) = <<Post(<<"v1", "executions", c.id, "cancel">>, c.bytes)>>
    BY ZenonT(30), <1>12 DEF Sent, controls
  <2>2. MeantRoutes(c) = <<"Cancel">>
    BY ZenonT(30), <1>12 DEF MeantRoutes
  <2>3. Stands(c, "Cancel")
    BY Zenon, <1>12 DEF Stands
  <2> QED
    BY Zenon, <1>1, <1>2, <1>3, <1>12, <2>1, <2>2, <2>3, FixedLead, NamedLead
<1>13. CASE c.name = "renew"
  <2>1. Sent(c) = <<Post(<<"v1", "executions", c.id, "renew">>, c.bytes)>>
    BY ZenonT(30), <1>13 DEF Sent, controls
  <2>2. MeantRoutes(c) = <<"Renew">>
    BY ZenonT(30), <1>13 DEF MeantRoutes
  <2>3. Stands(c, "Renew")
    BY Zenon, <1>13 DEF Stands
  <2> QED
    BY Zenon, <1>1, <1>2, <1>3, <1>13, <2>1, <2>2, <2>3, FixedLead, NamedLead
<1>14. CASE c.name = "find_missing_blobs"
  <2>1. Sent(c) = <<Post(<<"v1", "blobs", "missing">>, c.bytes)>>
    BY ZenonT(30), <1>14 DEF Sent, find_missing_blobs
  <2>2. MeantRoutes(c) = <<"BlobMissing">>
    BY ZenonT(30), <1>14 DEF MeantRoutes
  <2>3. Stands(c, "BlobMissing")
    BY Zenon, <1>14 DEF Stands
  <2> QED
    BY Zenon, <1>1, <1>2, <1>3, <1>14, <2>1, <2>2, <2>3, FixedLead, NamedLead
<1>15. CASE c.name = "download_blob"
  <2>1. Sent(c) = <<Get(<<"v1", "blobs", c.id>>)>>
    BY ZenonT(30), <1>15 DEF Sent, downloads
  <2>2. MeantRoutes(c) = <<"BlobDownload">>
    BY ZenonT(30), <1>15 DEF MeantRoutes
  <2>3. Stands(c, "BlobDownload")
    BY Zenon, <1>15 DEF Stands
  <2> QED
    BY Zenon, <1>1, <1>2, <1>3, <1>15, <2>1, <2>2, <2>3, FixedLead, NamedLead
<1>16. CASE c.name = "artifacts"
  <2>1. Sent(c) = <<Get(<<"v1", "executions", c.id, "artifacts">>)>>
    BY ZenonT(30), <1>16 DEF Sent, downloads
  <2>2. MeantRoutes(c) = <<"ArtifactList">>
    BY ZenonT(30), <1>16 DEF MeantRoutes
  <2>3. Stands(c, "ArtifactList")
    BY Zenon, <1>16 DEF Stands
  <2> QED
    BY Zenon, <1>1, <1>2, <1>3, <1>16, <2>1, <2>2, <2>3, FixedLead, NamedLead
<1>17. CASE c.name = "download_artifact"
  <2>1. Sent(c) = <<Get(<<"v1", "artifacts", c.id>>)>>
    BY ZenonT(30), <1>17 DEF Sent, downloads
  <2>2. MeantRoutes(c) = <<"ArtifactDownload">>
    BY ZenonT(30), <1>17 DEF MeantRoutes
  <2>3. Stands(c, "ArtifactDownload")
    BY Zenon, <1>17 DEF Stands
  <2> QED
    BY Zenon, <1>1, <1>2, <1>3, <1>17, <2>1, <2>2, <2>3, FixedLead, NamedLead
<1>18. CASE c.name = "execute"
  <2>1. Sent(c) = <<AskCapabilities, Post(<<"v1", "executions">>, c.bytes)>>
    BY ZenonT(30), <1>18 DEF Sent, execute_with_workspace
  <2>2. MeantRoutes(c) = <<"Capabilities", "Execute">>
    BY ZenonT(30), <1>18 DEF MeantRoutes
  <2>3. Leads(AskCapabilities, "Capabilities")
    BY Zenon, <1>1, FixedLead DEF AskCapabilities
  <2>4. Leads(Post(<<"v1", "executions">>, c.bytes), "Execute")
    BY Zenon, <1>1, <1>2, <1>18, FixedLead
  <2>5. Stands(c, "Capabilities") /\ Stands(c, "Execute")
    BY Zenon, <1>18 DEF Stands
  <2> QED
    BY Zenon, <1>4, <2>1, <2>2, <2>3, <2>4, <2>5
<1>19. CASE c.name = "events"
  <2>1. Sent(c) = <<AskCapabilities, Get(<<"v1", "executions", c.id, "events">>)>>
    BY ZenonT(30), <1>19 DEF Sent, events
  <2>2. MeantRoutes(c) = <<"Capabilities", "Events">>
    BY ZenonT(30), <1>19 DEF MeantRoutes
  <2>3. Leads(AskCapabilities, "Capabilities")
    BY Zenon, <1>1, FixedLead DEF AskCapabilities
  <2>4. Leads(Get(<<"v1", "executions", c.id, "events">>), "Events")
    BY Zenon, <1>1, <1>2, <1>19, NamedLead
  <2>5. Stands(c, "Capabilities") /\ Stands(c, "Events")
    BY Zenon, <1>19 DEF Stands
  <2> QED
    BY Zenon, <1>4, <2>1, <2>2, <2>3, <2>4, <2>5
<1>20. CASE c.name = "upload_blob"
  <2>1. Sent(c) = <<Post(<<"v1", "blobs", "prepare">>, 1), Put(<<"v1", "blobs", c.id>>, c.bytes)>>
    BY ZenonT(30), <1>20 DEF Sent, upload_blob
  <2>2. MeantRoutes(c) = <<"BlobPrepare", "BlobUpload">>
    BY ZenonT(30), <1>20 DEF MeantRoutes
  <2>3. Leads(Post(<<"v1", "blobs", "prepare">>, 1), "BlobPrepare")
    BY Zenon, <1>1, FixedLead DEF AskCapabilities
  <2>4. Leads(Put(<<"v1", "blobs", c.id>>, c.bytes), "BlobUpload")
    BY Zenon, <1>1, <1>2, <1>20, NamedLead
  <2>5. Stands(c, "BlobPrepare") /\ Stands(c, "BlobUpload")
    BY Zenon, <1>20 DEF Stands
  <2> QED
    BY Zenon, <1>4, <2>1, <2>2, <2>3, <2>4, <2>5
<1> QED
  BY ZenonT(30), <1>1, <1>5, <1>6, <1>7, <1>8, <1>9, <1>10, <1>11, <1>12, <1>13,
     <1>14, <1>15, <1>16, <1>17, <1>18, <1>19, <1>20 DEF CallNames

\* The request under way is one of those of the call.
TurnInv ==
    /\ call \in Calls /\ turn \in 0..Len(Sent(call))
    /\ turn = 0 => stage = "done" /\ answer = Nothing /\ asked = {} /\ reply = Nothing
    /\ turn > 0 => /\ incoming.method = Sent(call)[turn].method /\ incoming.path = Sent(call)[turn].path
                   /\ incoming.bytes = Sent(call)[turn].bytes /\ incoming.peer = call.peer
    /\ stage \in {"handle", "record"} => PrincipalOf(call.peer) # {}

\* Rows and artifacts can be told apart.
RowsInv ==
    /\ \A r \in known : "row" \notin DOMAIN r
    /\ \A a \in produced : "row" \in DOMAIN a

\* The row a call names is there while its record is looked for.
RecordInv ==
    stage = "record" =>
        /\ MeantRoutes(call)[turn] \in {"Cancel", "Renew"}
        /\ \E q \in known : Asked(q) /\ q.lease = call.lease

\* OwnOnly for one answer, call and set of rows.
OwnAmong(given, c, rows) ==
    \A r \in RowsOf(given.rows) :
        /\ c.name # "download_artifact" => r.id = c.id
        /\ c.name \in {"execute", "events", "cancel", "renew"} => r.lease = c.lease
        /\ \/ /\ r.principal \in PrincipalOf(c.peer)
              /\ c.name \notin {"observe", "download_artifact"} => r.generation = c.generation
           \/ /\ c.name \in {"cancel", "renew"}
              /\ \E q \in rows \ {r} :
                    /\ q.id = c.id /\ q.generation = c.generation /\ q.principal \in PrincipalOf(c.peer)
                    /\ q.lease = r.lease /\ q.generation =< r.generation

Own(given) == OwnAmong(given, call, known)

\* What is so stays so when there are more rows.
LEMMA OwnGrows ==
    ASSUME NEW given, NEW c, NEW some, NEW more, some \subseteq more, OwnAmong(given, c, some)
    PROVE  OwnAmong(given, c, more)
BY ZenonT(30) DEF OwnAmong

\* It is what OwnOnly says.
LEMMA OwnIsOwnOnly == OwnOnly <=> (gave # Nothing /\ IsSuccess(gave) => Own(gave))
BY ZenonT(30) DEF OwnOnly, Own, OwnAmong, Asked

\* What the handler answered is of the route the call meant, and true.
Truthful(route, given) ==
    /\ route = "BlobPrepare" => (~given.upload_required => seen)
    /\ route # "BlobPrepare" => Own(given)
    /\ route = "BlobUpload" => seen

ReplyInv ==
    reply # Nothing =>
        /\ stage = "done" /\ turn > 0 /\ answer = MeantRoutes(call)[turn]
        /\ IsSuccess(reply) => Truthful(answer, reply)

ClientInv == TurnInv /\ RowsInv /\ RecordInv /\ ReplyInv /\ WayInv /\ TablesAgree /\ AnswersTrue

\* While a request is under way its route is known.
LEMMA UnderWay ==
    ASSUME TurnInv, WayInv, TablesAgree, turn > 0
    PROVE  /\ RequestInv /\ turn \in 1..Len(Sent(call)) /\ Stands(call, MeantRoutes(call)[turn])
           /\ MeantRoutes(call)[turn] = "BlobPrepare" => turn < Len(Sent(call))
           /\ \E r \in operation_for(incoming.method, incoming.path) : r.route = MeantRoutes(call)[turn]
           /\ \A r \in operation_for(incoming.method, incoming.path) : r.route = MeantRoutes(call)[turn]
<1>1. turn \in 1..Len(Sent(call))
  BY DEF TurnInv
<1>2. Proceeds(call, turn)
  BY Zenon, <1>1, CallLeads DEF TurnInv, AllProceed
<1>3. Leads(incoming, MeantRoutes(call)[turn])
  BY Zenon, <1>2 DEF TurnInv, Proceeds, Leads
<1> QED
  BY Zenon, <1>1, <1>2, <1>3, OneRoute DEF Proceeds, Leads, Has, RequestInv, TablesAgree

\* The way to the handler.
LEMMA TravelStep == ASSUME ClientInv, Travel PROVE ClientInv'
<1>1. /\ UNCHANGED <<call, turn, reply, gave, known, stored, produced, build, seen, incoming>>
      /\ ReadHead \/ dispatch
  BY Zenon DEF Travel, nodeVars, ReadHead, dispatch
<1>2. stage \in {"head", "dispatch"} /\ turn # 0 /\ turn > 0
  <2>1. stage \in {"head", "dispatch"}
    BY Zenon, <1>1 DEF ReadHead, dispatch
  <2>2. turn # 0
    BY Zenon, <2>1 DEF ClientInv, TurnInv
  <2> QED
    BY <2>1, <2>2 DEF ClientInv, TurnInv
<1>3. /\ RequestInv /\ turn \in 1..Len(Sent(call))
      /\ \E r \in operation_for(incoming.method, incoming.path) : r.route = MeantRoutes(call)[turn]
  BY Zenon, <1>2, UnderWay DEF ClientInv
<1>4. RequestInv'
  BY Zenon, <1>1, <1>3, TablesKept
<1>5. reply = Nothing
  BY Zenon, <1>2 DEF ClientInv, ReplyInv
<1>6. stage' = "done" =>
         \/ answer' \in {"unauthenticated", "forbidden"}
         \/ answer' = "body_refused"
  BY Zenon, <1>1, <1>3 DEF ReadHead, dispatch, End
<1>7. CallReaches'
  <2>1. answer' = "body_refused" => incoming.bytes > ReadLimit(MeantRoutes(call)[turn])
    BY Zenon, <1>1, <1>3, <1>4 DEF RequestInv, BodyAdmitted
  <2> QED
    BY Zenon, <1>1, <1>6, <2>1 DEF CallReaches
<1>8. stage' # "record" /\ (stage' = "handle" => PrincipalOf(call.peer) # {})
  BY Zenon, <1>1, <1>2 DEF ReadHead, dispatch, End, ClientInv, TurnInv
<1>9. TurnInv'
  BY Zenon, <1>1, <1>2, <1>8 DEF ClientInv, TurnInv
<1>10. RowsInv' /\ ReplyInv' /\ RecordInv'
  BY Zenon, <1>1, <1>5, <1>8 DEF ClientInv, RowsInv, ReplyInv, RecordInv
<1>11. AnswersTrue'
  BY Zenon, <1>1 DEF ClientInv, AnswersTrue, OwnOnly, Asked, UploadLands
<1> QED
  BY Zenon, <1>4, <1>7, <1>9, <1>10, <1>11 DEF ClientInv, TablesAgree, RequestInv

\* Answers are rows or an error.
LEMMA AnswerFields ==
    /\ \A code : ~IsSuccess(Refuse(code))
    /\ \A all : Fine(all).rows = all
BY Zenon DEF IsSuccess, Refuse, Fine

\* The rows of rows, of artifacts and of nothing.
LEMMA RowsOfSets ==
    ASSUME RowsInv
    PROVE  /\ RowsOf({}) = {}
           /\ \A all : (\A r \in all : "row" \notin DOMAIN r) => RowsOf(all) = all
           /\ \A all \in SUBSET produced : \A r \in RowsOf(all) : \E a \in all : r = a.row
BY ZenonT(30) DEF RowsOf, RowsInv

\* Whoever gets as far as a handler has a principal.
LEMMA CallerOwns ==
    ASSUME PrincipalOf(call.peer) # {}, incoming.peer = call.peer
    PROVE  Caller \in PrincipalOf(call.peer)
BY Zenon DEF Caller

\* What each handler answers is true.
LEMMA HandlersTruthful ==
    ASSUME RowsInv, call \in Calls, PrincipalOf(call.peer) # {}, incoming.peer = call.peer,
           NEW route, Stands(call, route), NEW given \in Answers(route), IsSuccess(given)
    PROVE  /\ route = "BlobPrepare" => (~given.upload_required => call.id \in stored)
           /\ route # "BlobPrepare" => Own(given)
<1> USE AnswerFields, CallerOwns
<1> DEFINE mine == lookup(call.id, call.generation)
<1>0. /\ RowsOf(mine) = mine
      /\ \A r \in mine : r.id = call.id /\ r.generation = call.generation
  <2>1. \A r \in mine : "row" \notin DOMAIN r /\ r.id = call.id /\ r.generation = call.generation
    BY Zenon DEF RowsInv, lookup
  <2> HIDE DEF mine
  <2> QED
    BY Zenon, <2>1, RowsOfSets
<1> HIDE DEF mine
<1>1. CASE route = "Observe"
  <2> DEFINE generation == IF call.name = "observe" THEN Nothing ELSE call.generation
             found == load_snapshot_for_principal(call.id, generation, Caller)
  <2>1. given = Fine(found)
    BY ZenonT(30), <1>1 DEF Answers, observe
  <2>2. \A r \in found : r \in known /\ r.id = call.id /\ r.principal = Caller /\ generation \in {Nothing, r.generation}
    BY Zenon DEF load_snapshot_for_principal
  <2>3. RowsOf(found) = found
    BY Zenon, <2>2, RowsOfSets DEF RowsInv
  <2>4. call.name \in {"observe", "observe_generation"} /\ call.generation # Nothing
    BY Zenon, <1>1, NodeClientAssumption DEF Stands
  <2>5. \A r \in found : call.name # "observe" => r.generation = call.generation
    BY Zenon, <2>2, <2>4
  <2> HIDE DEF found
  <2> QED
    BY Zenon, <1>1, <2>1, <2>2, <2>3, <2>4, <2>5 DEF Own, OwnAmong
<1>2. CASE route = "Events"
  <2>1. given = Fine(mine) /\ \A r \in mine : Mine(r)
    BY ZenonT(30), <1>2 DEF Answers, events_route, mine
  <2> QED
    BY Zenon, <1>0, <1>2, <2>1 DEF Own, OwnAmong, Mine
<1>3. CASE route \in {"Cancel", "Renew"}
  <2>1. given \in control
    BY ZenonT(30), <1>3 DEF Answers
  <2> QED
    BY ZenonT(30), <2>1 DEF control
<1>4. CASE route = "Execute"
  <2>1. given \in ExecuteReplies
    BY ZenonT(30), <1>4 DEF Answers
  <2>2. CASE mine = {}
    <3>1. PICK r \in Reservable(call.id, Caller, call.lease) : r.generation = call.generation /\ given = Fine({r})
      BY ZenonT(30), <2>1, <2>2 DEF ExecuteReplies, mine
    <3>2. r.id = call.id /\ r.principal = Caller /\ r.lease = call.lease /\ "row" \notin DOMAIN r
      BY DEF Reservable
    <3>3. RowsOf({r}) = {r}
      <4> DEFINE one == {r}
      <4>1. \A q \in one : "row" \notin DOMAIN q
        BY Zenon, <3>2
      <4> HIDE DEF one
      <4>2. RowsOf(one) = one
        BY Zenon, <4>1, RowsOfSets
      <4> QED
        BY Zenon, <4>2 DEF one
    <3> QED
      BY Zenon, <1>4, <3>1, <3>2, <3>3 DEF Own, OwnAmong
  <2>3. CASE mine # {}
    <3>1. /\ given = Fine(mine)
          /\ \A r \in mine : r.principal = Caller /\ r.lease = call.lease
      BY ZenonT(30), <2>1, <2>3 DEF ExecuteReplies, mine
    <3> QED
      BY Zenon, <1>0, <1>4, <3>1 DEF Own, OwnAmong
  <2> QED
    BY <2>2, <2>3
<1>5. CASE route = "ArtifactList"
  <2> DEFINE found == {a \in produced : /\ a.row.id = call.id /\ a.row.generation = call.generation
                                        /\ a.row.principal = Caller}
  <2>1. given = Fine(found)
    BY ZenonT(30), <1>5 DEF Answers, artifact_list
  <2>2. \A r \in RowsOf(found) : r.id = call.id /\ r.generation = call.generation /\ r.principal = Caller
    <3>1. found \in SUBSET produced
      BY Zenon
    <3>2. \A r \in RowsOf(found) : \E a \in found : r = a.row
      BY Zenon, <3>1, RowsOfSets
    <3> QED
      BY Zenon, <3>2
  <2>3. call.name = "artifacts"
    BY Zenon, <1>5 DEF Stands
  <2> QED
    BY Zenon, <1>5, <2>1, <2>2, <2>3 DEF Own, OwnAmong
<1>6. CASE route = "ArtifactDownload"
  <2> DEFINE found == {a \in produced : a.id = call.id /\ a.row.principal = Caller}
  <2>1. given = Fine(found)
    BY ZenonT(30), <1>6 DEF Answers, artifact_download
  <2>2. \A r \in RowsOf(found) : r.principal = Caller
    <3>1. found \in SUBSET produced
      BY Zenon
    <3>2. \A r \in RowsOf(found) : \E a \in found : r = a.row
      BY Zenon, <3>1, RowsOfSets
    <3> QED
      BY Zenon, <3>2
  <2>3. call.name = "download_artifact"
    BY Zenon, <1>6 DEF Stands
  <2> QED
    BY Zenon, <1>6, <2>1, <2>2, <2>3 DEF Own, OwnAmong
<1>7. CASE route = "BlobPrepare"
  <2>1. given \in blob_prepare
    BY ZenonT(30), <1>7 DEF Answers
  <2>2. call.id \notin stored => given = [upload_required |-> TRUE]
    BY ZenonT(30), <2>1 DEF blob_prepare
  <2>3. [upload_required |-> TRUE].upload_required
    OBVIOUS
  <2> QED
    BY Zenon, <1>7, <2>2, <2>3
<1>8. CASE route \notin {"Observe", "Events", "Cancel", "Renew", "Execute", "ArtifactList", "ArtifactDownload", "BlobPrepare"}
  <2>1. given = Fine({})
    BY ZenonT(30), <1>8 DEF Answers, blob_download
  <2> QED
    BY Zenon, <1>8, <2>1, RowsOfSets DEF Own, OwnAmong
<1> QED
  BY ZenonT(30), <1>1, <1>2, <1>3, <1>4, <1>5, <1>6, <1>7, <1>8

\* What execute answers with is the row of an execution.
LEMMA ExecuteRows ==
    ASSUME RowsInv, NEW given \in Answers("Execute"), IsSuccess(given), NEW r \in given.rows
    PROVE  "row" \notin DOMAIN r
<1> USE AnswerFields
<1>1. given \in ExecuteReplies
  BY ZenonT(30) DEF Answers
<1>2. \A q \in Reservable(call.id, Caller, call.lease) : "row" \notin DOMAIN q
  BY DEF Reservable
<1>3. \A q \in lookup(call.id, call.generation) : "row" \notin DOMAIN q
  BY Zenon DEF lookup, RowsInv
<1>4. CASE lookup(call.id, call.generation) = {}
  <2>1. PICK q \in Reservable(call.id, Caller, call.lease) : given = Fine({q})
    BY ZenonT(30), <1>1, <1>4 DEF ExecuteReplies
  <2>2. r \in {q}
    BY <2>1 DEF Fine
  <2> QED
    BY Zenon, <1>2, <2>2
<1>5. CASE lookup(call.id, call.generation) # {}
  <2>1. given = Fine(lookup(call.id, call.generation))
    BY ZenonT(30), <1>1, <1>5 DEF ExecuteReplies
  <2> QED
    BY Zenon, <1>3, <2>1
<1> QED
  BY <1>4, <1>5

\* What a call has returned stays true while rows are added.
LEMMA TruthKept ==
    ASSUME AnswersTrue, UNCHANGED <<call, gave>>, known \subseteq known', seen => seen'
    PROVE  AnswersTrue'
<1>1. gave # Nothing /\ IsSuccess(gave) => OwnAmong(gave, call, known)
  BY Zenon, OwnIsOwnOnly DEF AnswersTrue, Own
<1>2. gave # Nothing /\ IsSuccess(gave) => OwnAmong(gave, call, known')
  BY Zenon, <1>1, OwnGrows
<1>3. OwnOnly'
  BY ZenonT(30), <1>2 DEF OwnOnly, OwnAmong, Asked
<1> QED
  BY Zenon, <1>3 DEF AnswersTrue, UploadLands

\* A handler answers.
LEMMA ServeStep == ASSUME ClientInv, Serve PROVE ClientInv'
<1>1. /\ Handle /\ UNCHANGED <<call, turn, gave, produced, incoming>>
      /\ stage = "handle" /\ stage' = "done"
  BY Zenon DEF Serve, Handle, End, nodeVars
<1>2. turn > 0 /\ reply = Nothing /\ PrincipalOf(call.peer) # {} /\ incoming.peer = call.peer
  <2>1. turn # 0
    BY Zenon, <1>1 DEF ClientInv, TurnInv
  <2>2. turn > 0
    BY <2>1 DEF ClientInv, TurnInv
  <2> QED
    BY Zenon, <1>1, <2>2 DEF ClientInv, TurnInv, ReplyInv
<1> DEFINE meant == MeantRoutes(call)[turn]
<1>3. /\ RequestInv /\ turn \in 1..Len(Sent(call)) /\ Stands(call, meant)
      /\ \A r \in operation_for(incoming.method, incoming.path) : r.route = meant
  BY Zenon, <1>2, UnderWay DEF ClientInv
<1>4. RequestInv'
  BY Zenon, <1>1, <1>3, TablesKept
<1>5. \/ answer' = "body_refused" /\ incoming.bytes > ReadLimit(meant)
      \/ answer' \in {meant, "forbidden"}
  BY Zenon, <1>1, <1>3 DEF Handle, End
<1> HIDE DEF meant
<1>6. CallReaches'
  BY Zenon, <1>1, <1>5 DEF CallReaches, meant
<1>7. seen => seen'
  BY Zenon DEF Serve
<1>8. ASSUME UNCHANGED <<reply, nodeVars, seen>>
      PROVE  ReplyInv' /\ RowsInv' /\ known \subseteq known'
  <2>1. UNCHANGED <<known, produced, reply, seen>>
    BY Zenon, <1>8 DEF nodeVars
  <2> QED
    BY Zenon, <1>1, <1>2, <2>1 DEF ClientInv, RowsInv, ReplyInv
<1>9. ASSUME answer' \notin {"body_refused", "forbidden"}
      PROVE  ReplyInv' /\ RowsInv' /\ known \subseteq known'
  <2>1. PICK given \in Answers(meant) :
          /\ reply' = given
          /\ known' = IF answer' = "Execute" /\ IsSuccess(given) THEN known \union given.rows ELSE known
          /\ stored' = IF answer' = "BlobUpload" /\ IsSuccess(given) THEN stored \union {call.id} ELSE stored
    BY Zenon, <1>5, <1>9 DEF Serve
  <2>2. seen' = (seen \/ call.id \in stored')
    BY Zenon, <1>9 DEF Serve
  <2>3. IsSuccess(given) => /\ meant = "BlobPrepare" => (~given.upload_required => call.id \in stored)
                            /\ meant # "BlobPrepare" => Own(given)
    BY Zenon, <1>2, <1>3, HandlersTruthful DEF ClientInv, TurnInv, meant
  <2>4. known \subseteq known' /\ (Own(given) => OwnAmong(given, call, known'))
    <3>1. known \subseteq known'
      BY Zenon, <2>1
    <3> QED
      BY Zenon, <3>1, OwnGrows DEF Own
  <2>5. ASSUME IsSuccess(given)
        PROVE  /\ meant = "BlobPrepare" => (~given.upload_required => seen')
               /\ meant # "BlobPrepare" => OwnAmong(given, call, known')
               /\ meant = "BlobUpload" => seen'
    BY Zenon, <1>5, <1>9, <2>1, <2>2, <2>3, <2>4, <2>5
  <2>6. ReplyInv'
    <3>1. meant' = meant /\ answer' = meant
      BY Zenon, <1>1, <1>5, <1>9 DEF meant
    <3>2. IsSuccess(reply)' => Truthful(answer, reply)'
      BY Zenon, <1>1, <2>1, <2>5, <3>1 DEF Truthful, Own, IsSuccess
    <3> QED
      BY Zenon, <1>1, <1>2, <3>1, <3>2 DEF ReplyInv, meant
  <2>7. ASSUME meant = "Execute", IsSuccess(given), NEW r \in given.rows PROVE "row" \notin DOMAIN r
    BY Zenon, <2>7, ExecuteRows DEF ClientInv
  <2>8. RowsInv'
    BY Zenon, <1>1, <1>5, <1>9, <2>1, <2>7 DEF ClientInv, RowsInv
  <2> QED
    BY Zenon, <2>4, <2>6, <2>8
<1>10. ReplyInv' /\ RowsInv' /\ known \subseteq known'
  BY Zenon, <1>8, <1>9 DEF Serve
<1>11. TurnInv'
  <2>1. turn # 0
    BY <1>2
  <2> QED
    BY Zenon, <1>1, <2>1 DEF ClientInv, TurnInv
<1>12. AnswersTrue'
  BY Zenon, <1>1, <1>7, <1>10, TruthKept DEF ClientInv
<1>13. RecordInv'
  BY Zenon, <1>1 DEF RecordInv
<1> QED
  BY Zenon, <1>4, <1>6, <1>10, <1>11, <1>12, <1>13 DEF ClientInv, TablesAgree, RequestInv

\* A request is sent: one of those of the call.
LEMMA SendStep ==
    ASSUME ClientInv, NEW n \in 1..Len(Sent(call)), SendRequest(call, n),
           UNCHANGED <<call, known, produced>>
    PROVE  TurnInv' /\ RowsInv' /\ RecordInv' /\ ReplyInv' /\ WayInv' /\ TablesAgree'
<1>1. /\ incoming'.method = Sent(call)[n].method /\ incoming'.path = Sent(call)[n].path
      /\ incoming'.bytes = Sent(call)[n].bytes /\ incoming'.peer = call.peer
  BY DEF SendRequest
<1>2. turn' = n /\ stage' = "head" /\ asked' = {} /\ answer' = Nothing /\ reply' = Nothing
  BY Zenon DEF SendRequest
<1>3. n \in 0..Len(Sent(call)) /\ n # 0
  <2>1. Len(Sent(call)) \in Nat
    BY Zenon, CallLeads DEF ClientInv, TurnInv, AllProceed
  <2> QED
    BY <2>1
<1>4. TurnInv'
  BY Zenon, <1>1, <1>2, <1>3, "head" \notin {"handle", "record"} DEF TurnInv, ClientInv
<1>5. Nothing # "body_refused" /\ "head" \notin {"handle", "record", "done"}
  BY RequestsAssumption
<1>6. TablesAgree'
  BY Zenon, <1>2, <1>5 DEF TablesAgree, BodyAdmitted, AskedAboutTarget, CallReaches
<1> QED
  BY Zenon, <1>2, <1>4, <1>5, <1>6 DEF ClientInv, RowsInv, RecordInv, ReplyInv, WayInv

\* The call returns; what it returns has to be true.
LEMMA ReturnStep ==
    ASSUME ClientInv, NEW given, Return(given),
           IsSuccess(given) => Own(given) /\ (call.name = "upload_blob" => seen)
    PROVE  ClientInv'
<1>1. UNCHANGED <<call, turn, reply, known, stored, produced, build, seen, incoming, stage, asked, answer>>
  BY Zenon DEF Return, nodeVars, requestVars
<1>2. gave' = given
  BY Zenon DEF Return
<1>3. TurnInv' /\ RowsInv' /\ RecordInv' /\ ReplyInv' /\ WayInv' /\ TablesAgree'
  BY Zenon, <1>1 DEF ClientInv, TurnInv, RowsInv, RecordInv, Asked, ReplyInv, Truthful, Own, WayInv,
                     TablesAgree, BodyAdmitted, AskedAboutTarget, CallReaches
<1>4. AnswersTrue'
  <2>1. OwnOnly'
    BY ZenonT(30), <1>1, <1>2 DEF OwnOnly, Own, OwnAmong, Asked
  <2> QED
    BY Zenon, <1>1, <1>2, <2>1 DEF AnswersTrue, UploadLands
<1> QED
  BY Zenon, <1>3, <1>4 DEF ClientInv

\* The call makes its first request, or returns without one.
LEMMA BeginStep == ASSUME ClientInv, Begin PROVE ClientInv'
<1>1. UNCHANGED <<call, known, stored, produced, build>> /\ turn = 0 /\ gave = Nothing
  BY Zenon DEF Begin, nodeVars
<1>2. CASE SendRequest(call, 1) /\ UNCHANGED gave
  <2>1. Len(Sent(call)) \in Nat \ {0}
    BY Zenon, CallLeads DEF ClientInv, TurnInv, AllProceed
  <2>2. 1 \in 1..Len(Sent(call))
    BY <2>1
  <2>3. AnswersTrue'
    BY Zenon, <1>1, <1>2 DEF AnswersTrue, OwnOnly, UploadLands
  <2> QED
    BY Zenon, <1>1, <1>2, <2>2, <2>3, SendStep DEF ClientInv
<1>3. CASE gave' = [error |-> "InvalidResponse"] /\ UNCHANGED <<turn, requestVars, reply>>
  <2>1. ~IsSuccess(gave')
    BY Zenon, <1>3, AnswerFields DEF Refuse
  <2>2. UNCHANGED <<turn, reply, incoming, stage, asked, answer>>
    BY Zenon, <1>3 DEF requestVars
  <2>3. reply = Nothing
    BY Zenon, <1>1 DEF ClientInv, TurnInv
  <2>4. TurnInv' /\ RowsInv' /\ RecordInv' /\ ReplyInv' /\ WayInv' /\ TablesAgree'
    BY Zenon, <1>1, <2>2, <2>3 DEF ClientInv, TurnInv, RowsInv, RecordInv, Asked, ReplyInv, WayInv, TablesAgree,
                                   BodyAdmitted, AskedAboutTarget, CallReaches
  <2>5. AnswersTrue'
    BY Zenon, <2>1 DEF AnswersTrue, OwnOnly, UploadLands
  <2> QED
    BY Zenon, <2>4, <2>5 DEF ClientInv
<1> QED
  BY Zenon, <1>2, <1>3 DEF Begin

\* The next request of the call.
LEMMA ContinueStep == ASSUME ClientInv, turn > 0, turn < Len(Sent(call)), Continue PROVE ClientInv'
<1>1. UNCHANGED <<call, gave, known, stored, produced, build, seen>> /\ SendRequest(call, turn + 1)
  BY Zenon DEF Continue, nodeVars
<1>2. turn + 1 \in 1..Len(Sent(call))
  <2>1. Len(Sent(call)) \in Nat /\ turn \in 0..Len(Sent(call))
    BY Zenon, CallLeads DEF ClientInv, TurnInv, AllProceed
  <2> QED
    BY <2>1
<1>3. AnswersTrue'
  BY Zenon, <1>1, TruthKept DEF ClientInv
<1> QED
  BY Zenon, <1>1, <1>2, <1>3, SendStep DEF ClientInv

\* An error is returned, whatever it is called.
LEMMA ErrorStep == ASSUME ClientInv, NEW code, Return([error |-> code]) PROVE ClientInv'
<1>1. ~IsSuccess([error |-> code])
  BY Zenon, AnswerFields DEF Refuse
<1> QED
  BY Zenon, <1>1, ReturnStep

\* The checks of cancel and renew pass.
LEMMA ControlCheckedStep == ASSUME ClientInv, ControlChecked PROVE ClientInv'
<1>1. /\ UNCHANGED <<incoming, asked, answer, call, turn, reply, gave, known, stored, produced, build, seen>>
      /\ stage = "handle" /\ stage' = "record" /\ control = {}
  BY Zenon DEF ControlChecked, nodeVars
<1>2. turn # 0 /\ turn > 0 /\ PrincipalOf(call.peer) # {} /\ incoming.peer = call.peer /\ reply = Nothing
  <2>1. turn # 0
    BY Zenon, <1>1 DEF ClientInv, TurnInv
  <2>2. turn > 0
    BY <2>1 DEF ClientInv, TurnInv
  <2> QED
    BY Zenon, <1>1, <2>1, <2>2 DEF ClientInv, TurnInv, ReplyInv
<1>3. MeantRoutes(call)[turn] \in {"Cancel", "Renew"}
  BY Zenon, <1>2, UnderWay DEF ClientInv, ControlChecked
<1>4. \E q \in known : Asked(q) /\ q.lease = call.lease
  <2>1. PICK q \in lookup(call.id, call.generation) : Mine(q)
    BY ZenonT(30), <1>1 DEF control
  <2> QED
    BY Zenon, <1>2, <2>1, CallerOwns DEF lookup, Mine, Asked
<1>5. RecordInv'
  BY Zenon, <1>1, <1>3, <1>4 DEF RecordInv, Asked
<1>6. TurnInv' /\ RowsInv' /\ ReplyInv' /\ WayInv'
  BY Zenon, <1>1, <1>2 DEF ClientInv, TurnInv, RowsInv, ReplyInv, WayInv
<1>7. TablesAgree'
  BY Zenon, <1>1 DEF ClientInv, TablesAgree, BodyAdmitted, AskedAboutTarget, CallReaches
<1>8. AnswersTrue'
  BY Zenon, <1>1, TruthKept DEF ClientInv
<1> QED
  BY Zenon, <1>5, <1>6, <1>7, <1>8 DEF ClientInv

\* The record is found and answered with: it is the one the call named, or a later one with
\* its lease.
LEMMA ControlAnsweredStep == ASSUME ClientInv, ControlAnswered PROVE ClientInv'
<1>1. /\ UNCHANGED <<incoming, asked, call, turn, gave, known, stored, produced, build, seen>>
      /\ stage = "record" /\ stage' = "done" /\ reply' \in control_record
  BY Zenon DEF ControlAnswered, End, nodeVars
<1>2. turn # 0 /\ turn > 0
  <2>1. turn # 0
    BY Zenon, <1>1 DEF ClientInv, TurnInv
  <2> QED
    BY <2>1 DEF ClientInv, TurnInv
<1> DEFINE meant == MeantRoutes(call)[turn]
<1>3. /\ Stands(call, meant) /\ meant \in {"Cancel", "Renew"}
      /\ \A r \in operation_for(incoming.method, incoming.path) : r.route = meant
  BY Zenon, <1>1, <1>2, UnderWay DEF ClientInv, RecordInv
<1>4. answer' = meant
  BY Zenon, <1>3 DEF ControlAnswered, End
<1>5. call.name \in {"cancel", "renew"} /\ meant \notin {"BlobPrepare", "BlobUpload", "body_refused"}
  BY Zenon, <1>3 DEF Stands
<1> HIDE DEF meant
<1>6. ASSUME IsSuccess(reply') PROVE OwnAmong(reply', call, known)
  <2> DEFINE latest == {r \in known : r.id = call.id /\ \A s \in known : s.id = r.id => s.generation =< r.generation}
  <2>1. \A e \in [error : {"execution_not_found", "execution_terminal", "lease_expired"}] : ~IsSuccess(e)
    BY DEF IsSuccess
  <2>2. reply' = Fine(latest) /\ \A r \in latest : r.lease = call.lease
    BY ZenonT(30), <1>1, <1>6, <2>1, AnswerFields DEF control_record
  <2>3. RowsOf(reply'.rows) = latest
    <3>1. \A r \in latest : "row" \notin DOMAIN r
      BY Zenon DEF ClientInv, RowsInv
    <3> HIDE DEF latest
    <3>2. RowsInv
      BY Zenon DEF ClientInv
    <3>3. RowsOf(latest) = latest
      BY Zenon, <3>1, <3>2, RowsOfSets
    <3> QED
      BY Zenon, <2>2, <3>3, AnswerFields
  <2>4. PICK q \in known : Asked(q) /\ q.lease = call.lease
    BY Zenon, <1>1 DEF ClientInv, RecordInv
  <2>5. \A r \in latest : r.id = call.id /\ q.generation =< r.generation
    BY Zenon, <2>4 DEF Asked
  <2> HIDE DEF latest
  <2> QED
    BY ZenonT(30), <1>5, <2>2, <2>3, <2>4, <2>5 DEF OwnAmong, Asked
<1>7. ReplyInv'
  BY Zenon, <1>1, <1>2, <1>4, <1>5, <1>6 DEF ReplyInv, Truthful, Own, IsSuccess, meant
<1>8. TurnInv' /\ RowsInv' /\ RecordInv'
  BY Zenon, <1>1, <1>2 DEF ClientInv, TurnInv, RowsInv, RecordInv
<1>9. WayInv' /\ BodyAdmitted' /\ CallReaches'
  BY Zenon, <1>1, <1>4, <1>5 DEF WayInv, BodyAdmitted, CallReaches, meant
<1>10. AskedAboutTarget'
  <2>1. ASSUME NEW r \in operation_for(incoming.method, incoming.path),
               NEW resource \in ActsOn(r.route, incoming.body) \union Optional(r.target, r.target)
        PROVE  Question(r.operation, resource) \in asked
    <3>1. ActsOn(r.route, incoming.body) = {}
      BY ZenonT(30), <1>3 DEF ActsOn, meant
    <3>2. resource = r.target
      BY Zenon, <2>1, <3>1 DEF Optional
    <3> QED
      BY Zenon, <1>1, <3>2, ResourceIsTarget DEF ClientInv, WayInv
  <2> QED
    BY Zenon, <1>1, <2>1 DEF AskedAboutTarget
<1>11. AnswersTrue'
  BY Zenon, <1>1, TruthKept DEF ClientInv
<1> QED
  BY Zenon, <1>7, <1>8, <1>9, <1>10, <1>11 DEF ClientInv, TablesAgree

\* What the call makes of the answer.
LEMMA TakeAnswerStep == ASSUME ClientInv, TakeAnswer PROVE ClientInv'
<1>1. turn > 0 /\ gave = Nothing /\ stage = "done"
  BY Zenon DEF TakeAnswer
<1>2. \A code : Failed(code) => ClientInv'
  BY Zenon, ErrorStep DEF Failed
<1>3. CASE reply = Nothing \/ ~IsSuccess(reply)
  BY Zenon, <1>2, <1>3 DEF TakeAnswer
<1>4. CASE reply # Nothing /\ IsSuccess(reply)
  <2>1. /\ answer = MeantRoutes(call)[turn] /\ Truthful(answer, reply)
        /\ Stands(call, answer)
        /\ answer = "BlobPrepare" => turn < Len(Sent(call))
    BY Zenon, <1>1, <1>4, UnderWay DEF ClientInv, ReplyInv
  <2>2. CASE turn < Len(Sent(call)) /\ answer = "Capabilities"
    <3>1. Compatible
      BY Zenon, <1>4, <2>2 DEF TakeAnswer
    <3> QED
      BY Zenon, <1>1, <2>2, <3>1, ErrorStep, ContinueStep DEF Compatible
  <2>3. CASE answer = "BlobPrepare"
    <3>1. "BlobPrepare" # "Capabilities"
      OBVIOUS
    <3>2. IF reply.upload_required THEN Continue ELSE Return(Fine({}))
      BY Zenon, <1>4, <2>3, <3>1 DEF TakeAnswer
    <3>3. Own(Fine({})) /\ (~reply.upload_required => seen)
      BY Zenon, <2>1, <2>3, AnswerFields, RowsOfSets DEF Own, OwnAmong, Truthful, ClientInv
    <3> QED
      BY Zenon, <1>1, <2>1, <2>3, <3>2, <3>3, ContinueStep, ReturnStep
  <2>4. CASE ~(turn < Len(Sent(call)) /\ answer = "Capabilities") /\ answer # "BlobPrepare"
    <3>1. Return(reply)
      BY Zenon, <1>4, <2>4 DEF TakeAnswer
    <3>2. Own(reply) /\ (call.name = "upload_blob" => seen)
      BY Zenon, <2>1, <2>4 DEF Truthful, Stands
    <3> QED
      BY Zenon, <3>1, <3>2, ReturnStep
  <2> QED
    BY Zenon, <2>2, <2>3, <2>4
<1> QED
  BY Zenon, <1>3, <1>4

\* Other clients and the node itself change what it has.
LEMMA OthersStep == ASSUME ClientInv, Others PROVE ClientInv'
<1>1. UNCHANGED <<call, turn, reply, gave, incoming, stage, asked, answer>> /\ (seen => seen')
  BY Zenon DEF Others, requestVars
<1>2. RowsInv'
  <2>1. \A id, principal, lease : \A q \in Reservable(id, principal, lease) : "row" \notin DOMAIN q
    BY DEF Reservable
  <2>2. \A r : "row" \in DOMAIN [id |-> call.id, row |-> r]
    OBVIOUS
  <2>3. ASSUME NEW p \in Owners, NEW lease \in {c.lease : c \in Calls},
               known' = known \union Reservable(call.id, p, lease), UNCHANGED produced
        PROVE  RowsInv'
    BY Zenon, <2>1, <2>3 DEF ClientInv, RowsInv
  <2>4. ASSUME UNCHANGED <<known, produced>> PROVE RowsInv'
    BY Zenon, <2>4 DEF ClientInv, RowsInv
  <2>5. ASSUME produced' \in {{}} \union {{[id |-> call.id, row |-> r]} : r \in known},
               UNCHANGED known
        PROVE  RowsInv'
    BY <2>2, <2>5 DEF ClientInv, RowsInv
  <2> QED
    BY Zenon, <2>3, <2>4, <2>5 DEF Others
<1>3. TurnInv' /\ WayInv' /\ TablesAgree'
  BY Zenon, <1>1 DEF ClientInv, TurnInv, WayInv, TablesAgree, BodyAdmitted, AskedAboutTarget, CallReaches
<1>4. known \subseteq known'
  BY Zenon DEF Others
<1>5. RecordInv'
  BY Zenon, <1>1, <1>4 DEF ClientInv, RecordInv, Asked
<1>6. ReplyInv'
  <2>1. Own(reply) => OwnAmong(reply, call, known')
    BY Zenon, <1>4, OwnGrows DEF Own
  <2> QED
    BY Zenon, <1>1, <2>1 DEF ClientInv, ReplyInv, Truthful, Own
<1>7. AnswersTrue'
  BY Zenon, <1>1, <1>4, TruthKept DEF ClientInv
<1> QED
  BY Zenon, <1>2, <1>3, <1>5, <1>6, <1>7 DEF ClientInv

\* It holds when a call begins, whatever is stored and whoever calls.
LEMMA ClientStart == ASSUME ClientInit PROVE ClientInv
<1>1. Nothing # "body_refused"
  BY RequestsAssumption
<1>2. Len(Sent(call)) \in Nat \ {0}
  BY Zenon, CallLeads DEF ClientInit, AllProceed
<1>3. turn \in 0..Len(Sent(call)) /\ ~(turn > 0) /\ turn = 0
  BY <1>2 DEF ClientInit
<1>4. "done" \notin {"handle", "record"}
  OBVIOUS
<1>5. TurnInv
  BY Zenon, <1>3, <1>4 DEF ClientInit, TurnInv
<1> QED
  BY Zenon, <1>1, <1>3, <1>4, <1>5 DEF ClientInit, ClientInv, RowsInv, RecordInv, ReplyInv, WayInv, TablesAgree, BodyAdmitted,
     AskedAboutTarget, CallReaches, AnswersTrue, OwnOnly, UploadLands

\* Every step of a call keeps the invariant.
LEMMA ClientStep == ASSUME ClientInv, [ClientNext]_clientVars PROVE ClientInv'
<1>1. CASE UNCHANGED clientVars
  <2>1. UNCHANGED <<call, turn, reply, gave, known, produced, seen, incoming, stage, asked, answer>>
    BY Zenon, <1>1 DEF clientVars, requestVars
  <2> QED
    BY ZenonT(30), <2>1 DEF ClientInv, TurnInv, RowsInv, RecordInv, Asked, ReplyInv, Truthful, Own, WayInv, TablesAgree,
       BodyAdmitted, AskedAboutTarget, CallReaches, AnswersTrue, OwnOnly, UploadLands
<1>2. CASE Lose
  BY Zenon, <1>2, ErrorStep DEF Lose
<1> QED
  BY Zenon, <1>1, <1>2, BeginStep, TravelStep, ServeStep, ControlCheckedStep, ControlAnsweredStep, TakeAnswerStep, OthersStep DEF ClientNext

\* For every set of calls, every build of the node and every policy: the paths the client
\* builds and the three tables of the node for bodies, routes and resources agree on every
\* request (NodeClient, operation_for, request_body_policy, resource_for_path).
THEOREM TablesAgreeHolds == ClientSpec => []TablesAgree
<1>1. ClientInv => TablesAgree
  BY Zenon DEF ClientInv
<1> QED
  BY ClientStart, ClientStep, <1>1, PTL DEF ClientSpec

\* For every set of calls and whatever other clients do between two requests of a call:
\* what a call returns is of its own principal's executions and of the generation and the
\* lease it named, save that cancel and renew may return a later generation that has the
\* same lease, and an upload that returns has been stored (NodeClient, the handlers).
THEOREM AnswersTrueHolds == ClientSpec => []AnswersTrue
<1>1. ClientInv => AnswersTrue
  BY ZenonT(30) DEF ClientInv
<1> QED
  BY ClientStart, ClientStep, <1>1, PTL DEF ClientSpec

-----------------------------------------------------------------------------
(* Telemetry.                                                                *)

Entries ==
    [state : States, sample : Sample \union {Absent}, stale : BOOLEAN,
     error : Failing \union {Absent}]

\* What the cache holds: a ready entry has a sample, and one that is not stale was no
\* older than the bound when it came, but for what the wall clock was set by.
CacheInv ==
    /\ entry \in Entries
    /\ entry.state = "ready" =>
          /\ entry.sample # Absent
          /\ ~entry.stale => entry.sample.lag =< Freshness + MaxDrift
    /\ entry.state = "disabled" => entry.sample = Absent

\* The environment, and the loop once the monitor is stopped.
LoopInv ==
    /\ provider \in {"up", "odd", "down"} /\ drift \in 0..MaxDrift
    /\ stopping = "returned" => task \in {"none", "ended"}

TelemetryInv == CacheInv /\ LoopInv

-----------------------------------------------------------------------------
\* A status given carries how old its sample is and the clock that stamped it.
LEMMA ReplyTyped ==
    ASSUME LoopInv, NEW given \in Replies, given.kind = "status"
    PROVE  given.lag \in 0..MaxLag /\ given.then \in 0..MaxDrift
<1> USE TelemetryAssumption
<1>1. CASE provider = "up"
  <2>1. given = [kind |-> "status", lag |-> 0, then |-> drift]
    BY <1>1 DEF Replies
  <2> QED
    BY <2>1 DEF LoopInv
<1>2. CASE provider = "odd"
  <2>1. \/ given \in [kind : {"status"}, lag : 0..MaxLag, then : 0..MaxDrift]
        \/ given \in [kind : {"warming"} \union (Failing \ {"clock_skew"})]
    BY <1>2 DEF Replies
  <2>2. given \notin [kind : {"warming"} \union (Failing \ {"clock_skew"})]
    BY DEF Failing
  <2> QED
    BY <2>1, <2>2
<1>3. CASE provider = "down"
  <2>1. given \in [kind : {"connection", "timeout"}]
    BY SMTT(30), <1>3 DEF Replies
  <2> QED
    BY <2>1
<1> QED
  BY SMTT(30), <1>1, <1>2, <1>3 DEF LoopInv

\* An observation is recorded with how old the sample was, by the node's own clock.
LEMMA ObservationKept ==
    ASSUME LoopInv, NEW given \in Replies, Observe(given) = "observed",
           RecordObservation(given)
    PROVE  CacheInv'
<1> USE TelemetryAssumption
<1>1. given.kind = "status"
  BY DEF Observe, LoopInv, Replies, Failing
<1>2. given.lag \in 0..MaxLag /\ given.then \in 0..MaxDrift /\ drift \in 0..MaxDrift
  BY SMTT(30), <1>1, ReplyTyped DEF LoopInv
<1>3. [lag |-> given.lag, age |-> 0] \in Sample
  BY SMTT(30), <1>2 DEF Sample
<1>4. [lag |-> given.lag, age |-> 0] # Absent
  BY <1>2
<1>5. ~IsProviderSampleStale(given) => given.lag =< Freshness + MaxDrift
  BY SMTT(30), <1>2 DEF IsProviderSampleStale, Apparent
<1>6. IsProviderSampleStale(given) \in BOOLEAN
  BY SMTT(30) DEF IsProviderSampleStale
<1>7. entry' \in Entries
  BY SMTT(30), <1>3, <1>6 DEF RecordObservation, Entries, States
<1> QED
  BY SMTT(30), <1>4, <1>5, <1>7 DEF RecordObservation, CacheInv

\* One turn of refresh_loop keeps the invariant.
LEMMA RefreshedInv == TelemetryInv /\ Refreshed => TelemetryInv'
<1> SUFFICES ASSUME TelemetryInv, Refreshed PROVE TelemetryInv'
  OBVIOUS
<1>1. PICK given \in Replies :
        \/ Observe(given) = "observed" /\ RecordObservation(given)
        \/ Observe(given) = "warming" /\ RecordWarming
        \/ Observe(given) \in Failing /\ RecordFailure(Observe(given))
  BY DEF Refreshed
<1>2. LoopInv'
  BY DEF Refreshed, TelemetryInv, LoopInv
<1>3. CASE Observe(given) = "observed" /\ RecordObservation(given)
  BY <1>2, <1>3, ObservationKept DEF TelemetryInv
<1>4. CASE RecordWarming
  BY Zenon, <1>2, <1>4 DEF RecordWarming, TelemetryInv, CacheInv, Entries, States
<1>5. CASE Observe(given) \in Failing /\ RecordFailure(Observe(given))
  <2> DEFINE error == Observe(given)
  <2>1. error \in Failing
    BY <1>5
  <2>2. entry' = [entry EXCEPT !.state = IF error = "invalid" THEN "invalid" ELSE "unavailable",
                               !.error = error]
    BY <1>5 DEF RecordFailure
  <2> HIDE DEF error
  <2>3. entry' \in Entries /\ entry'.state \in {"invalid", "unavailable"}
    BY Zenon, <2>1, <2>2 DEF TelemetryInv, CacheInv, Entries, States
  <2> QED
    BY <1>2, <2>3 DEF TelemetryInv, CacheInv
<1> QED
  BY SMTT(30), <1>1, <1>3, <1>4, <1>5

\* A sample that ages keeps the age it came with.
LEMMA PassInv == TelemetryInv /\ Pass => TelemetryInv'
<1> SUFFICES ASSUME TelemetryInv, Pass PROVE TelemetryInv'
  OBVIOUS
<1> USE TelemetryAssumption
<1>1. LoopInv'
  BY DEF Pass, TelemetryInv, LoopInv
<1>2. CASE entry.sample = Absent
  BY <1>1, <1>2 DEF Pass, TelemetryInv, CacheInv
<1>3. CASE entry.sample # Absent
  <2> DEFINE older == Least(entry.sample.age + 1, Freshness + 1)
  <2>1. entry.sample \in Sample
    BY <1>3 DEF TelemetryInv, CacheInv, Entries
  <2>2. older \in 0..Freshness + 1
    BY <2>1 DEF Sample, Least
  <2>3. entry' = [entry EXCEPT !.sample.age = older]
    BY <1>3 DEF Pass
  <2> HIDE DEF older
  <2>4. entry \in Entries
    BY DEF TelemetryInv, CacheInv
  <2>5. /\ entry'.sample = [entry.sample EXCEPT !.age = older]
        /\ entry'.state = entry.state /\ entry'.stale = entry.stale
        /\ entry' \in [state : States, sample : {entry'.sample}, stale : BOOLEAN,
                       error : Failing \union {Absent}]
    BY <2>3, <2>4 DEF Entries
  <2>6. /\ entry'.sample \in Sample /\ entry'.sample.lag = entry.sample.lag
    BY <2>1, <2>2, <2>5 DEF Sample
  <2>7. entry'.sample # Absent
    BY <2>6 DEF Sample
  <2>8. entry' \in Entries
    BY SMTT(30), <2>5, <2>6 DEF Entries
  <2> QED
    BY Zenon, <1>1, <1>3, <2>5, <2>6, <2>7, <2>8 DEF TelemetryInv, CacheInv
<1> QED
  BY <1>2, <1>3

\* A new monitor satisfies the invariant.
LEMMA TelemetryStart == TelemetryInit => TelemetryInv
  BY TelemetryAssumption
     DEF TelemetryInit, TelemetryInv, CacheInv, LoopInv, Entries, States

\* Every step keeps the invariant.
LEMMA TelemetryStep == TelemetryInv /\ [TelemetryNext]_telemetryVars => TelemetryInv'
<1> SUFFICES ASSUME TelemetryInv, [TelemetryNext]_telemetryVars PROVE TelemetryInv'
  BY SMTT(30)
<1>1. CASE Wake \/ StopMonitor \/ AbortMonitor
  BY SMTT(30), <1>1 DEF Wake, StopMonitor, AbortMonitor, TelemetryInv, CacheInv, LoopInv
<1>2. CASE Change
  BY SMTT(30), <1>2 DEF Change, TelemetryInv, CacheInv, LoopInv
<1>3. CASE UNCHANGED telemetryVars
  BY <1>3 DEF telemetryVars, TelemetryInv, CacheInv, LoopInv
<1> QED
  BY Zenon, <1>1, <1>2, <1>3, RefreshedInv, PassInv DEF TelemetryNext

\* The invariant holds in every reachable state.
LEMMA TelemetryInvariant == TelemetrySpec => []TelemetryInv
  BY TelemetryStart, TelemetryStep, PTL DEF TelemetrySpec

-----------------------------------------------------------------------------
\* No sample is served as ready that is older than the bound of ReadyIsRecent, for any
\* intervals and any setting of the wall clock.
THEOREM ReadyRecent == TelemetrySpec => []ReadyIsRecent
<1>1. TelemetryInv => ReadyIsRecent
  <2> SUFFICES ASSUME TelemetryInv, Served.state = "ready"
               PROVE  Served.sample.lag + Served.sample.age =< 2 * Freshness + MaxDrift
    BY DEF ReadyIsRecent
  <2>1. entry.state = "ready" /\ ~entry.stale /\ ~(entry.sample.age > Freshness)
    BY DEF Served, TelemetryInv, CacheInv, Entries, States
  <2>2. entry.sample \in Sample /\ entry.sample.lag =< Freshness + MaxDrift
    BY SMTT(30), <2>1 DEF TelemetryInv, CacheInv, Entries
  <2>3. Served.sample = entry.sample
    BY SMTT(30) DEF Served
  <2> QED
    BY SMTT(30), <2>1, <2>2, <2>3, TelemetryAssumption DEF Sample
<1> QED
  BY <1>1, TelemetryInvariant, PTL

\* A client accepts what the node serves, except while the provider warms up.
THEOREM ServedIsAccepted == TelemetrySpec => []ServedAccepted
<1>1. TelemetryInv => ServedAccepted
  BY DEF TelemetryInv, CacheInv, ServedAccepted, Served, Accepts, Entries, States
<1> QED
  BY <1>1, TelemetryInvariant, PTL

\* The cache is sound in every state of the monitor.
THEOREM ServedIsSound == TelemetrySpec => []ServedSound
<1>1. ReadyIsRecent /\ ServedAccepted => ServedSound
  BY DEF ServedSound
<1> QED
  BY <1>1, ReadyRecent, ServedIsAccepted, PTL

\* Nothing is asked or recorded after shutdown has returned.
THEOREM QuietWhenStopped == TelemetrySpec => QuietAfterShutdown
<1> DEFINE Quiet ==
      stopping = "returned" =>
          /\ task' = task /\ task \in {"none", "ended"}
          /\ entry'.state = entry.state /\ entry'.error = entry.error
<1>1. TelemetryInv /\ [TelemetryNext]_telemetryVars => [Quiet]_telemetryVars
  <2> SUFFICES ASSUME TelemetryInv, TelemetryNext, stopping = "returned" PROVE Quiet
    OBVIOUS
  <2>1. task \in {"none", "ended"}
    BY DEF TelemetryInv, LoopInv
  <2>2. CASE Pass
    BY SMTT(30), <2>1, <2>2 DEF Pass, TelemetryInv, CacheInv, Entries
  <2>3. CASE Refreshed \/ Wake \/ StopMonitor \/ AbortMonitor \/ Change
    BY <2>1, <2>3 DEF Refreshed, Wake, StopMonitor, AbortMonitor, Change
  <2> QED
    BY SMTT(30), <2>2, <2>3 DEF TelemetryNext
<1>2. QuietAfterShutdown <=> [][Quiet]_telemetryVars
  BY DEF QuietAfterShutdown
<1> QED
  BY <1>1, <1>2, TelemetryInvariant, PTL DEF TelemetrySpec

-----------------------------------------------------------------------------
(* Deployment.                                                               *)

\* The handler that holds the lock of the executions is one of the server that is up, and
\* there is at most one.
HandlersInv ==
    /\ \A h \in Handlers : handler[h] = "held" => daemon.up /\ startOf[h] = starts
    /\ \A g, h \in Handlers : handler[g] = "held" /\ handler[h] = "held" => g = h

NobodyHolds == \A h \in Handlers : handler[h] # "held"

\* The one row that may follow the marker is that of the handler that held the lock
\* when the marker was set; after it nobody holds the lock.
LateInv ==
    /\ ~marker => late = {}
    /\ \/ late = {}
       \/ /\ \E h \in Handlers : late = {h}
          /\ NobodyHolds

\* An update that has not set the marker yet is not marked, and a marked one that has
\* failed was told.
UpdateInv ==
    /\ update.step \in {"idle", "planned"} => ~update.marked
    /\ update.step = "failed" /\ update.marked => update.told

DeploymentInv == DeploymentTypeOK /\ HandlersInv /\ LateInv /\ UpdateInv

-----------------------------------------------------------------------------
\* A node that was never started satisfies the invariant.
LEMMA DeploymentStart == DeploymentInit => DeploymentInv
<1> SUFFICES ASSUME DeploymentInit PROVE DeploymentInv
  OBVIOUS
<1>1. DeploymentTypeOK
  BY StartsAssumption DEF DeploymentInit, DeploymentTypeOK, Steps, Members, Releases
<1>2. HandlersInv
  BY DEF DeploymentInit, HandlersInv
<1>3. LateInv
  BY DEF DeploymentInit, LateInv
<1>4. UpdateInv
  BY DEF DeploymentInit, UpdateInv
<1> QED
  BY <1>1, <1>2, <1>3, <1>4 DEF DeploymentInv

\* What update may be.
Updates == [step : Steps, force : BOOLEAN, marked : BOOLEAN, told : BOOLEAN, wasUp : BOOLEAN]

\* The two ways a step of an update ends keep its type.
LEMMA UpdateTyped ==
    ASSUME update \in Updates, NEW from \in Steps, NEW to \in Steps,
           UpdateStep(from, to) \/ Told(from)
    PROVE  update' \in Updates
  BY Zenon DEF Updates, UpdateStep, Told, Steps

\* A process that ends takes the lock of the executions from its handlers.
LEMMA EndedTyped ==
    ASSUME DeploymentTypeOK, NEW start, handler' = Ended(start)
    PROVE  /\ handler' \in [Handlers -> {"new", "checked", "held", "running", "over"}]
           /\ \A h \in Handlers : handler'[h] = "held" => handler[h] = "held" /\ startOf[h] # start
  BY DEF Ended, DeploymentTypeOK

\* A step after which no other handler holds the lock, with the marker and its rows as they
\* were, keeps what is said of handlers and rows.
LEMMA HoldersKept ==
    ASSUME HandlersInv, LateInv, UNCHANGED <<marker, late>>,
           \A h \in Handlers : handler'[h] = "held" =>
              /\ handler[h] = "held"
              /\ daemon'.up /\ startOf'[h] = starts'
    PROVE  HandlersInv' /\ LateInv'
  BY DEF HandlersInv, LateInv, NobodyHolds

\* The steps of the daemon.
LEMMA DaemonSteps ==
    ASSUME DeploymentInv, StartDaemon \/ DaemonEnds \/ Interrupt \/ ServerDropped \/ ProcessEnds
    PROVE  DeploymentInv'
<1> USE DEF DeploymentInv
<1>0. UpdateInv'
  BY DEF StartDaemon, DaemonEnds, Interrupt, ServerDropped, ProcessEnds, UpdateInv
<1>1. CASE StartDaemon
  <2>1. DeploymentTypeOK'
    BY SMTT(30), <1>1, StartsAssumption DEF StartDaemon, Launch, DeploymentTypeOK, Steps, Members, Releases
  <2>2. HandlersInv' /\ LateInv'
    BY SMTT(30), <1>1 DEF StartDaemon, Launch, HandlersInv, LateInv, NobodyHolds
  <2> QED
    BY Zenon, <1>0, <2>1, <2>2
<1>2. CASE DaemonEnds
  <2>1. DeploymentTypeOK'
    BY SMTT(30), <1>2, EndedTyped DEF DaemonEnds, Dies, DeploymentTypeOK
  <2>2. NobodyHolds'
    BY SMTT(30), <1>2, EndedTyped DEF DaemonEnds, Dies, HandlersInv, NobodyHolds
  <2>3. HandlersInv' /\ LateInv'
    BY Zenon, <1>2, <2>2, HoldersKept DEF DaemonEnds, NobodyHolds
  <2> QED
    BY Zenon, <1>0, <2>1, <2>3
<1>3. CASE Interrupt
  <2>1. DeploymentTypeOK' /\ daemon'.up = daemon.up
    BY Zenon, <1>3 DEF Interrupt, DeploymentTypeOK
  <2>2. HandlersInv' /\ LateInv'
    BY SMTT(30), <1>3, <2>1, HoldersKept DEF Interrupt, HandlersInv
  <2> QED
    BY Zenon, <1>0, <2>1, <2>2
<1>4. CASE ServerDropped
  <2>1. DeploymentTypeOK'
    <3>1. daemon' \in [up : BOOLEAN, draining : {"no", "marker", "stop", "store"}] /\ ~daemon'.up
      BY Zenon, <1>4 DEF ServerDropped, DeploymentTypeOK
    <3> QED
      BY Zenon, <1>4, <3>1 DEF ServerDropped, DeploymentTypeOK
  <2>2. NobodyHolds'
    BY <1>4 DEF ServerDropped, MapLockFree, HandlersInv, NobodyHolds
  <2>3. HandlersInv' /\ LateInv'
    BY Zenon, <1>4, <2>2, HoldersKept DEF ServerDropped, NobodyHolds
  <2> QED
    BY Zenon, <1>0, <2>1, <2>3
<1>5. CASE ProcessEnds
  <2>1. PICK start \in 1..starts : handler' = Ended(start)
    BY Zenon, <1>5 DEF ProcessEnds
  <2>2. DeploymentTypeOK'
    BY SMTT(30), <1>5, <2>1, EndedTyped DEF ProcessEnds, DeploymentTypeOK
  <2>3. HandlersInv' /\ LateInv'
    BY SMTT(30), <1>5, <2>1, EndedTyped, HoldersKept DEF ProcessEnds, HandlersInv
  <2> QED
    BY Zenon, <1>0, <2>2, <2>3
<1> QED
  BY Zenon, <1>1, <1>2, <1>3, <1>4, <1>5

\* The steps of execute.  Admit lets nobody take the lock while the marker is set, nor in a
\* process that has lost its server.
LEMMA HandlerSteps ==
    ASSUME DeploymentInv, NEW h \in Handlers,
           CheckDrain(h) \/ Admit(h) \/ ReserveRow(h) \/ Finish(h)
    PROVE  DeploymentInv'
<1> USE DEF DeploymentInv
<1>0. UpdateInv'
  BY Zenon DEF CheckDrain, Admit, ReserveRow, Finish, UpdateInv
<1>1. CASE CheckDrain(h)
  <2>1. DeploymentTypeOK'
    BY SMTT(30), <1>1, StartsAssumption DEF CheckDrain, DeploymentTypeOK
  <2>2. HandlersInv' /\ LateInv'
    BY SMTT(30), <1>1, HoldersKept DEF CheckDrain, HandlersInv, DeploymentTypeOK
  <2> QED
    BY Zenon, <1>0, <2>1, <2>2
<1>2. CASE Admit(h)
  <2>1. DeploymentTypeOK'
    BY SMTT(30), <1>2 DEF Admit, DeploymentTypeOK
  <2>2. HandlersInv'
    BY SMTT(30), <1>2 DEF Admit, HandlersInv, MapLockFree, Draining, Current, DeploymentTypeOK
  <2>3. LateInv'
    BY <1>2 DEF Admit, LateInv, NobodyHolds, Draining, DeploymentTypeOK
  <2> QED
    BY ZenonT(30), <1>0, <2>1, <2>2, <2>3
<1>3. CASE ReserveRow(h)
  <2>1. DeploymentTypeOK'
    BY ZenonT(30), <1>3 DEF ReserveRow, DeploymentTypeOK
  <2>2. HandlersInv'
    BY <1>3 DEF ReserveRow, HandlersInv, DeploymentTypeOK
  <2>3. LateInv'
    <3>1. late = {}
      BY SMTT(30), <1>3 DEF ReserveRow, LateInv, NobodyHolds
    <3>2. NobodyHolds'
      BY <1>3 DEF ReserveRow, HandlersInv, NobodyHolds, DeploymentTypeOK
    <3>3. late' = {} \/ (late' = {h} /\ marker)
      BY Zenon, <1>3, <3>1 DEF ReserveRow
    <3> QED
      BY Zenon, <1>3, <3>2, <3>3 DEF ReserveRow, LateInv
  <2> QED
    BY <1>0, <2>1, <2>2, <2>3
<1>4. CASE Finish(h)
  <2>1. DeploymentTypeOK' /\ daemon'.up = daemon.up
    BY SMTT(30), <1>4 DEF Finish, DeploymentTypeOK
  <2>2. HandlersInv' /\ LateInv'
    BY SMTT(30), <1>4, <2>1, HoldersKept DEF Finish, HandlersInv, DeploymentTypeOK
  <2> QED
    BY <1>0, <2>1, <2>2
<1> QED
  BY SMTT(30), <1>1, <1>2, <1>3, <1>4

\* The commands drain, undrain and gc.
LEMMA CommandSteps ==
    ASSUME DeploymentInv, SetDrain \/ StartGc \/ EndGc
    PROVE  DeploymentInv'
<1> USE DEF DeploymentInv
<1>1. DeploymentTypeOK'
  BY ZenonT(30) DEF SetDrain, StartGc, EndGc, DeploymentTypeOK
<1>2. HandlersInv' /\ UpdateInv'
  BY DEF SetDrain, StartGc, EndGc, HandlersInv, UpdateInv
<1>3. LateInv'
  BY DEF SetDrain, StartGc, EndGc, LateInv, NobodyHolds
<1> QED
  BY Zenon, <1>1, <1>2, <1>3

\* The steps of an update before the service is stopped.
LEMMA PrepareSteps ==
    ASSUME DeploymentInv, Plan \/ Mark \/ Quiesce
    PROVE  DeploymentInv'
<1> USE DEF DeploymentInv
<1>1. DeploymentTypeOK'
  <2>1. update \in Updates
    BY DEF DeploymentTypeOK, Updates
  <2>2. update' \in Updates
    <3>1. CASE Plan \/ Quiesce
      BY <2>1, <3>1, UpdateTyped DEF Plan, Quiesce, Steps
    <3>2. CASE Mark
      <4>1. CASE UpdateStep("planned", "failed")
        BY <2>1, <4>1, UpdateTyped DEF Steps
      <4>2. CASE update' = [update EXCEPT !.step = "marked", !.marked = TRUE]
        BY Zenon, <2>1, <4>2 DEF Updates, Steps
      <4> QED
        BY Zenon, <3>2, <4>1, <4>2 DEF Mark
    <3> QED
      BY <3>1, <3>2
  <2> QED
    BY ZenonT(30), <2>2 DEF Plan, Mark, Quiesce, NodeSame, DeploymentTypeOK, Updates
<1>2. HandlersInv'
  BY Zenon DEF Plan, Mark, Quiesce, NodeSame, HandlersInv
<1>3. LateInv'
  BY Zenon DEF Plan, Mark, Quiesce, NodeSame, LateInv, NobodyHolds
<1>4. UpdateInv'
  BY Zenon DEF Plan, Mark, Quiesce, UpdateStep, Told, UpdateInv, DeploymentTypeOK
<1> QED
  BY SMTT(30), <1>1, <1>2, <1>3, <1>4

\* The steps of an update from there on.
LEMMA ReplaceSteps ==
    ASSUME DeploymentInv, StopService \/ CommitRelease \/ HealthCheck \/ Restore
    PROVE  DeploymentInv'
<1> USE DEF DeploymentInv
<1>1. UpdateInv'
  BY ZenonT(30) DEF StopService, CommitRelease, HealthCheck, Restore, UpdateStep, Told, UpdateInv,
         DeploymentTypeOK
<1> DEFINE Typed == update' \in Updates
<1>typed. update \in Updates
  BY DEF DeploymentTypeOK, Updates
<1>2. CASE StopService
  <2>1. DeploymentTypeOK'
    <3>1. CASE Told("quiet") /\ UNCHANGED <<daemon, lock, handler>>
      <4>1. Typed
        BY <1>typed, <3>1, UpdateTyped DEF Steps
      <4> QED
        BY SMTT(30), <1>2, <3>1, <4>1 DEF StopService, DeploymentTypeOK, Updates
    <3>2. CASE update' = [update EXCEPT !.step = "stopped", !.wasUp = daemon.up] /\ Dies
      <4>1. Typed
        BY Zenon, <1>typed, <3>2 DEF Updates, Steps, DeploymentTypeOK
      <4>2. handler' \in [Handlers -> {"new", "checked", "held", "running", "over"}]
        BY <3>2, EndedTyped DEF Dies
      <4>3. daemon' \in [up : BOOLEAN, draining : {"no", "marker", "stop", "store"}]
        BY <3>2 DEF Dies
      <4>4. lock' \in {"nobody", "gc"} /\ ~daemon'.up
        BY <3>2 DEF Dies, DeploymentTypeOK
      <4> QED
        BY SMTT(30), <1>2, <4>1, <4>2, <4>3, <4>4 DEF StopService, DeploymentTypeOK, Updates
    <3> QED
      BY SMTT(30), <1>2, <3>1, <3>2 DEF StopService
  <2>2. HandlersInv' /\ LateInv'
    <3>1. \A h \in Handlers : handler'[h] = "held" =>
             handler[h] = "held" /\ daemon'.up /\ startOf'[h] = starts'
      BY SMTT(30), <1>2, EndedTyped DEF StopService, Dies, HandlersInv
    <3> QED
      BY Zenon, <1>2, <3>1, HoldersKept DEF StopService
  <2> QED
    BY <1>1, <2>1, <2>2
<1>3. CASE CommitRelease \/ HealthCheck
  <2>1. DeploymentTypeOK'
    <3>1. Typed
      BY Zenon, <1>3, <1>typed, UpdateTyped DEF CommitRelease, HealthCheck, Steps
    <3>2. installed' \in [Members -> Releases]
      BY Zenon, <1>3 DEF CommitRelease, HealthCheck, DeploymentTypeOK, Releases
    <3> QED
      BY <1>3, <3>1, <3>2 DEF CommitRelease, HealthCheck, DeploymentTypeOK, Updates
  <2>2. HandlersInv' /\ LateInv'
    BY Zenon, <1>3 DEF CommitRelease, HealthCheck, HandlersInv, LateInv, NobodyHolds
  <2> QED
    BY <1>1, <2>1, <2>2
<1>4. CASE Restore
  <2>1. DeploymentTypeOK'
    <3>1. Typed
      BY Zenon, <1>4, <1>typed, UpdateTyped DEF Restore, Steps
    <3>2. CASE Launch
      <4>1. starts' \in 0..MaxStarts /\ startOf \in [Handlers -> 0..starts']
        BY <3>2, StartsAssumption DEF Launch, DeploymentTypeOK
      <4>2. /\ daemon' \in [up : BOOLEAN, draining : {"no", "marker", "stop", "store"}]
            /\ daemon'.up /\ lock' = "daemon" /\ active' = {}
        BY Zenon, <3>2 DEF Launch
      <4> QED
        BY Zenon, <1>4, <3>1, <4>1, <4>2 DEF Restore, DeploymentTypeOK, Updates
    <3>3. CASE UNCHANGED <<daemon, starts, lock, active>>
      BY ZenonT(30), <1>4, <3>1, <3>3 DEF Restore, DeploymentTypeOK, Updates
    <3> QED
      BY Zenon, <1>4, <3>2, <3>3 DEF Restore
  <2>2. HandlersInv' /\ LateInv'
    BY Zenon, <1>4 DEF Restore, Launch, HandlersInv, LateInv, NobodyHolds
  <2> QED
    BY <1>1, <2>1, <2>2
<1> QED
  BY <1>2, <1>3, <1>4

\* Every step of the daemon, its handlers and the commands keeps the invariant.
LEMMA DeploymentStep == DeploymentInv /\ [DeploymentNext]_deploymentVars => DeploymentInv'
<1> SUFFICES ASSUME DeploymentInv, [DeploymentNext]_deploymentVars PROVE DeploymentInv'
  OBVIOUS
<1>1. CASE UNCHANGED deploymentVars
  BY <1>1 DEF deploymentVars, DeploymentInv, DeploymentTypeOK, HandlersInv, LateInv, UpdateInv,
              NobodyHolds
<1>2. CASE DeploymentNext
  BY Zenon, <1>2, DaemonSteps, HandlerSteps, CommandSteps, PrepareSteps, ReplaceSteps DEF DeploymentNext
<1> QED
  BY ZenonT(30), <1>1, <1>2

\* The invariant holds in every reachable state.
LEMMA DeploymentInvariant == DeploymentSpec => []DeploymentInv
  BY DeploymentStart, DeploymentStep, PTL DEF DeploymentSpec

-----------------------------------------------------------------------------
\* The state lock is held by the daemon exactly while its NodeServer is there, whatever was
\* started, interrupted or killed (acquire_state_lock).
THEOREM DeploymentTypes == DeploymentSpec => []DeploymentTypeOK
<1>1. DeploymentInv => DeploymentTypeOK
  BY Zenon DEF DeploymentInv
<1> QED
  BY <1>1, DeploymentInvariant, PTL

\* For any number of requests and starts: gc deletes beside no server and beside no handler
\* that can still reserve a row, although handlers outlive the server and its lock
\* (shutdown, execute, acquire_maintenance_lock).
THEOREM GcAdmitsNothing == DeploymentSpec => []NothingAdmittedBesideGc
<1>1. DeploymentInv => NothingAdmittedBesideGc
  BY SMTT(30) DEF DeploymentInv, DeploymentTypeOK, HandlersInv, NothingAdmittedBesideGc
<1> QED
  BY <1>1, DeploymentInvariant, PTL

\* However many requests are in flight when the marker is set, at most one of them still
\* gets a row before it is cleared.
THEOREM LateIsOne == DeploymentSpec => []OneLateExecution
<1>1. DeploymentInv => OneLateExecution
  BY SMTT(30) DEF DeploymentInv, LateInv, OneLateExecution
<1> QED
  BY <1>1, DeploymentInvariant, PTL

\* An update that fails after the marker was set says so.
THEOREM FailureIsTold == DeploymentSpec => []FailureTold
<1>1. DeploymentInv => FailureTold
  BY DEF DeploymentInv, UpdateInv, FailureTold
<1> QED
  BY <1>1, DeploymentInvariant, PTL

-----------------------------------------------------------------------------
(* Output capture.                                                           *)

\* Two sequences with the same items are the same.
LEMMA SameItems ==
    ASSUME NEW S, NEW s \in Seq(S), NEW t \in Seq(S), Len(s) = Len(t),
           \A i \in 1..Len(s) : s[i] = t[i]
    PROVE  s = t
OBVIOUS

\* A run of bytes is a sequence of its length.
LEMMA RunIsSequence ==
    ASSUME NEW a \in Nat, NEW n \in Nat
    PROVE  Run(a, n) \in Seq(Nat) /\ Len(Run(a, n)) = n /\ \A i \in 1..n : Run(a, n)[i] = a + i
  BY DEF Run

\* A part of a run is a run.
LEMMA RunPart ==
    ASSUME NEW a \in Nat, NEW n \in Nat, NEW i \in 1..(n + 1), NEW j \in (i - 1)..n
    PROVE  SubSeq(Run(a, n), i, j) = Run(a + i - 1, j - i + 1)
  <1> DEFINE s == Run(a, n)
             t == SubSeq(s, i, j)
             u == Run(a + i - 1, j - i + 1)
  <1>1. s \in Seq(Nat) /\ Len(s) = n /\ \A k \in 1..n : s[k] = a + k
    BY RunIsSequence
  <1>2. a + i - 1 \in Nat /\ j - i + 1 \in Nat
    OBVIOUS
  <1>3. u \in Seq(Nat) /\ Len(u) = j - i + 1 /\ \A k \in 1..(j - i + 1) : u[k] = a + i - 1 + k
    BY Zenon, <1>2, RunIsSequence
  <1> HIDE DEF s, u
  <1>4. t \in Seq(Nat) /\ Len(t) = j - i + 1 /\ \A k \in 1..(j - i + 1) : t[k] = s[i + k - 1]
    BY SMTT(30), <1>1
  <1>5. \A k \in 1..(j - i + 1) : t[k] = u[k]
    BY SMTT(30), <1>1, <1>3, <1>4
  <1> HIDE DEF t
  <1>6. t = u
    BY <1>3, <1>4, <1>5, SameItems
  <1> QED
    BY SMTT(30), <1>6 DEF s, t, u

\* The end of a run is a run.
LEMMA RunEnding ==
    ASSUME NEW a \in Nat, NEW n \in Nat, NEW k \in 0..n
    PROVE  Ending(Run(a, n), k) = Run(a + n - k, k)
  <1> DEFINE i == n - k + 1
  <1>1. Len(Run(a, n)) = n
    BY RunIsSequence
  <1>2. i \in 1..(n + 1) /\ n \in (i - 1)..n
    OBVIOUS
  <1>3. a + i - 1 = a + n - k /\ n - i + 1 = k
    OBVIOUS
  <1>4. Ending(Run(a, n), k) = SubSeq(Run(a, n), i, n)
    BY <1>1 DEF Ending
  <1> HIDE DEF i
  <1>5. SubSeq(Run(a, n), i, n) = Run(a + i - 1, n - i + 1)
    BY Zenon, <1>2, RunPart
  <1> QED
    BY Zenon, <1>3, <1>4, <1>5

\* Concatenation, under a name the provers do not look behind.
Joined(s, t) == s \o t

\* Two runs that follow one another are one run.
LEMMA RunJoin ==
    ASSUME NEW a \in Nat, NEW m \in Nat, NEW n \in Nat, NEW b, b = a + m
    PROVE  Joined(Run(a, m), Run(b, n)) = Run(a, m + n)
  <1> DEFINE s == Run(a, m)
             t == Run(b, n)
             u == Run(a, m + n)
  <1>1. s \in Seq(Nat) /\ Len(s) = m /\ \A k \in 1..m : s[k] = a + k
    BY RunIsSequence
  <1>0. b \in Nat /\ m + n \in Nat
    OBVIOUS
  <1>2. t \in Seq(Nat) /\ Len(t) = n /\ \A k \in 1..n : t[k] = b + k
    BY <1>0, RunIsSequence
  <1>3. u \in Seq(Nat) /\ Len(u) = m + n /\ \A k \in 1..(m + n) : u[k] = a + k
    BY SMTT(30), <1>0, RunIsSequence
  <1> HIDE DEF s, t, u
  <1>4. s \o t \in Seq(Nat) /\ Len(s \o t) = m + n
    <2>1. s \in Seq(Nat) /\ t \in Seq(Nat) /\ Len(s) = m /\ Len(t) = n
      BY Zenon, <1>1, <1>2
    <2> QED
      BY SMTT(30), <2>1
  <1>5. ASSUME NEW k \in 1..(m + n) PROVE (s \o t)[k] = u[k]
    <2>1. CASE k =< m
      <3>1. k \in 1..Len(s) /\ (s \o t)[k] = s[k]
        BY SMTT(30), <1>1, <1>2, <2>1
      <3> QED
        BY SMTT(30), <1>1, <1>3, <3>1
    <2>2. CASE k > m
      <3>1. k - m \in 1..n /\ (s \o t)[k] = t[k - m]
        BY SMTT(30), <1>1, <1>2, <2>2
      <3> QED
        BY <1>2, <1>3, <3>1
    <2>3. k =< m \/ k > m
      OBVIOUS
    <2> QED
      BY <2>1, <2>2, <2>3, Zenon
  <1>6. s \o t = u
    BY Zenon, <1>3, <1>4, <1>5, SameItems
  <1> QED
    BY <1>6 DEF s, t, u, Joined

\* The shares of the limit.
LEMMA Limits ==
    head_limit \in Nat /\ tail_limit \in Nat /\ head_limit + tail_limit = limit
  BY SMTT(30), CaptureAssumption DEF head_limit, tail_limit

\* Where the bytes of a piece of n bytes go, after T bytes of which the head has h.
LEMMA HeadStep ==
    ASSUME NEW T \in Nat, NEW H \in Nat, NEW n \in Nat,
           NEW h, h = Smaller(T, H), NEW room, room = Smaller(H - h, n)
    PROVE  /\ h \in Nat /\ room \in Nat /\ room =< n
           /\ h + room = Smaller(T + n, H)
           /\ Joined(Run(0, h), SubSeq(Run(T, n), 1, room)) = Run(0, h + room)
  <1>1. /\ h \in Nat /\ room \in Nat /\ room =< n
        /\ h + room = Smaller(T + n, H)
        /\ h # T => room = 0
    BY DEF Smaller
  <1>2. SubSeq(Run(T, n), 1, room) = Run(T, room)
    <2>1. 1 \in 1..(n + 1) /\ room \in (1 - 1)..n
      BY <1>1
    <2>2. SubSeq(Run(T, n), 1, room) = Run(T + 1 - 1, room - 1 + 1)
      BY Zenon, <2>1, RunPart
    <2>3. T + 1 - 1 = T /\ room - 1 + 1 = room
      BY <1>1
    <2> QED
      BY Zenon, <2>2, <2>3
  <1>3. CASE h = T
    <2>1. 0 \in Nat /\ T = 0 + h
      BY SMTT(30), <1>3
    <2>2. Joined(Run(0, h), Run(T, room)) = Run(0, h + room)
      BY <1>1, <2>1, RunJoin
    <2> QED
      BY Zenon, <1>1, <1>2, <2>2
  <1>4. CASE h # T
    <2>1. 0 \in Nat /\ room = 0 /\ h = 0 + h /\ Run(T, room) = Run(h, room)
      BY SMTT(30), <1>1, <1>4 DEF Run
    <2>2. Joined(Run(0, h), Run(h, room)) = Run(0, h + room)
      BY SMTT(30), <1>1, <2>1, RunJoin
    <2> QED
      BY Zenon, <1>1, <1>2, <2>1, <2>2
  <1> QED
    BY <1>3, <1>4

\* The tail after r more bytes, when the old one is the last t bytes of the first T and
\* S is where the stream ends after them: each arm of NewTail leaves the last bytes.
LEMMA TailStep ==
    ASSUME NEW T \in Nat, NEW t \in 0..tail_limit, t =< T, tail = Run(T - t, t),
           NEW S \in Nat, NEW r \in Nat, S = T + r,
           NEW rest, rest = Run(T, r)
    PROVE  NewTail(rest) = Run(S - Smaller(t + r, tail_limit), Smaller(t + r, tail_limit))
  <1> DEFINE L == tail_limit
  <1>1. L \in Nat /\ T - t \in Nat
    BY Limits
  <1>2. Len(rest) = r /\ Len(tail) = t
    BY <1>1, RunIsSequence
  <1>3. CASE L = 0
    <2>1. t = 0 /\ Smaller(t + r, L) = 0 /\ NewTail(rest) = tail
      BY <1>3 DEF NewTail, Smaller
    <2> QED
      BY <2>1 DEF Run
  <1>4. CASE L > 0 /\ r >= L
    <2>1. NewTail(rest) = Ending(rest, L)
      BY SMTT(30), <1>1, <1>2, <1>4 DEF NewTail
    <2>2. NewTail(rest) = Run(T + r - L, L)
      BY SMTT(30), <1>1, <1>4, <2>1, RunEnding
    <2>3. T + r - L = S - L /\ Smaller(t + r, L) = L
      BY <1>1, <1>4 DEF Smaller
    <2> QED
      BY Zenon, <2>2, <2>3
  <1>5. CASE L > 0 /\ r < L /\ t + r =< L
    <2>1. NewTail(rest) = Joined(tail, rest)
      BY SMTT(30), <1>1, <1>2, <1>5 DEF NewTail, Joined
    <2>2. T = (T - t) + t
      BY SMTT(30), <1>1
    <2>3. Joined(Run(T - t, t), Run(T, r)) = Run(T - t, t + r)
      BY SMTT(30), <1>1, <2>2, RunJoin
    <2>4. Smaller(t + r, L) = t + r /\ T - t = S - (t + r)
      BY <1>1, <1>5 DEF Smaller
    <2> QED
      BY ZenonT(30), <2>1, <2>3, <2>4
  <1>6. CASE L > 0 /\ r < L /\ t + r > L
    <2> DEFINE keep == L - r
               a == T - keep
    <2>1. NewTail(rest) = Joined(Ending(tail, keep), rest)
      BY SMTT(30), <1>1, <1>2, <1>6 DEF NewTail, Joined
    <2>2. keep \in 0..t /\ keep \in Nat /\ a \in Nat /\ T = a + keep /\ (T - t) + t - keep = a
      BY SMTT(30), <1>1, <1>6
    <2>3. Smaller(t + r, L) = L /\ keep + r = L /\ a = S - L
      BY SMTT(30), <1>1, <1>6 DEF Smaller
    <2> HIDE DEF keep, a
    <2>4. Ending(tail, keep) = Run(a, keep)
      BY SMTT(30), <1>1, <2>2, RunEnding
    <2>5. Joined(Run(a, keep), Run(T, r)) = Run(a, keep + r)
      BY SMTT(30), <2>2, RunJoin
    <2> QED
      BY ZenonT(30), <2>1, <2>3, <2>4, <2>5
  <1> QED
    BY SMTT(30), <1>1, <1>3, <1>4, <1>5, <1>6

\* The lengths of the two parts.
HeadKept == Smaller(total_bytes, head_limit)
TailKept == Smaller(total_bytes - HeadKept, tail_limit)

\* HeadAndTail with the type of the count: the invariant that push preserves.
KeptInv ==
    /\ total_bytes \in Nat
    /\ head = Run(0, HeadKept)
    /\ tail = Run(total_bytes - TailKept, TailKept)
    /\ omitted_bytes = total_bytes - HeadKept - TailKept

\* A piece of any length preserves it.
LEMMA PushKeeps ==
    ASSUME KeptInv, NEW n \in Nat, push(Run(total_bytes, n))
    PROVE  KeptInv'
  <1> DEFINE T == total_bytes
             H == head_limit
             L == tail_limit
             h == HeadKept
             t == TailKept
             bytes == Run(T, n)
             room == Room(bytes)
             r == n - room
  <1>1. H \in Nat /\ L \in Nat /\ T \in Nat
    BY Limits DEF KeptInv
  <1>2. h = Smaller(T, H) /\ h \in Nat /\ h =< T /\ h =< H
    BY <1>1 DEF HeadKept, Smaller
  <1>3. t = Smaller(T - h, L) /\ t \in 0..L /\ t =< T
    BY <1>1, <1>2 DEF TailKept, Smaller
  <1>4. Len(head) = h /\ Len(bytes) = n
    BY Zenon, <1>1, <1>2, RunIsSequence DEF KeptInv
  <1>5. room = Smaller(H - h, n)
    BY <1>4 DEF Room
  <1>6. T' = T + n /\ head' = NewHead(bytes) /\ tail' = NewTail(Remaining(bytes))
    BY Zenon, <1>4 DEF push
  <1>7. /\ room \in Nat /\ room =< n
        /\ h + room = Smaller(T + n, H)
        /\ Joined(Run(0, h), SubSeq(bytes, 1, room)) = Run(0, h + room)
    BY SMTT(30), <1>1, <1>2, <1>5, HeadStep
  <1>8. HeadKept' = h + room /\ head' = Run(0, HeadKept')
    <2>1. HeadKept' = Smaller(T + n, H)
      BY <1>6 DEF HeadKept, head_limit
    <2>2. head' = Joined(Run(0, h), SubSeq(bytes, 1, room))
      BY Zenon, <1>6 DEF NewHead, Joined, KeptInv
    <2> QED
      BY Zenon, <1>7, <2>1, <2>2
  <1>9. TailKept' = Smaller(t + r, L) /\ tail' = Run(T' - TailKept', TailKept')
    <2>1. r \in Nat /\ room + 1 \in 1..(n + 1) /\ n \in ((room + 1) - 1)..n
      BY SMTT(30), <1>7
    <2>2. Remaining(bytes) = Run(T + room, r)
      <3>1. Remaining(bytes) = SubSeq(bytes, room + 1, n)
        BY <1>4 DEF Remaining
      <3>2. SubSeq(bytes, room + 1, n) = Run(T + (room + 1) - 1, n - (room + 1) + 1)
        BY ZenonT(30), <1>1, <2>1, RunPart
      <3>3. T + (room + 1) - 1 = T + room /\ n - (room + 1) + 1 = r
        BY SMTT(30), <1>1, <1>7
      <3> QED
        BY SMTT(30), <3>1, <3>2, <3>3
    <2>3. TailKept' = Smaller((T + n) - (h + room), L)
      BY SMTT(30), <1>6, <1>8 DEF TailKept, tail_limit, head_limit
    <2> DEFINE a == T + room
    <2>4. a \in Nat /\ T' \in Nat /\ T' = a + r /\ t =< a
      BY SMTT(30), <1>1, <1>3, <1>6, <1>7
    <2>5. tail = Run(a - t, t)
      <3>1. CASE room = 0
        BY SMTT(30), <1>1, <3>1 DEF KeptInv
      <3>2. CASE room > 0
        <4>1. t = 0
          BY SMTT(30), <1>1, <1>2, <1>3, <1>5, <3>2 DEF Smaller
        <4>2. tail = Run(T - t, t)
          BY Zenon DEF KeptInv
        <4> QED
          BY SMTT(30), <4>1, <4>2 DEF Run
      <3> QED
        BY SMTT(30), <1>7, <3>1, <3>2
    <2>6. NewTail(Remaining(bytes)) = Run(T' - Smaller(t + r, L), Smaller(t + r, L))
      <3>1. t \in 0..tail_limit
        BY Zenon, <1>3
      <3>2. Remaining(bytes) = Run(a, r)
        BY Zenon, <2>2
      <3>3. r \in Nat
        BY ZenonT(30), <2>1
      <3> HIDE DEF a, T, t, r, bytes
      <3> QED
        BY SMTT(30), <2>4, <2>5, <3>1, <3>2, <3>3, TailStep
    <2>7. Smaller(t + r, L) = Smaller((T + n) - (h + room), L)
      BY <1>1, <1>2, <1>3, <1>5, <1>7 DEF Smaller
    <2> QED
      BY ZenonT(30), <1>6, <2>3, <2>6, <2>7
  <1>10. omitted_bytes' = T' - HeadKept' - TailKept'
    <2> HIDE DEF r, room, t
    <2>1. HeadKept' \in Nat /\ TailKept' \in Nat /\ TailKept' =< T'
      <3>1. r \in Nat /\ r =< n
        BY SMTT(30), <1>7 DEF r
      <3> QED
        BY SMTT(30), <1>1, <1>2, <1>3, <1>6, <1>7, <1>8, <1>9, <3>1 DEF Smaller
    <2>2. Len(head') = HeadKept' /\ Len(tail') = TailKept'
      BY SMTT(30), <1>1, <1>6, <1>8, <1>9, <2>1, RunIsSequence
    <2>3. omitted_bytes' = T' - (Len(head') + Len(tail'))
      BY DEF push
    <2> QED
      BY SMTT(30), <1>1, <1>6, <2>1, <2>2, <2>3
  <1> QED
    BY SMTT(30), <1>1, <1>6, <1>8, <1>9, <1>10 DEF KeptInv

\* The first bytes and the last ones are kept and the others counted, for every limit and
\* every way the output is cut into reads (BoundedCapture::push).
THEOREM CaptureCorrect == CaptureSpec => []HeadAndTail
  <1>1. CaptureInit => KeptInv
    <2> SUFFICES ASSUME CaptureInit PROVE KeptInv
      OBVIOUS
    <2>1. HeadKept = 0
      BY Limits DEF CaptureInit, HeadKept, Smaller
    <2>2. TailKept = 0
      BY Limits, <2>1 DEF CaptureInit, TailKept, Smaller
    <2> QED
      BY <2>1, <2>2 DEF CaptureInit, KeptInv, Run
  <1>2. KeptInv /\ [CaptureNext]_captureVars => KeptInv'
    <2> SUFFICES ASSUME KeptInv, [CaptureNext]_captureVars PROVE KeptInv'
      OBVIOUS
    <2>1. CASE CaptureNext
      <3>1. PICK n \in 1..MaxPiece : push(Run(total_bytes, n))
        BY <2>1 DEF CaptureNext, ReadPiece
      <3>2. n \in Nat
        BY CaptureAssumption
      <3> QED
        BY Zenon, <3>1, <3>2, PushKeeps
    <2>2. CASE UNCHANGED captureVars
      BY Zenon, <2>2 DEF captureVars, KeptInv, HeadKept, TailKept, head_limit, tail_limit
    <2> QED
      BY <2>1, <2>2
  <1>3. KeptInv => HeadAndTail
    BY DEF KeptInv, HeadKept, TailKept, HeadAndTail
  <1> QED
    BY <1>1, <1>2, <1>3, PTL DEF CaptureSpec
=============================================================================
