------------------------------- MODULE NodeClient -------------------------------
(***************************************************************************)
(* A call of NodeClient (eggwork-client/src/lib.rs) against the node: the  *)
(* requests the call makes, one after the other, their way through the     *)
(* tables of Requests, what the handlers (eggwork-server/src/lib.rs)       *)
(* answer from the journal, the blobs and the artifacts, and what the call *)
(* returns.  Between two requests of a call other clients change the node. *)
(*                                                                         *)
(* An execution is known by its row; what happens to it is in              *)
(* ExecutionNode, the events that are streamed in EventStream and          *)
(* EventFraming, the steps of an upload in BlobStore.  An answer other     *)
(* modules decide is left open here.                                       *)
(***************************************************************************)
EXTENDS Requests, FiniteSets

CONSTANTS
    Calls,      \* the calls clients make
    Builds,     \* the nodes there are: what they can do
    MaxRows     \* bound on the generations of an execution

CallNames ==
    {"capabilities", "status", "telemetry", "execute", "create_workspace",
     "create_workspace_derived", "observe", "observe_generation", "cancel", "renew", "events",
     "find_missing_blobs", "upload_blob", "download_blob", "artifacts", "download_artifact"}

\* The client's types have no malformed identifier and no blob that is no digest.
ASSUME NodeClientAssumption ==
    /\ MaxRows \in Nat
    /\ \A c \in Calls :
          /\ c.name \in CallNames /\ c.bytes \in Nat /\ c.generation # Nothing /\ IsId(c.id)
          /\ c.name \in {"upload_blob", "download_blob"} => IsDigest(c.id)

VARIABLES
    call,       \* the call
    turn,       \* which of its requests is under way; 0 before the first
    reply,      \* what the handler made of the request
    gave,       \* what the call returned
    known,      \* the rows of the node
    stored,     \* its blobs
    produced,   \* its artifacts
    build,      \* what the node can do
    seen        \* history: the blob of the call was stored at some time of the call

clientVars == <<requestVars, call, turn, reply, gave, known, stored, produced, build, seen>>

nodeVars == <<known, stored, produced, build>>

----------------------------------------------------------------------------
(* The requests of a call.                                                   *)

Get(path) == [method |-> "GET", path |-> path, bytes |-> 0]
Post(path, bytes) == [method |-> "POST", path |-> path, bytes |-> bytes]
Put(path, bytes) == [method |-> "PUT", path |-> path, bytes |-> bytes]

\* ensure_protocol_compatible makes the first request of a call that streams.
AskCapabilities == Get(<<"v1", "capabilities">>)

execute_with_workspace(c) == <<AskCapabilities, Post(<<"v1", "executions">>, c.bytes)>>

events(c) == <<AskCapabilities, Get(<<"v1", "executions", c.id, "events">>)>>

\* create_workspace and create_workspace_derived.
create_workspaces(c) ==
    IF c.name = "create_workspace" THEN <<Post(<<"v1", "workspaces">>, c.bytes)>>
    ELSE <<Post(<<"v1", "workspaces", "derive">>, c.bytes)>>

\* cancel and renew.
controls(c) == <<Post(<<"v1", "executions", c.id, c.name>>, c.bytes)>>

find_missing_blobs(c) == <<Post(<<"v1", "blobs", "missing">>, c.bytes)>>

upload_blob(c) == <<Post(<<"v1", "blobs", "prepare">>, 1), Put(<<"v1", "blobs", c.id>>, c.bytes)>>

\* download_blob, artifacts and download_artifact.
downloads(c) ==
    CASE c.name = "download_blob" -> <<Get(<<"v1", "blobs", c.id>>)>>
      [] c.name = "artifacts" -> <<Get(<<"v1", "executions", c.id, "artifacts">>)>>
      [] c.name = "download_artifact" -> <<Get(<<"v1", "artifacts", c.id>>)>>

Sent(c) ==
    CASE c.name = "capabilities" -> <<AskCapabilities>>
      [] c.name = "status" -> <<Get(<<"v1", "status">>)>>
      [] c.name = "telemetry" -> <<Get(<<"v1", "node", "telemetry">>)>>
      [] c.name = "execute" -> execute_with_workspace(c)
      [] c.name \in {"create_workspace", "create_workspace_derived"} -> create_workspaces(c)
      [] c.name \in {"observe", "observe_generation"} -> <<Get(<<"v1", "executions", c.id>>)>>
      [] c.name \in {"cancel", "renew"} -> controls(c)
      [] c.name = "events" -> events(c)
      [] c.name = "find_missing_blobs" -> find_missing_blobs(c)
      [] c.name = "upload_blob" -> upload_blob(c)
      [] c.name \in {"download_blob", "artifacts", "download_artifact"} -> downloads(c)

\* The routes a caller of these methods has in mind.
MeantRoutes(c) ==
    CASE c.name = "capabilities" -> <<"Capabilities">>
      [] c.name = "status" -> <<"Status">>
      [] c.name = "telemetry" -> <<"Telemetry">>
      [] c.name = "execute" -> <<"Capabilities", "Execute">>
      [] c.name = "create_workspace" -> <<"WorkspaceCreate">>
      [] c.name = "create_workspace_derived" -> <<"WorkspaceDerive">>
      [] c.name \in {"observe", "observe_generation"} -> <<"Observe">>
      [] c.name = "cancel" -> <<"Cancel">>
      [] c.name = "renew" -> <<"Renew">>
      [] c.name = "events" -> <<"Capabilities", "Events">>
      [] c.name = "find_missing_blobs" -> <<"BlobMissing">>
      [] c.name = "upload_blob" -> <<"BlobPrepare", "BlobUpload">>
      [] c.name = "download_blob" -> <<"BlobDownload">>
      [] c.name = "artifacts" -> <<"ArtifactList">>
      [] c.name = "download_artifact" -> <<"ArtifactDownload">>

SendRequest(c, n) ==
    /\ turn' = n
    /\ incoming' = [method |-> Sent(c)[n].method, path |-> Sent(c)[n].path, peer |-> c.peer,
                    bytes |-> Sent(c)[n].bytes,
                    body |-> IF Sent(c)[n].method = "POST" THEN [id |-> c.id, more |-> Nothing]
                             ELSE Nothing]
    /\ stage' = "head" /\ asked' = {} /\ answer' = Nothing /\ reply' = Nothing

ClientInit ==
    /\ call \in Calls /\ build \in Builds
    /\ turn = 0 /\ reply = Nothing /\ gave = Nothing
    /\ known = {} /\ stored = {} /\ produced = {} /\ seen = FALSE
    /\ incoming = Nothing /\ stage = "done" /\ asked = {} /\ answer = Nothing

\* create_workspace_derived compares the base of the patch before it asks.
Begin ==
    /\ turn = 0 /\ gave = Nothing
    /\ IF call.name = "create_workspace_derived" /\ call.mismatch
       THEN gave' = [error |-> "InvalidResponse"] /\ UNCHANGED <<turn, requestVars, reply>>
       ELSE SendRequest(call, 1) /\ UNCHANGED gave
    /\ seen' = (call.id \in stored)
    /\ UNCHANGED <<call, nodeVars>>

----------------------------------------------------------------------------
(* The handlers.                                                             *)

Caller == CHOOSE p \in PrincipalOf(incoming.peer) : TRUE

Fine(rows) == [rows |-> rows]
Refuse(code) == [error |-> code]

\* Mutant of load_snapshot_for_principal: the latest generation, whose ever it is.
load_snapshot_for_principal_Latest(id, generation, principal) ==
    LET of == {r \in known : r.id = id /\ generation \in {Nothing, r.generation}}
    IN  {r \in of : \A s \in of : s.generation =< r.generation}

load_snapshot_for_principal(id, generation, principal) ==
    LET own == {r \in known : /\ r.id = id /\ r.principal = principal
                              /\ generation \in {Nothing, r.generation}}
    IN  {r \in own : \A s \in own : s.generation =< r.generation}

lookup(id, generation) == {r \in known : r.id = id /\ r.generation = generation}

observe ==
    LET generation == IF call.name = "observe" THEN Nothing ELSE call.generation
        found == load_snapshot_for_principal(call.id, generation, Caller)
    IN  {IF generation = 0 THEN Refuse("invalid_request")
         ELSE IF found = {} THEN Refuse("execution_not_found") ELSE Fine(found)}

Mine(r) == r.principal = Caller /\ r.lease = call.lease

events_route ==
    LET found == lookup(call.id, call.generation)
    IN  {IF call.after = "beyond" THEN Refuse("cursor_ahead")
         ELSE IF found = {} THEN Refuse("execution_not_found")
         ELSE IF \E r \in found : ~Mine(r) THEN Refuse("forbidden")
         ELSE Fine(found)}

\* The checks of the rows; nothing is refused when they pass.
control ==
    LET found == lookup(call.id, call.generation)
    IN  IF found = {} THEN {Refuse("execution_not_found")}
        ELSE IF \E r \in found : r.principal # Caller THEN {Refuse("forbidden")}
        ELSE IF \E r \in found : ~Mine(r) THEN {Refuse("invalid_lease")}
        ELSE IF \E r \in known : r.id = call.id /\ r.generation > call.generation
             THEN {Refuse("generation_mismatch")}
        ELSE {}

\* The record is then found by the identifier alone, so it is of the latest generation, and
\* its snapshot is the answer.  Whether the execution still runs, and on this node, is in
\* ExecutionNode.
control_record ==
    LET latest == {r \in known : r.id = call.id /\ \A s \in known : s.id = r.id => s.generation =< r.generation}
    IN  [error : {"execution_not_found", "execution_terminal", "lease_expired"}]
        \union (IF \E r \in latest : r.lease # call.lease THEN {Refuse("invalid_lease")}
                ELSE {Fine(latest)})

\* The rows of an execution that may be reserved next.
Reservable(id, principal, lease) ==
    {[id |-> id, principal |-> principal, lease |-> lease,
      generation |-> 1 + Cardinality({r \in known : r.id = id})]}

\* The row is joined or a new one reserved; Admission has what else may be refused.
ExecuteReplies ==
    LET found == lookup(call.id, call.generation)
    IN  IF found = {}
        THEN {Refuse("refused")} \union
             {Fine({r}) : r \in {q \in Reservable(call.id, Caller, call.lease) :
                                    q.generation = call.generation}}
        ELSE IF \E r \in found : r.principal # Caller THEN {Refuse("forbidden"), Refuse("refused")}
        ELSE IF \E r \in found : r.lease # call.lease THEN {Refuse("refused")}
        ELSE {Fine(found), Refuse("refused")}

artifact_list ==
    {IF call.generation = 0 THEN Refuse("invalid_request")
     ELSE Fine({a \in produced : /\ a.row.id = call.id /\ a.row.generation = call.generation
                                 /\ a.row.principal = Caller})}

artifact_download ==
    LET found == {a \in produced : a.id = call.id /\ a.row.principal = Caller}
    IN  {IF found = {} THEN Refuse("artifact_not_found")
         ELSE IF call.id \notin stored THEN Refuse("artifact_unavailable")
         ELSE Fine(found)}

\* prepare_upload: what is there need not be sent.
blob_prepare ==
    IF call.id \in stored THEN {[upload_required |-> FALSE], Refuse("storage_error")}
    ELSE IF call.bytes > MAX_BLOB_BYTES THEN {Refuse("blob_too_large")}
    ELSE {[upload_required |-> TRUE], Refuse("quota_exceeded")}

blob_download == {IF call.id \in stored THEN Fine({}) ELSE Refuse("blob_not_found")}

\* The replies of the handler of a route.
Answers(route) ==
    CASE route = "Observe" -> observe
      [] route = "Events" -> events_route
      [] route \in {"Cancel", "Renew"} -> control
      [] route = "Execute" -> ExecuteReplies
      [] route = "ArtifactList" -> artifact_list
      [] route = "ArtifactDownload" -> artifact_download
      [] route = "BlobPrepare" -> blob_prepare
      [] route = "BlobDownload" -> blob_download
      [] route = "Telemetry" /\ ~build.telemetry -> {Refuse("not_found")}
      [] route \in {"BlobMissing", "BlobUpload", "WorkspaceCreate", "WorkspaceDerive"} ->
            {Fine({}), Refuse("refused")}
      [] OTHER -> {Fine({})}

IsSuccess(r) == "error" \notin DOMAIN r

\* A handler, with what it leaves in the node.
Serve ==
    /\ Handle
    /\ \/ answer' \in {"body_refused", "forbidden"} /\ UNCHANGED <<reply, nodeVars, seen>>
       \/ /\ answer' \notin {"body_refused", "forbidden"}
          /\ \E r \in Answers(answer') :
                /\ reply' = r
                /\ known' = IF answer' = "Execute" /\ IsSuccess(r) THEN known \union r.rows ELSE known
                /\ stored' = IF answer' = "BlobUpload" /\ IsSuccess(r) THEN stored \union {call.id}
                             ELSE stored
          /\ seen' = (seen \/ call.id \in stored')
          /\ UNCHANGED <<produced, build>>
    /\ UNCHANGED <<call, turn, gave>>

\* control in two steps: other requests are handled between its checks and the record.
ControlChecked ==
    /\ stage = "handle" /\ stage' = "record"
    /\ \E route \in operation_for(incoming.method, incoming.path) :
          /\ route.route \in {"Cancel", "Renew"} /\ incoming.bytes =< ReadLimit(route.route)
    /\ control = {}
    /\ UNCHANGED <<incoming, asked, answer, call, turn, reply, gave, nodeVars, seen>>

ControlAnswered ==
    /\ stage = "record"
    /\ \E route \in operation_for(incoming.method, incoming.path) : End(route.route)
    /\ reply' \in control_record
    /\ UNCHANGED <<incoming, asked, call, turn, gave, nodeVars, seen>>

Travel == (ReadHead \/ dispatch) /\ UNCHANGED <<call, turn, reply, gave, nodeVars, seen>>

----------------------------------------------------------------------------
(* What the call makes of the answer.                                        *)

Return(result) ==
    /\ gave' = result
    /\ UNCHANGED <<call, turn, reply, nodeVars, seen, requestVars>>

Continue ==
    /\ SendRequest(call, turn + 1)
    /\ UNCHANGED <<call, gave, nodeVars, seen>>

\* ensure_protocol_compatible.
Compatible ==
    IF ~build.version THEN Return([error |-> "ProtocolIncompatible"])
    ELSE IF ~build.argv THEN Return([error |-> "UnsupportedCapability"])
    ELSE Continue

\* api_error; telemetry tells a node without the route apart.
Failed(code) ==
    Return([error |-> IF call.name = "telemetry" /\ code = "not_found"
                      THEN "TelemetryUnsupported" ELSE code])

TakeAnswer ==
    /\ turn > 0 /\ gave = Nothing /\ stage = "done"
    /\ IF reply = Nothing THEN Failed(answer)
       ELSE IF ~IsSuccess(reply) THEN Failed(reply.error)
       ELSE IF turn < Len(Sent(call)) /\ answer = "Capabilities" THEN Compatible
       ELSE IF answer = "BlobPrepare"
            THEN IF reply.upload_required THEN Continue ELSE Return(Fine({}))
       ELSE Return(reply)

\* A deadline passes or the connection is lost; the node goes on with the request.
Lose ==
    /\ turn > 0 /\ gave = Nothing
    /\ Return([error |-> "transport"])

----------------------------------------------------------------------------
(* Meanwhile, on the node.                                                   *)

Owners == {Clients[i].principal : i \in DOMAIN Clients}

\* What they do while a request is read and dispatched they may as well have done before.
Others ==
    /\ gave = Nothing /\ stage \in {"handle", "record", "done"}
    /\ \/ /\ Cardinality(known) < MaxRows
          /\ \E p \in Owners, lease \in {c.lease : c \in Calls} :
                known' = known \union Reservable(call.id, p, lease)
          /\ UNCHANGED <<stored, produced>>
       \/ stored' \in SUBSET {call.id} /\ UNCHANGED <<known, produced>>
       \/ /\ produced' \in {{}} \union {{[id |-> call.id, row |-> r]} : r \in known}
          /\ UNCHANGED <<known, stored>>
    /\ seen' = (seen \/ call.id \in stored')
    /\ UNCHANGED <<requestVars, call, turn, reply, gave, build>>

ClientNext ==
    \/ Begin \/ Travel \/ Serve \/ ControlChecked \/ ControlAnswered \/ TakeAnswer \/ Lose
    \/ Others

ClientSpec == ClientInit /\ [][ClientNext]_clientVars

----------------------------------------------------------------------------
\* Every request of every call finds the route its method stands for, or is refused
\* because of who asks or because its body is larger than that route takes: the paths the
\* client builds and the three tables of the node agree (NodeClient, operation_for,
\* request_body_policy).
CallReaches ==
    turn > 0 /\ stage = "done" =>
        \/ answer \in {MeantRoutes(call)[turn], "forbidden", "unauthenticated"}
        \/ answer = "body_refused" /\ incoming.bytes > ReadLimit(MeantRoutes(call)[turn])

\* The client's paths and the tables of the node for bodies, routes and resources agree on
\* every request, whether or not the client would send it (operation_for,
\* request_body_policy, resource_for_path).
TablesAgree == BodyAdmitted /\ AskedAboutTarget /\ CallReaches

RowsOf(rows) == {IF "row" \in DOMAIN r THEN r.row ELSE r : r \in rows}

\* The row a call names.
Asked(q) ==
    /\ q.id = call.id /\ q.generation = call.generation
    /\ q.principal \in PrincipalOf(call.peer)

\* What a call returns of an execution is of an execution of its own principal, of the
\* generation that was asked for, and with a lease where one was given, though a later
\* generation of the same execution may be another principal's (observe, events_route,
\* execute, artifact_list, artifact_download).  There is one exception: cancel and renew
\* find the record by its identifier, so when a later generation was reserved with the very
\* lease of the one they name they return that (control).
OwnOnly ==
    gave # Nothing /\ IsSuccess(gave) =>
        \A r \in RowsOf(gave.rows) :
            /\ call.name # "download_artifact" => r.id = call.id
            /\ call.name \in {"execute", "events", "cancel", "renew"} => r.lease = call.lease
            /\ \/ /\ r.principal \in PrincipalOf(call.peer)
                  /\ call.name \notin {"observe", "download_artifact"} => r.generation = call.generation
               \/ /\ call.name \in {"cancel", "renew"}
                  /\ \E q \in known \ {r} : Asked(q) /\ q.lease = r.lease /\ q.generation =< r.generation

\* When upload_blob returns without an error the node had the blob at some time of the
\* call, though it was sent by another client or collected since (upload_blob,
\* prepare_upload).
UploadLands == call.name = "upload_blob" /\ gave # Nothing /\ IsSuccess(gave) => seen

\* A call that returns without an error tells its caller the truth, whatever other clients
\* and the node did between its requests (NodeClient).
AnswersTrue == OwnOnly /\ UploadLands
=================================================================================
