------------------------------- MODULE MCServices -------------------------------
(***************************************************************************)
(* Model checking of the parts that stand beside the execution store, each *)
(* on its own: a behaviour is one of a single part, and the others stay at *)
(* one of their initial states.                                            *)
(***************************************************************************)
EXTENDS EventStream, Telemetry, Deployment, OutputCapture, Manifest, EventFraming, NodeClient,
        Admission

CONSTANT Parts

VARIABLE part

servicesVars ==
    <<part, streamVars, telemetryVars, deploymentVars, captureVars, manifestVars,
      framingVars, clientVars, admissionVars>>

FollowedKey == CHOOSE k \in Keys : TRUE

\* A directory tree with names that differ in case, a path that is too deep and one that
\* is not portable.
MCPaths ==
    {<<"b">>, <<"a">>, <<"A">>, <<"a", "b">>, <<"A", "b">>, <<"a", "b", "a">>, <<"nul">>}
MCPortable == {"a", "A", "b"}
MCFold == [c \in {"a", "A", "b", "nul"} |-> IF c = "A" THEN "a" ELSE c]
MCRank == [A |-> 1, a |-> 2, b |-> 3, nul |-> 4]
MCSizeOf == [d1 |-> 1]

\* Responses with a blank line, with events of the same length and with the longest one.
\* A piece of five bytes can hold two events of the fourth response with their newlines, and
\* parts of two events of the fifth with a whole one between them.
MCBodies == {<<1, 0, 3, 1>>, <<2, 2, 2>>, <<2, 2>>, <<1, 1, 1, 1>>, <<3, 1, 3, 2>>, <<2, 4, 1>>, <<1, 8, 1>>}

Nouns == {"capabilities", "status", "node", "executions", "blobs", "workspaces", "artifacts"}

\* The paths of the protocol, and combinations of their segments that are none.
MCRequestPaths ==
    {<<"v1", noun>> : noun \in Nouns}
    \union {<<"v1", noun, s>> : noun \in Nouns,
              s \in {"telemetry", "missing", "prepare", "derive", "cancel", "digest", "bad"}}
    \union {<<"v1", noun, s, last>> : noun \in {"executions", "blobs", "artifacts"},
              s \in {"digest", "bad"}, last \in {"cancel", "renew", "events", "artifacts"}}
    \union {<<"v2", "blobs", "digest">>}

\* Bodies that name one thing or two, and what an authorizer may keep from everybody.
MCContents ==
    {[id |-> "digest", more |-> Nothing], [id |-> "digest", more |-> "kept"],
     [id |-> "kept", more |-> Nothing]}
MCWithheld ==
    {Question("BlobRead", Blob("kept")), Question("BlobWrite", Blob("kept")),
     Question("Execute", Workspace("kept")), Question("WorkspaceCreate", Workspace("kept"))}

AllOperations == {"Capabilities", "Execute", "Observe", "Cancel", "Renew", "Events", "BlobRead",
                  "BlobWrite", "WorkspaceCreate", "ArtifactRead", "Telemetry"}

\* Two certificates of one principal, and another principal.
MCClients ==
    <<[certificate |-> "c1", principal |-> "p1", operations |-> {"Execute"}],
      [certificate |-> "c2", principal |-> "p1",
       operations |-> AllOperations],
      [certificate |-> "c4", principal |-> "p2", operations |-> {"Observe", "ArtifactRead", "Telemetry"}]>>

PlainCall(name, peer) ==
    [name |-> name, peer |-> peer, id |-> "digest", generation |-> 1, lease |-> "l1",
     bytes |-> IF name \in {"execute", "cancel", "renew", "find_missing_blobs", "upload_blob",
                            "create_workspace", "create_workspace_derived"} THEN 1 ELSE 0,
     after |-> "within", mismatch |-> FALSE]

\* Every call, some of them by others too, and calls about a second generation, about none,
\* with another lease, with the largest body and with the next larger one.
MCCalls ==
    {PlainCall(name, "c2") : name \in CallNames}
    \union {PlainCall(name, "c3") : name \in {"status", "upload_blob"}}
    \union {PlainCall(name, "c4") : name \in {"telemetry", "execute", "observe",
                                             "observe_generation", "events", "artifacts"}}
    \union {[PlainCall(name, "c2") EXCEPT !.generation = g] : g \in {0, 2},
              name \in {"observe_generation", "artifacts"}}
    \union {[PlainCall(name, "c2") EXCEPT !.generation = 2, !.lease = "l2"] :
              name \in {"execute", "events", "cancel", "renew"}}
    \union {[PlainCall(sized[1], "c2") EXCEPT !.bytes = sized[2]] :
              sized \in ({"execute", "cancel"} \X {2, 3}) \union {<<"find_missing_blobs", 2>>}
                        \union ({"upload_blob"} \X {4, 5})
                        \union ({"create_workspace", "create_workspace_derived"} \X {3, 4})}
    \union {[PlainCall("events", "c2") EXCEPT !.after = "beyond"],
            [PlainCall("create_workspace_derived", "c2") EXCEPT !.mismatch = TRUE]}

\* A node of this release, and nodes that lack one thing.
MCBuilds ==
    LET current == [version |-> TRUE, argv |-> TRUE, telemetry |-> TRUE]
    IN  {current} \union {[current EXCEPT ![lacking] = FALSE] : lacking \in DOMAIN current}

Text(bytes) == [bytes |-> bytes, nul |-> FALSE]
NulText == [bytes |-> 1, nul |-> TRUE]
Var(name, value) == [name |-> name, value |-> value]

MCNameOrder == [EXECUTION_ID |-> 1, LANG |-> 2, PATH |-> 3, X |-> 4, Y |-> 5, Z |-> 6,
                loose |-> 7, split |-> 8, empty |-> 9]
MCBaseline == <<Var("PATH", Text(0)), Var("LANG", Text(0))>>
MCProvenance == <<Var("EXECUTION_ID", Text(0))>>

MCBound ==
    [request_bytes |-> 3, launch_overhead |-> 1, arg_count |-> 2, arg_bytes |-> 1,
     env_count |-> 5, env_value_bytes |-> 1, outputs |-> 2, timeout |-> 1, stdin_bytes |-> 1,
     capture_bytes |-> 1, event_chunk_bytes |-> 1, amount |-> 1, metadata_count |-> 2]

\* A request the node accepts, and what else the fields of a request may be.
PlainRequest ==
    [bytes |-> 1, schema |-> 1, argv |-> <<Text(1)>>, environment |-> << >>, stdin |-> 0,
     timeout |-> 1, capture |-> 1, chunk |-> 1, outputs |-> << >>,
     memory |-> Requirement("not_requested", 0), cpu |-> Requirement("not_requested", 0),
     pids |-> Requirement("not_requested", 0), isolation |-> "None",
     network |-> "Unrestricted", metadata |-> << >>, workspace |-> Unset, cwd |-> "inside"]

Limits == {Requirement("best_effort", 1), Requirement("required", 1), Requirement("required", 2)}

FieldValues ==
    [bytes |-> {3, 4}, schema |-> {0, 2},
     argv |-> {<< >>, <<Text(0)>>, <<Text(1), Text(0)>>, <<Text(2)>>, <<NulText>>,
               <<Text(1), Text(1), Text(1)>>},
     environment |->
        {<<Var("X", Text(1)), Var("Y", Text(0))>>, <<Var("Y", Text(0)), Var("X", Text(1))>>,
         <<Var("X", Text(2))>>, <<Var("X", NulText)>>, <<Var("LANG", Text(1))>>,
         <<Var("PATH", Text(1))>>, <<Var("EXECUTION_ID", Text(1))>>,
         <<Var("loose", Text(1))>>, <<Var("split", Text(1))>>,
         <<Var("X", Text(1)), Var("X", Text(0))>>,
         <<Var("X", Text(1)), Var("Y", Text(1)), Var("Z", Text(1))>>},
     stdin |-> {2}, timeout |-> {0, 2}, capture |-> {2}, chunk |-> {0, 2},
     outputs |-> {<<<<"X", "Y">>, <<"Y", "Y">>>>, <<<<"Y", "Y">>, <<"X", "Y">>>>},
     memory |-> Limits, cpu |-> {Requirement("best_effort", 1)}, pids |-> Limits,
     isolation |-> {"BestEffort", "Required"}, network |-> {"Disabled", "AllowListed"},
     metadata |-> {<<<<"X", "Y">>, <<"X", "X">>>>, <<<<"X", "X">>, <<"X", "Y">>>>,
                   <<<<"empty", "X">>>>},
     workspace |-> {"w1", "w2", "gone"}, cwd |-> {"missing", "outside"}]

\* The requests that differ from the plain one in a field, and those that besides ask for
\* isolation, a limit on memory or a workspace.
MCWanted ==
    {PlainRequest}
    \union UNION {{[PlainRequest EXCEPT ![f] = v, ![g] = u] :
                        v \in FieldValues[f], u \in FieldValues[g]} :
                    f \in DOMAIN FieldValues, g \in {"isolation", "memory", "workspace"}}
    \union UNION {{[PlainRequest EXCEPT ![f] = v] : v \in FieldValues[f]} :
                    f \in DOMAIN FieldValues}

----------------------------------------------------------------------------
MCInit ==
    /\ part \in Parts
    /\ StreamInit /\ CaptureInit /\ ManifestInit
    /\ TelemetryInit /\ (part # "telemetry" => task = "none" /\ provider = "up")
    /\ DeploymentInit /\ (part # "deployment" => ~marker /\ ~update.force)
    /\ FramingInit /\ (part # "framing" => lengths = <<2, 2>> /\ Len(coming) = 6)
    /\ IF part = "calls" THEN ClientInit
       ELSE /\ call = PlainCall("status", "c2") /\ turn = 0 /\ reply = Nothing /\ gave = Nothing
            /\ known = {} /\ stored = {} /\ produced = {} /\ seen = FALSE
            /\ build = [version |-> TRUE, argv |-> TRUE, telemetry |-> TRUE]
    /\ IF part = "requests" THEN RequestInit
       ELSE part # "calls" =>
            /\ incoming = [method |-> "GET", path |-> <<"v1", "status">>, peer |-> "c1",
                          bytes |-> 0, body |-> Nothing]
            /\ stage = "head" /\ asked = {} /\ answer = Nothing
    /\ IF part = "admission" THEN AdmissionInit
       ELSE /\ wanted = PlainRequest /\ host = {} /\ features = {}
            /\ step = "sent" /\ verdict = Unset /\ row = Unset
            /\ apply = NothingEnforced /\ launch = Unset

MCNext ==
    /\ UNCHANGED part
    /\ \/ part = "stream" /\ StreamNext
       \/ part # "stream" /\ UNCHANGED streamVars
    /\ \/ part = "telemetry" /\ TelemetryNext
       \/ part # "telemetry" /\ UNCHANGED telemetryVars
    /\ \/ part = "deployment" /\ DeploymentNext
       \/ part # "deployment" /\ UNCHANGED deploymentVars
    /\ \/ part = "capture" /\ CaptureNext
       \/ part # "capture" /\ UNCHANGED captureVars
    /\ \/ part = "manifest" /\ ManifestNext
       \/ part # "manifest" /\ UNCHANGED manifestVars
    /\ \/ part = "framing" /\ FramingNext
       \/ part # "framing" /\ UNCHANGED framingVars
    /\ \/ part = "requests" /\ RequestNext
          /\ UNCHANGED <<call, turn, reply, gave, nodeVars, seen>>
       \/ part = "calls" /\ ClientNext
       \/ part \notin {"requests", "calls"} /\ UNCHANGED clientVars
    /\ \/ part = "admission" /\ AdmissionNext
       \/ part # "admission" /\ UNCHANGED admissionVars

\* The fairness of FairStreamSpec and of TelemetryFairness, in their parts.
InStream(A) == part = "stream" /\ A
InTelemetry(A) == part = "telemetry" /\ A

MCFairness ==
    /\ WF_streamVars(InStream(Commit("Succeeded", StateEventBytes)))
    /\ WF_streamVars(InStream(InstallSnapshot))
    /\ WF_streamVars(InStream(Send))
    /\ WF_streamVars(InStream(Subscribe))
    /\ WF_streamVars(InStream(Respond))
    /\ WF_streamVars(InStream(Read))
    /\ WF_streamVars(InStream(Reconnect))
    /\ WF_telemetryVars(InTelemetry(Refreshed))
    /\ WF_telemetryVars(InTelemetry(Wake))
    /\ WF_telemetryVars(InTelemetry(Pass))

MCSpec == MCInit /\ [][MCNext]_servicesVars /\ MCFairness

----------------------------------------------------------------------------
\* ClientInformed of EventStream: a client that reconnects after its last event reads the
\* terminal event or is told that history is gone (event_response).
FollowerInformed == part = "stream" => ClientInformed
=================================================================================
