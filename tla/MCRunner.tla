-------------------------------- MODULE MCRunner --------------------------------
(***************************************************************************)
(* Runner on the requests that tell its paths apart.                       *)
(***************************************************************************)
EXTENDS Runner

Plain ==
    [backend |-> "none", sandbox |-> "none", profile |-> TRUE, resources |-> "none",
     env |-> {"plain", "denied"}, overflow |-> "truncate", stdin |-> FALSE,
     output |-> 2, forks |-> {"escaped", "quiet"}]

Confined(sandbox, resources) ==
    [Plain EXCEPT !.backend = "trusted", !.sandbox = sandbox, !.resources = resources,
                  !.output = 1, !.forks = {"child"}]

MCRequests ==
    {Plain,
     [Plain EXCEPT !.overflow = "terminate", !.stdin = TRUE],
     [Plain EXCEPT !.sandbox = "best", !.resources = "best", !.output = 0],
     [Plain EXCEPT !.sandbox = "required"],
     Confined("best", "best"),
     Confined("required", "none"),
     Confined("none", "required"),
     [Confined("best", "best") EXCEPT !.profile = FALSE, !.output = 0],
     [Confined("best", "none") EXCEPT !.env = {"baseline"}, !.output = 0]}
================================================================================
