------------------------------- MODULE Configuration -------------------------------
(***************************************************************************)
(* What of a server's configuration its tool calls meet. ToolCalls takes   *)
(* deployable configurations for granted; Startup is where main sees to it *)
(* that no other comes to serve.                                           *)
(***************************************************************************)

(* authorizing: an Authorizer is configured; discovery: --inbound-anonymous-*)
(* discovery; protected: --inbound-resource, so that the gate is in place; *)
(* upstream: no token for the API, the client's own, or a delegated one.   *)
DeploymentType ==
  [authorizing : BOOLEAN, discovery : BOOLEAN, protected : BOOLEAN,
   upstream : {"none", "client", "delegated"}]

(* The gate has an Authorizer to ask, and a grant that acts for the callers *)
(* has callers with an identity. Only an Authorizer knows of discovery.    *)
Deployable ==
  {d \in DeploymentType :
     d.protected \/ d.discovery \/ d.upstream = "delegated" => d.authorizing}
===================================================================================
