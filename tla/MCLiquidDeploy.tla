--------------------------- MODULE MCLiquidDeploy ---------------------------
(* Small instances of LiquidDeploy: which functions of the API are called. *)
EXTENDS LiquidDeploy, TLC
CONSTANTS a, b, c, d

CallDeploy == (a :> "call") @@ (b :> "deploy")
OneOfEach ==
  (a :> "call") @@ (b :> "reveal") @@ (c :> "activate") @@ (d :> "deploy")
Offline == (a :> "forge_call") @@ (b :> "forge_deploy") @@ (c :> "inject")
OneDeploy == (a :> "deploy")
=============================================================================
