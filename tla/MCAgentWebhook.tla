--------------------------- MODULE MCAgentWebhook ---------------------------
(***************************************************************************)
(* Label maps for TLC: the required labels alone, and with one or two more *)
(* labels whose values are usual, at a boundary, or do not parse.  Integers *)
(* have 8 bits, so 127 is the largest and 100 stands for port 65535.       *)
(***************************************************************************)
EXTENDS AgentWebhook, TLC

CONSTANT bad

Base == ("name" :> "cryostat") @@ ("namespace" :> "ns")

\* Each label getter's outcomes: a default, a good value, an error.
MCLabelMaps ==
  {NoLabels, Base,
   Base @@ ("callback-port" :> 50), Base @@ ("callback-port" :> 127),
   Base @@ ("callback-port" :> 128), Base @@ ("read-only" :> "true"),
   Base @@ ("read-only" :> bad), Base @@ ("harvester-period" :> bad),
   Base @@ ("harvester-max-files" :> 0),
   Base @@ ("harvester-template" :> "default") @@ ("harvester-max-files" :> 2),
   Base @@ ("harvester-template" :> "default") @@ ("harvester-exit-max-age" :> 130),
   Base @@ ("harvester-exit-max-size" :> bad),
   Base @@ ("container" :> "sidecar"), Base @@ ("smart-triggers" :> "my.triggers"),
   Base @@ ("java-options-var" :> "FROM_SECRET")}
=============================================================================
