---------------------------- MODULE MCDeployment ----------------------------
(***************************************************************************)
(* Small instances of the deployment engine for TLC.                       *)
(***************************************************************************)
EXTENDS Deployment

CONSTANTS d1, d2, d3, config, geo, rules

\* d1 ships the configuration and a Geo database, d2 the configuration and a
\* rule file the core refreshes by itself, d3 the configuration only.
MCFiles == [d \in Deployment |->
              Path \cap (IF d = d1 THEN {config, geo}
                         ELSE IF d = d2 THEN {config, rules} ELSE {config})]
=============================================================================
