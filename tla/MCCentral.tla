------------------------------ MODULE MCCentral ------------------------------
(* One browser and one process.  The Recipe "versions" and the source      *)
(* "test" have names that are also words of the API's paths.               *)
EXTENDS CentralService

CONSTANTS body1, body2, old, new

Basic == [repo |-> "repo", creds |-> {"username", "password"}]
Mixed == [repo |-> "repo", creds |-> {"username", "key"}]
MCNeeds == [u \in {"repo"} |-> "basic"]

MCBrowserOps == SessionOps \cup {Op("putSource", "test", Basic)}

MCLocalOps == {Op("deleteSource", "test", Nothing)}

MCRemoteOps ==
  {Op("listSources", Nothing, Nothing), Op("deleteSource", "test", Nothing)}
    \cup {Op("testSource", Nothing, e) : e \in {Basic, Mixed}}
    \cup {op \in RecipeOps :
            /\ op.do \in {"put", "rollback"} => op.name = "versions"
            /\ op.do \in {"version", "rollback"} => op.arg = 1
            /\ op.name = "app" => op.do = "get"}
=============================================================================
