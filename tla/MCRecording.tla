---------------------------- MODULE MCRecording ----------------------------
(***************************************************************************)
(* Two requests, with ids of their own as the middleware generates them.   *)
(***************************************************************************)
EXTENDS Recording, TLC

CONSTANTS r1, r2

MCRequests == {r1, r2}
OwnIds == r1 :> 1 @@ r2 :> 2
RequestBody == {{"client_req"}}
=============================================================================
