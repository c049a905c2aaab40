------------------------------ MODULE MCHttpRetry ------------------------------
(* HttpRetry over the calls of the client. *)
EXTENDS HttpRetry, SdkClient
=============================================================================
