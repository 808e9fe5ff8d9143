------------------------------- MODULE MCGrpc -------------------------------
(* Small instances of the gRPC handlers: an upload and requests that run    *)
(* beside or after it.                                                      *)
EXTENDS Grpc
=============================================================================
