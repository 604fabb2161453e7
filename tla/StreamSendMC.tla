---------------------------- MODULE StreamSendMC ----------------------------
(***************************************************************************)
(* StreamSend for TLC, in both modes on a plain connection: raw, and the   *)
(* chunked default (HttpResponse.h, ResponseStream::send and close), where *)
(* a length of one digit and two CRLFs make five bytes.                    *)
(***************************************************************************)
EXTENDS StreamSend

RawAndChunked == {[n \in 0..Chunk |-> 0], [n \in 0..Chunk |-> 5]}
=============================================================================
