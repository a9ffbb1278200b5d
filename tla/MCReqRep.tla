------------------------------ MODULE MCReqRep ------------------------------
(* Two agents: connection requests in both directions, and requests that   *)
(* other loops and goroutines handle.                                      *)
EXTENDS ReqRep

Some == {<<"a", "b", "connReq">>, <<"b", "a", "connReq">>,
         <<"a", "b", "join">>, <<"a", "b", "query">>, <<"b", "a", "statusAck">>}
Patterns == {<<"base", "*">>, <<"base", "didexchange">>, <<"*", "pub-sub">>}
=============================================================================
