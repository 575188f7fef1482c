---------------------------- MODULE MCHttpClient ----------------------------
(***************************************************************************)
(* An instance of HttpClient for TLC.                                      *)
(***************************************************************************)
EXTENDS HttpClient

\* The upload of a report, requests with the options of the client, and requests
\* with options of the caller.
Calls ==
    {[method |-> "POST", auto |-> FALSE, retry |-> <<>>, body |-> "multipart"],
     [method |-> "GET", auto |-> TRUE, retry |-> <<>>, body |-> "json"],
     [method |-> "HEAD", auto |-> FALSE, retry |-> <<>>, body |-> "json"],
     [method |-> "POST", auto |-> FALSE, retry |-> <<RetryErrResp>>, body |-> "raw"],
     [method |-> "POST", auto |-> FALSE, retry |-> <<Retry5XX>>, body |-> "json"],
     [method |-> "POST", auto |-> FALSE, retry |-> <<RetryErrResp, NoRetry>>, body |-> "json"]}
=============================================================================
