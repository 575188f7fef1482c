----------------------------- MODULE HttpClient -----------------------------
(***************************************************************************)
(* One request of the HTTP client of the agent: client.go, request.go and  *)
(* retry.go of agent/pkg/httpclient, with the DNS cache it dials through,  *)
(* and uploadFile of agent/core/callback.go, which uses it.                *)
(*                                                                         *)
(* A request is sent, perhaps several times, by retry and retryIfTimeout;  *)
(* one with a multipart body is sent once, and a goroutine writes the file *)
(* into a pipe that the transport reads.  The transport of net/http and    *)
(* the server are external.  The client is one made with a DNS cache and   *)
(* WithCompleteRedirect, as uploadFile's is but for the cache.             *)
(***************************************************************************)
EXTENDS DnsCache, Sequences, SequencesExt

CONSTANTS
    Call,       \* the requests that callers make
    Chunks      \* writes it takes to put a file into the pipe

-----------------------------------------------------------------------------
(* Retry options *)

RetryErrResp == [MaxTime |-> 3, Interval |-> 2, Fns |-> <<"err">>]
Retry5XX     == [MaxTime |-> 3, Interval |-> 2, Fns |-> <<"5xx">>]
NoRetry      == [MaxTime |-> 0, Interval |-> 0, Fns |-> <<>>]

MAX_RETRY_TIMES_FOR_TIMEOUT == 2

\* Mutant of mergeRetryOptions: the times are added up.
mergeRetryOptionsSum(rs) ==
    IF \E k \in DOMAIN rs : rs[k] = NoRetry
    THEN [NoRetry EXCEPT !.MaxTime = 1]
    ELSE [MaxTime |-> 3 + 3 * Len(rs), Interval |-> 2, Fns |-> FlattenSeq([k \in DOMAIN rs |-> rs[k].Fns])]

\* NoRetry anywhere in the list takes away all the others.
mergeRetryOptions(rs) ==
    IF \E k \in DOMAIN rs : rs[k] = NoRetry
    THEN [NoRetry EXCEPT !.MaxTime = 1]
    ELSE [MaxTime  |-> Max({3} \cup {rs[k].MaxTime : k \in DOMAIN rs}),
          Interval |-> Max({2} \cup {rs[k].Interval : k \in DOMAIN rs}),
          Fns      |-> FlattenSeq([k \in DOMAIN rs |-> rs[k].Fns])]

\* Mutant of Defaults: the options of Get the other way round.
DefaultsSwapped(method, auto) ==
    CASE method = "GET" /\ auto -> <<Retry5XX, RetryErrResp>>
      [] method = "HEAD" -> <<RetryErrResp>>
      [] OTHER -> <<>>

\* What Get, Head and the other methods take when the caller gives no options
Defaults(method, auto) ==
    CASE method = "GET" /\ auto -> <<RetryErrResp, Retry5XX>>
      [] method = "HEAD" -> <<RetryErrResp>>
      [] OTHER -> <<>>

\* retry is the list of options the caller gives, auto is enableAutoRetry.
ASSUME CallAssumption ==
    \A k \in Call :
        /\ k.method \in {"GET", "HEAD", "POST"} /\ k.auto \in BOOLEAN
        /\ k.body \in {"json", "raw", "multipart"}
        /\ k.retry \in Seq({RetryErrResp, Retry5XX, NoRetry})

ASSUME ChunksAssumption == Chunks \in Nat \ {0}

RetryOption(k) == mergeRetryOptions(IF k.retry = <<>> THEN Defaults(k.method, k.auto) ELSE k.retry)

-----------------------------------------------------------------------------
(* State *)

VARIABLE
    req         \* the request

\* left: what r.internal still holds of the body; out: what the attempt under way
\* carries; dial: the lookup it waits for; taken: history, the bodies the
\* server has taken; pipe, written, file: the writer goroutine of a multipart body.
Request == [at: {"new", "dup", "dial", "lookup", "sent", "judge", "read", "done", "panic"},
            call: Call, i: 0..3, j: 0..MAX_RETRY_TIMES_FOR_TIMEOUT,
            left: {"whole", "part"}, out: {"whole", "part", "none"}, dial: Lookup,
            resp: {"nil", "2xx", "page", "4xx", "5xx"}, err: {"nil", "timeout", "other"},
            ok: BOOLEAN, taken: SUBSET {"whole", "part"},
            pipe: {"open", "eof", "closed"}, written: 0..Chunks, file: {"none", "open", "closed"}]

vars == <<dnsVars, req>>

TypeOK == DnsTypeOK /\ req \in Request

Init ==
    /\ DnsInit
    /\ \E k \in Call, l \in Lookup :
        req = [at |-> "new", call |-> k, i |-> 0, j |-> 0, left |-> "whole", out |-> "none", dial |-> l,
               resp |-> "nil", err |-> "nil", ok |-> FALSE, taken |-> {},
               pipe |-> "closed", written |-> 0, file |-> "none"]

Multipart == req.call.body = "multipart"

InFlight == req.at \in {"dial", "lookup", "sent"}

\* The transport is through with an attempt, and closes the body it was given.
Ended(resp, err, taken) ==
    req' = [req EXCEPT !.at = "judge", !.resp = resp, !.err = err, !.taken = taken, !.pipe = "closed"]

-----------------------------------------------------------------------------
(* Building and sending *)

\* The body is set, which starts the writer of a multipart one, and Do builds the
\* request.
Do ==
    /\ req.at = "new"
    /\ req' = IF Multipart
              THEN [req EXCEPT !.at = "dial", !.out = "whole", !.pipe = "open", !.file = "open"]
              ELSE [req EXCEPT !.at = "dup"]
    /\ UNCHANGED dnsVars

\* There is no host, or the body or the address is no good: nothing is sent, and
\* the writer of a multipart body waits for a reader for good.
DoFails ==
    /\ req.at = "new"
    /\ req' = [req EXCEPT !.at = "done", !.err = "other",
                          !.pipe = IF Multipart THEN "open" ELSE @,
                          !.file = IF Multipart THEN "open" ELSE @]
    /\ UNCHANGED dnsVars

\* Mutant of dupRequest: the copy is not kept for the next time.
dupRequestOnce ==
    /\ req.at = "dup"
    /\ req' = [req EXCEPT !.at = "dial", !.out = req.left, !.left = "part"]
    /\ UNCHANGED dnsVars

\* The body is read and copied: one copy is sent, the other one kept.
dupRequest ==
    /\ req.at = "dup"
    /\ req' = [req EXCEPT !.at = "dial", !.out = req.left]
    /\ UNCHANGED dnsVars

\* The reader given to RawBody fails in the middle: what it has given is gone.
dupRequestFails ==
    /\ req.at = "dup"
    /\ req.call.body = "raw"
    /\ req' = [req EXCEPT !.at = "judge", !.left = "part", !.resp = "nil", !.err = "other"]
    /\ UNCHANGED dnsVars

\* An idle connection of the transport
Reuse ==
    /\ req.at = "dial"
    /\ req' = [req EXCEPT !.at = "sent"]
    /\ UNCHANGED dnsVars

\* The dial of mkDialContext begins with the cache.
Dial(l) ==
    /\ req.at = "dial"
    /\ Take(l)
    /\ req' = [req EXCEPT !.at = "lookup", !.dial = l]

\* What the cache has is tried, and then the name itself, which reaches the host.
Connect ==
    /\ req.at = "lookup"
    /\ look[req.dial].at \in {"found", "failed"}
    /\ Return(req.dial)
    /\ req' = [req EXCEPT !.at = "sent"]

-----------------------------------------------------------------------------
(* The transport and the server (external) *)

\* The whole request can have come to the server, with its body to the end.
Complete == req.at = "sent" /\ req.out # "none" /\ (Multipart => req.pipe = "eof")

\* What the server has taken when an attempt ends without an answer
Received == {req.taken, IF Complete THEN req.taken \cup {req.out} ELSE req.taken}

\* The server takes the body and answers.
Serve(resp) ==
    /\ Complete
    /\ Ended(resp, "nil", req.taken \cup {req.out})
    /\ UNCHANGED dnsVars

\* The server, or what stands before it, answers without taking the body.
Refuse(resp) ==
    /\ req.at = "sent"
    /\ Ended(resp, "nil", req.taken)
    /\ UNCHANGED dnsVars

\* The connection breaks, before or after the server has taken the body.
Break ==
    /\ InFlight
    /\ \E t \in Received : Ended("nil", "other", t)
    /\ UNCHANGED dnsVars

\* WithCompleteRedirect: method and header are kept, and the body if there is a
\* GetBody, which a pipe has not.
Redirect ==
    /\ req.at = "sent"
    /\ req' = [req EXCEPT !.at = "dial", !.out = IF Multipart THEN "none" ELSE @, !.pipe = "closed"]
    /\ UNCHANGED dnsVars

\* Mutant of Timeout: there is a timeout for the dial only.
TimeoutDial ==
    /\ req.at \in {"dial", "lookup"}
    /\ Ended("nil", "timeout", req.taken)
    /\ UNCHANGED dnsVars

\* The timeout of the client, for the whole of an attempt with its redirects.
\* The server may have taken the body.
Timeout ==
    /\ InFlight
    /\ \E t \in Received : Ended("nil", "timeout", t)
    /\ UNCHANGED dnsVars

-----------------------------------------------------------------------------
(* The writer goroutine of a multipart body *)

\* A write goes through when the transport reads.
Write ==
    /\ req.file = "open" /\ req.pipe = "open" /\ req.at = "sent"
    /\ req.written < Chunks
    /\ req' = [req EXCEPT !.written = @ + 1]
    /\ UNCHANGED dnsVars

\* All is written: the form and the pipe are closed, then the file.
WriteEnds ==
    /\ req.file = "open" /\ req.pipe = "open"
    /\ req.written = Chunks
    /\ req' = [req EXCEPT !.pipe = "eof", !.file = "closed"]
    /\ UNCHANGED dnsVars

\* Mutant of ReadFails: form and pipe are closed on this path too.
ReadFailsCloses ==
    /\ req.file = "open" /\ req.pipe = "open" /\ req.at = "sent"
    /\ req' = [req EXCEPT !.file = "closed", !.pipe = "eof", !.out = "part"]
    /\ UNCHANGED dnsVars

\* The file cannot be read: the goroutine returns and leaves the pipe open.
ReadFails ==
    /\ req.file = "open" /\ req.pipe = "open" /\ req.at = "sent"
    /\ req' = [req EXCEPT !.file = "closed"]
    /\ UNCHANGED dnsVars

\* A write into a pipe that the transport has closed fails.
WriteFails ==
    /\ req.file = "open" /\ req.pipe = "closed"
    /\ req' = [req EXCEPT !.file = "closed"]
    /\ UNCHANGED dnsVars

-----------------------------------------------------------------------------
(* retry and retryIfTimeout *)

Fns == RetryOption(req.call).Fns

\* The answer of a retry function; the one of Retry5XX looks into the response.
Wants(fn) == IF fn = "err" THEN req.err # "nil" ELSE req.resp = "5xx"

\* The functions are asked in turn until one wants a retry.
Asked(k) == k \in DOMAIN Fns /\ \A l \in 1..(k - 1) : ~Wants(Fns[l])

Panics == \E k \in DOMAIN Fns : Asked(k) /\ Fns[k] = "5xx" /\ req.resp = "nil"

Judge ==
    /\ req.at = "judge"
    /\ LET again == ~Multipart /\ req.err = "timeout" /\ req.j < MAX_RETRY_TIMES_FOR_TIMEOUT
           retry == ~Multipart /\ \E k \in DOMAIN Fns : Wants(Fns[k])
           last  == req.i + 1 >= RetryOption(req.call).MaxTime
       IN  req' = IF again THEN [req EXCEPT !.at = "dup", !.j = @ + 1, !.resp = "nil", !.err = "nil"]
                  ELSE IF ~Multipart /\ Panics THEN [req EXCEPT !.at = "panic"]
                  ELSE IF retry /\ ~last THEN [req EXCEPT !.at = "dup", !.i = @ + 1, !.j = 0, !.resp = "nil", !.err = "nil"]
                  ELSE IF req.err # "nil" THEN [req EXCEPT !.at = "done"]
                  ELSE [req EXCEPT !.at = "read"]
    /\ UNCHANGED dnsVars

\* JSON reads the answer and decodes it if it is one; the caller, like uploadFile,
\* wants a 2xx that says "success", which a page that is no JSON does not.
JSON ==
    /\ req.at = "read"
    /\ \/ req' = [req EXCEPT !.at = "done", !.ok = req.resp = "2xx"]
       \/ req' = [req EXCEPT !.at = "done", !.err = "other"]
    /\ UNCHANGED dnsVars

-----------------------------------------------------------------------------
(* The specification *)

Client == Do \/ DoFails \/ dupRequest \/ dupRequestFails \/ Judge \/ JSON

Dialling == Reuse \/ Connect \/ \E l \in Lookup : Dial(l)

Writer == Write \/ WriteEnds \/ ReadFails \/ WriteFails

Server ==
    \/ \E resp \in {"2xx", "4xx", "5xx"} : Serve(resp)
    \/ \E resp \in {"page", "4xx", "5xx"} : Refuse(resp)
    \/ Redirect \/ Break

\* Lookups of other requests, and those of attempts that have timed out
Others ==
    \/ \E l \in Lookup : Take(l) /\ UNCHANGED req
    \/ \E l \in Lookup : (req.at # "lookup" \/ req.dial # l) /\ Return(l) /\ UNCHANGED req

Next ==
    \/ Client \/ Dialling \/ Writer \/ Server \/ Timeout \/ Others
    \/ (\E l \in Lookup : LookupSteps(l)) /\ UNCHANGED req
    \/ (Refresh \/ \E a \in Addr : Move(a)) /\ UNCHANGED req

Spec == Init /\ [][Next]_vars

\* The goroutines of the client run and its timer fires; a lookup comes to an end.
\* The server need not answer.
FairSpec ==
    /\ Spec
    /\ WF_vars(Client) /\ WF_vars(Writer) /\ WF_vars(Timeout)

-----------------------------------------------------------------------------
(* Properties *)

\* What a caller gives from memory is sent whole in every attempt, however often
\* it is sent: dupRequest keeps a copy (request.go:127).
RetriedWhole == req.call.body = "json" => req.taken \subseteq {"whole"}

\* When uploadFile returns a file, the server has the whole of it: neither a file
\* that could not be read to its end, nor a redirect that loses the body, nor a
\* page of a proxy passes for an upload.
StoredIfOk == req.call.body # "raw" /\ req.ok => req.taken = {"whole"}

\* A request with the options the client chooses itself does not panic, whatever
\* comes back: Retry5XX looks into a response only after RetryErrResp has seen
\* that there is one.
NoPanicByDefault == req.at = "panic" => req.call.retry # <<>>

\* A request that has been sent comes to an end and its file is closed, even if
\* the server never answers, redirects for ever, or the file cannot be read,
\* in which case nobody ends the body but the timeout.
RequestEnds == InFlight ~> req.at \in {"done", "panic"} /\ req.file # "open"
=============================================================================
