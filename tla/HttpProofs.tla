----------------------------- MODULE HttpProofs -----------------------------
(***************************************************************************)
(* Proofs about HttpClient and its DNS cache, for any set of requests, of  *)
(* lookups and of addresses, and any number of refreshes.                  *)
(***************************************************************************)
EXTENDS HttpClient, SequenceTheorems, TLAPS

-----------------------------------------------------------------------------
(* Bodies *)

\* A body from memory is always whole, and one from a pipe is whole or, after a
\* redirect, none; an answer of the server that took the body comes with it.
BodyInv ==
    /\ req.call.body # "raw" =>
        /\ req.left = "whole"
        /\ req.out \in {"whole", "none"}
        /\ req.taken \subseteq {"whole"}
        /\ req.resp = "2xx" => req.taken = {"whole"}
    /\ req.ok => req.at = "done" /\ req.resp = "2xx"

\* The request is a record with its fields.
ReqOK ==
    /\ req.dial \in Lookup
    /\ req = [f \in {"at", "call", "i", "j", "left", "out", "dial", "resp", "err", "ok", "taken",
                    "pipe", "written", "file"} |-> req[f]]

ReqInv == ReqOK /\ BodyInv

\* Every action keeps the invariant about the body.
LEMMA BodyPreserved == ReqInv /\ Next => ReqInv'
<1> SUFFICES ASSUME ReqOK, BodyInv, Next PROVE ReqOK' /\ BodyInv'
  BY DEF ReqInv
<1>1. CASE Do
  <2>1. ReqOK'
    BY <1>1 DEF ReqOK, Do, Multipart
  <2>2. BodyInv'
    BY <1>1 DEF ReqOK, BodyInv, Do, Multipart
  <2> QED
    BY <2>1, <2>2
<1>2. CASE DoFails
  <2>1. ReqOK'
    BY <1>2 DEF ReqOK, DoFails, Multipart
  <2>2. BodyInv'
    BY <1>2 DEF ReqOK, BodyInv, DoFails, Multipart
  <2> QED
    BY <2>1, <2>2
<1>3. CASE dupRequest
  <2>1. ReqOK'
    BY <1>3 DEF ReqOK, dupRequest
  <2>2. BodyInv'
    BY <1>3 DEF ReqOK, BodyInv, dupRequest
  <2> QED
    BY <2>1, <2>2
<1>4. CASE dupRequestFails
  <2>1. ReqOK'
    BY <1>4 DEF ReqOK, dupRequestFails
  <2>2. BodyInv'
    BY <1>4 DEF ReqOK, BodyInv, dupRequestFails
  <2> QED
    BY <2>1, <2>2
<1>5. CASE Judge
  <2>1. ReqOK'
    BY <1>5 DEF ReqOK, Judge, MAX_RETRY_TIMES_FOR_TIMEOUT
  <2>2. BodyInv'
    BY <1>5 DEF ReqOK, BodyInv, Judge, MAX_RETRY_TIMES_FOR_TIMEOUT
  <2> QED
    BY <2>1, <2>2
<1>6. CASE JSON
  <2>1. ReqOK'
    BY <1>6 DEF ReqOK, JSON
  <2>2. BodyInv'
    BY <1>6 DEF ReqOK, BodyInv, JSON
  <2> QED
    BY <2>1, <2>2
<1>7. CASE Write
  <2>1. ReqOK'
    BY <1>7 DEF ReqOK, Write
  <2>2. BodyInv'
    BY <1>7 DEF ReqOK, BodyInv, Write
  <2> QED
    BY <2>1, <2>2
<1>8. CASE WriteEnds
  <2>1. ReqOK'
    BY <1>8 DEF ReqOK, WriteEnds
  <2>2. BodyInv'
    BY <1>8 DEF ReqOK, BodyInv, WriteEnds
  <2> QED
    BY <2>1, <2>2
<1>9. CASE ReadFails
  <2>1. ReqOK'
    BY <1>9 DEF ReqOK, ReadFails
  <2>2. BodyInv'
    BY <1>9 DEF ReqOK, BodyInv, ReadFails
  <2> QED
    BY <2>1, <2>2
<1>10. CASE WriteFails
  <2>1. ReqOK'
    BY <1>10 DEF ReqOK, WriteFails
  <2>2. BodyInv'
    BY <1>10 DEF ReqOK, BodyInv, WriteFails
  <2> QED
    BY <2>1, <2>2
<1>11. CASE Timeout
  <2>1. ReqOK'
    BY <1>11 DEF ReqOK, Timeout, Received, Complete, Ended
  <2>2. BodyInv'
    BY <1>11 DEF ReqOK, BodyInv, Timeout, InFlight, Received, Complete, Ended
  <2> QED
    BY <2>1, <2>2
<1>12. CASE Break
  <2>1. ReqOK'
    BY <1>12 DEF ReqOK, Break, Received, Complete, Ended
  <2>2. BodyInv'
    BY <1>12 DEF ReqOK, BodyInv, Break, InFlight, Received, Complete, Ended
  <2> QED
    BY <2>1, <2>2
<1>13. CASE Redirect
  <2>1. ReqOK'
    BY <1>13 DEF ReqOK, Redirect, Multipart
  <2>2. BodyInv'
    BY <1>13 DEF ReqOK, BodyInv, Redirect, Multipart
  <2> QED
    BY <2>1, <2>2
<1>14. CASE Reuse
  <2>1. ReqOK'
    BY <1>14 DEF ReqOK, Reuse
  <2>2. BodyInv'
    BY <1>14 DEF ReqOK, BodyInv, Reuse
  <2> QED
    BY <2>1, <2>2
<1>15. CASE Connect
  <2>1. ReqOK'
    BY <1>15 DEF ReqOK, Connect
  <2>2. BodyInv'
    BY <1>15 DEF ReqOK, BodyInv, Connect
  <2> QED
    BY <2>1, <2>2
<1>16. ASSUME NEW resp \in {"2xx", "4xx", "5xx"}, Serve(resp) PROVE ReqOK' /\ BodyInv'
  <2>1. ReqOK'
    BY <1>16 DEF ReqOK, Serve, Complete, Ended
  <2>2. BodyInv'
    BY <1>16 DEF ReqOK, BodyInv, Serve, Complete, Ended
  <2> QED
    BY <2>1, <2>2
<1>17. ASSUME NEW resp \in {"page", "4xx", "5xx"}, Refuse(resp) PROVE ReqOK' /\ BodyInv'
  <2>1. ReqOK'
    BY <1>17 DEF ReqOK, Refuse, Complete, Ended
  <2>2. BodyInv'
    BY <1>17 DEF ReqOK, BodyInv, Refuse, Complete, Ended
  <2> QED
    BY <2>1, <2>2
<1>18. ASSUME NEW l \in Lookup, Dial(l) PROVE ReqOK' /\ BodyInv'
  <2>1. ReqOK'
    BY <1>18 DEF ReqOK, Dial
  <2>2. BodyInv'
    BY <1>18 DEF ReqOK, BodyInv, Dial
  <2> QED
    BY <2>1, <2>2
<1>19. CASE UNCHANGED req
  BY <1>19 DEF ReqOK, BodyInv
<1> QED
  BY <1>1, <1>2, <1>3, <1>4, <1>5, <1>6, <1>7, <1>8, <1>9, <1>10,
     <1>11, <1>12, <1>13, <1>14, <1>15, <1>16, <1>17, <1>18, <1>19
  DEF Next, Client, Dialling, Server, Writer, Others

\* The invariant about the body holds throughout.
LEMMA BodyInvariant == Spec => []ReqInv
<1>1. Init => ReqInv
  <2> SUFFICES ASSUME Init PROVE ReqOK /\ BodyInv
    BY DEF ReqInv
  <2>1. PICK k \in Call, l \in Lookup :
        req = [at |-> "new", call |-> k, i |-> 0, j |-> 0, left |-> "whole", out |-> "none", dial |-> l,
               resp |-> "nil", err |-> "nil", ok |-> FALSE, taken |-> {},
               pipe |-> "closed", written |-> 0, file |-> "none"]
    BY DEF Init
  <2>2. BodyInv
    BY <2>1 DEF BodyInv
  <2>3. req.dial \in Lookup
    BY <2>1
  <2>4. req = [f \in {"at", "call", "i", "j", "left", "out", "dial", "resp", "err", "ok", "taken",
                 "pipe", "written", "file"} |-> req[f]]
    BY <2>1, Zenon
  <2> QED
    BY <2>2, <2>3, <2>4 DEF ReqOK
<1>2. ReqInv /\ [Next]_vars => ReqInv'
  <2> SUFFICES ASSUME ReqInv, [Next]_vars PROVE ReqInv'
    OBVIOUS
  <2>1. CASE UNCHANGED vars
    BY <2>1 DEF vars, ReqInv, ReqOK, BodyInv
  <2> QED
    BY <2>1, BodyPreserved
<1> QED
  BY <1>1, <1>2, PTL DEF Spec

\* However often a request is sent, by retries, after timeouts and redirects, a
\* body that its caller gave from memory is sent whole or not at all.
THEOREM BodiesReplayed == Spec => []RetriedWhole
<1>1. ReqInv => RetriedWhole
  BY DEF ReqInv, BodyInv, RetriedWhole
<1> QED
  BY <1>1, BodyInvariant, PTL

\* An upload that is taken for stored has been taken whole by the server,
\* whatever fails on the way.
THEOREM UploadsStored == Spec => []StoredIfOk
<1>1. ReqInv => StoredIfOk
  BY DEF ReqInv, BodyInv, StoredIfOk
<1> QED
  BY <1>1, BodyInvariant, PTL

-----------------------------------------------------------------------------
(* The DNS cache *)

\* The address of the host is one since the refresh, no lookup has taken a map
\* that is yet to come, those maps are empty, and an answer that goes into the
\* current map is one since the refresh.
DnsInv ==
    /\ DnsTypeOK
    /\ addr \in since
    /\ \A l \in Lookup : look[l].map <= gen
    /\ \A g \in 0..MaxRefresh : g > gen => maps[g] = NoAddr
    /\ \A l \in Lookup : look[l].at = "store" /\ look[l].map = gen => look[l].ips \in since
    /\ DnsFresh

\* A step of the cache and of the world around it
DnsStep ==
    \/ \E l \in Lookup : Take(l) \/ LookupSteps(l) \/ Return(l)
    \/ Refresh
    \/ \E a \in Addr : Move(a)

\* An empty cache satisfies the invariant.
LEMMA DnsInitial == DnsInit => DnsInv
BY DnsAssumption DEF DnsInit, DnsInv, DnsTypeOK, DnsFresh, Idle

\* Lookups, refreshes and moves of the host keep it.
LEMMA DnsPreserved == DnsInv /\ DnsStep => DnsInv'
<1> SUFFICES ASSUME DnsInv, DnsStep PROVE DnsInv'
  OBVIOUS
<1> USE DnsAssumption DEF DnsInv, DnsTypeOK, DnsFresh
<1>1. ASSUME NEW l \in Lookup, Take(l) PROVE DnsInv'
  BY <1>1 DEF Take
<1>2. ASSUME NEW l \in Lookup, Load(l) PROVE DnsInv'
  BY <1>2, ZenonT(40) DEF Load
<1>3. ASSUME NEW l \in Lookup, Resolve(l) PROVE DnsInv'
  <2> UNCHANGED <<addr, since, gen, maps>>
    BY <1>3 DEF Resolve
  <2>1. CASE look' = [look EXCEPT ![l].at = "store", ![l].ips = addr]
    BY <2>1
  <2>2. CASE look' = [look EXCEPT ![l].at = "failed"]
    BY <2>2
  <2> QED
    BY <1>3, <2>1, <2>2 DEF Resolve
<1>4. ASSUME NEW l \in Lookup, Store(l) PROVE DnsInv'
  <2> look[l].ips \in Addr \cup {NoAddr} /\ look[l].map \in 0..MaxRefresh
    OBVIOUS
  <2>1. DnsTypeOK' /\ (addr \in since)'
    BY <1>4 DEF Store
  <2>2. \A k \in Lookup : (look[k].map <= gen)'
    BY <1>4 DEF Store
  <2>3. \A g \in 0..MaxRefresh : (g > gen => maps[g] = NoAddr)'
    BY <1>4 DEF Store
  <2>4. \A k \in Lookup : (look[k].at = "store" /\ look[k].map = gen => look[k].ips \in since)'
    BY <1>4 DEF Store
  <2>5. DnsFresh'
    BY <1>4 DEF Store
  <2> QED
    BY <1>4, <2>1, <2>2, <2>3, <2>4, <2>5 DEF Store
<1>5. ASSUME NEW l \in Lookup, Return(l) PROVE DnsInv'
  BY <1>5 DEF Return, Idle
<1>6. ASSUME Refresh PROVE DnsInv'
  BY <1>6 DEF Refresh
<1>7. ASSUME NEW a \in Addr, Move(a) PROVE DnsInv'
  BY <1>7 DEF Move
<1> QED
  BY <1>1, <1>2, <1>3, <1>4, <1>5, <1>6, <1>7 DEF DnsStep, LookupSteps

\* A request touches the cache only by lookups.
LEMMA RequestsLookUp == ReqOK /\ Next => DnsStep \/ UNCHANGED dnsVars
<1> SUFFICES ASSUME ReqOK, Next PROVE DnsStep \/ UNCHANGED dnsVars
  OBVIOUS
<1>1. CASE Client
  BY <1>1 DEF Client, Do, DoFails, dupRequest, dupRequestFails, Judge, JSON
<1>2. CASE Writer \/ Timeout
  BY <1>2 DEF Writer, Write, WriteEnds, ReadFails, WriteFails, Timeout
<1>3. CASE Server
  BY <1>3 DEF Server, Serve, Refuse, Redirect, Break
<1>4. CASE Reuse
  BY <1>4 DEF Reuse
<1>5. CASE (\E l \in Lookup : Dial(l)) \/ Others \/ (\E l \in Lookup : LookupSteps(l))
  BY <1>5 DEF Dial, Others, DnsStep
<1>6. CASE Connect
  BY <1>6 DEF Connect, DnsStep, ReqOK
<1>7. CASE Refresh \/ \E a \in Addr : Move(a)
  BY <1>7 DEF DnsStep
<1> QED
  BY <1>1, <1>2, <1>3, <1>4, <1>5, <1>6, <1>7 DEF Next, Dialling

LEMMA DnsInvariant == Spec => []DnsInv
<1>1. Init => DnsInv
  BY DnsInitial DEF Init
<1>2. ReqInv /\ DnsInv /\ [Next]_vars => DnsInv'
  <2> SUFFICES ASSUME ReqInv, DnsInv, [Next]_vars PROVE DnsInv'
    OBVIOUS
  <2>1. CASE DnsStep
    BY <2>1, DnsPreserved
  <2>2. CASE UNCHANGED dnsVars
    BY <2>2 DEF dnsVars, DnsInv, DnsTypeOK, DnsFresh
  <2> QED
    BY <2>1, <2>2, RequestsLookUp DEF vars, ReqInv
<1> QED
  BY <1>1, <1>2, BodyInvariant, PTL DEF Spec

\* Whatever requests and lookups do, and however often the cache is refreshed,
\* it serves no address of before its last refresh.
THEOREM CacheFresh == Spec => []DnsFresh
<1>1. DnsInv => DnsFresh
  BY DEF DnsInv
<1> QED
  BY <1>1, DnsInvariant, PTL

-----------------------------------------------------------------------------
(* Retry options *)

\* What FlattenSeq makes of one and of two sequences
LEMMA FlattenOne ==
  ASSUME NEW s, DOMAIN s = 1..1, Len(s) = 1
  PROVE  FlattenSeq(s) = s[1]
<1> DEFINE F(f) == [i \in 1..Len(s) |-> IF i = 1 THEN s[i] ELSE f[i - 1] \o s[i]]
           fl == CHOOSE f : f = F(f)
           w == [i \in 1..Len(s) |-> s[1]]
<1>1. w = F(w)
  OBVIOUS
<1>2. fl = F(fl)
  <2> HIDE DEF F, w
  <2> QED
    BY <1>1
<1>3. fl[1] = s[1]
  <2> HIDE DEF fl
  <2> QED
    BY <1>2
<1>4. FlattenSeq(s) = fl[1]
  BY DEF FlattenSeq
<1> HIDE DEF fl
<1> QED
  BY <1>3, <1>4

LEMMA FlattenTwo ==
  ASSUME NEW s, DOMAIN s = 1..2, Len(s) = 2
  PROVE  FlattenSeq(s) = s[1] \o s[2]
<1> DEFINE F(f) == [i \in 1..Len(s) |-> IF i = 1 THEN s[i] ELSE f[i - 1] \o s[i]]
           fl == CHOOSE f : f = F(f)
           w == [i \in 1..Len(s) |-> IF i = 1 THEN s[1] ELSE s[1] \o s[2]]
<1>1. w = F(w)
  OBVIOUS
<1>2. fl = F(fl)
  <2> HIDE DEF F, w
  <2> QED
    BY <1>1
<1>3. fl[2] = s[1] \o s[2]
  <2> HIDE DEF fl
  <2>1. fl[1] = s[1]
    BY <1>2
  <2> QED
    BY <1>2, <2>1
<1>4. FlattenSeq(s) = fl[2]
  BY DEF FlattenSeq
<1> HIDE DEF fl
<1> QED
  BY <1>3, <1>4

LEMMA OptionValues ==
  /\ RetryErrResp # NoRetry /\ Retry5XX # NoRetry
  /\ RetryErrResp.MaxTime = 3 /\ Retry5XX.MaxTime = 3 /\ NoRetry.MaxTime = 0
  /\ RetryErrResp.Fns = <<"err">> /\ Retry5XX.Fns = <<"5xx">>
  /\ [NoRetry EXCEPT !.MaxTime = 1].MaxTime = 1
BY DEF RetryErrResp, Retry5XX, NoRetry

\* NoRetry sends a request once, other options three times.
LEMMA MergedTimes ==
  ASSUME NEW rs \in Seq({RetryErrResp, Retry5XX, NoRetry})
  PROVE  mergeRetryOptions(rs).MaxTime \in {1, 3}
<1>1. CASE \E k \in DOMAIN rs : rs[k] = NoRetry
  BY <1>1, OptionValues DEF mergeRetryOptions
<1>2. CASE ~\E k \in DOMAIN rs : rs[k] = NoRetry
  <2> DEFINE times == {3} \cup {rs[k].MaxTime : k \in DOMAIN rs}
  <2>1. \A k \in DOMAIN rs : rs[k] \in {RetryErrResp, Retry5XX}
    BY <1>2
  <2>2. times = {3}
    BY <2>1, OptionValues
  <2>3. Max(times) = 3
    <3> HIDE DEF times
    <3> QED
      BY <2>2 DEF Max
  <2> HIDE DEF times
  <2>4. mergeRetryOptions(rs).MaxTime = Max(times)
    BY <1>2 DEF mergeRetryOptions, times
  <2> QED
    BY <2>3, <2>4
<1> QED
  BY <1>1, <1>2

LEMMA RetryTimes ==
  ASSUME NEW k \in Call
  PROVE  RetryOption(k).MaxTime \in {1, 3}
<1> DEFINE rs == IF k.retry = <<>> THEN Defaults(k.method, k.auto) ELSE k.retry
<1>1. rs \in Seq({RetryErrResp, Retry5XX, NoRetry})
  <2>1. k.retry \in Seq({RetryErrResp, Retry5XX, NoRetry})
    BY CallAssumption
  <2>2. Defaults(k.method, k.auto) \in Seq({RetryErrResp, Retry5XX, NoRetry})
    <3>1. /\ <<>> \in Seq({RetryErrResp, Retry5XX, NoRetry})
          /\ <<RetryErrResp>> \in Seq({RetryErrResp, Retry5XX, NoRetry})
          /\ <<RetryErrResp, Retry5XX>> \in Seq({RetryErrResp, Retry5XX, NoRetry})
      OBVIOUS
    <3> QED
      BY <3>1 DEF Defaults
  <2> QED
    BY <2>1, <2>2
<1> HIDE DEF rs
<1>2. RetryOption(k) = mergeRetryOptions(rs)
  BY DEF RetryOption, rs
<1> QED
  BY <1>1, <1>2, MergedTimes

\* The functions the client asks by default: the one that looks into the
\* response comes after the one that sees that there is one.
LEMMA DefaultFns ==
  ASSUME NEW method, NEW auto
  PROVE  LET fns == mergeRetryOptions(Defaults(method, auto)).Fns
         IN  fns \in {<<>>, <<"err">>, <<"err", "5xx">>}
<1> DEFINE rs == Defaults(method, auto)
           seqs == [k \in DOMAIN rs |-> rs[k].Fns]
<1>1. rs \in {<<>>, <<RetryErrResp>>, <<RetryErrResp, Retry5XX>>}
  BY DEF Defaults
<1> HIDE DEF rs
<1>2. ~\E k \in DOMAIN rs : rs[k] = NoRetry
  BY <1>1, OptionValues
<1>3. mergeRetryOptions(rs).Fns = FlattenSeq(seqs)
  BY <1>2 DEF mergeRetryOptions
<1>4. CASE rs = <<>>
  <2>1. seqs = <<>>
    BY <1>4
  <2> QED
    BY <1>3, <2>1 DEF FlattenSeq, rs
<1>5. CASE rs = <<RetryErrResp>>
  <2>1. seqs = << <<"err">> >>
    BY <1>5, OptionValues
  <2> HIDE DEF seqs
  <2>2. FlattenSeq(seqs) = <<"err">>
    BY <2>1, FlattenOne
  <2> QED
    BY <1>3, <2>2 DEF rs
<1>6. CASE rs = <<RetryErrResp, Retry5XX>>
  <2>1. seqs = << <<"err">>, <<"5xx">> >>
    BY <1>6, OptionValues
  <2> HIDE DEF seqs
  <2>2. DOMAIN seqs = 1..2 /\ Len(seqs) = 2 /\ seqs[1] = <<"err">> /\ seqs[2] = <<"5xx">>
    BY <2>1
  <2>3. FlattenSeq(seqs) = seqs[1] \o seqs[2]
    BY <2>2, FlattenTwo
  <2>4. <<"err">> \o <<"5xx">> = <<"err", "5xx">>
    <3> DEFINE S == {"err", "5xx"}
    <3>1. <<"err">> \in Seq(S) /\ <<"5xx">> \in Seq(S) /\ <<"err", "5xx">> \in Seq(S)
      OBVIOUS
    <3>2. /\ <<"err">> \o <<"5xx">> \in Seq(S)
          /\ Len(<<"err">> \o <<"5xx">>) = 2
          /\ (<<"err">> \o <<"5xx">>)[1] = "err" /\ (<<"err">> \o <<"5xx">>)[2] = "5xx"
      BY <3>1, ConcatProperties
    <3>3. ASSUME NEW s \in Seq(S), NEW t \in Seq(S), Len(s) = 2, Len(t) = 2, s[1] = t[1], s[2] = t[2]
          PROVE  s = t
      BY <3>3, SeqEqual
    <3> QED
      BY <3>1, <3>2, <3>3
  <2> QED
    BY <1>3, <2>2, <2>3, <2>4 DEF rs
<1> QED
  BY <1>1, <1>4, <1>5, <1>6

-----------------------------------------------------------------------------
(* Types *)

\* The fields of a request but two
Fields ==
    /\ req.at \in {"new", "dup", "dial", "lookup", "sent", "judge", "read", "done", "panic"}
    /\ req.call \in Call
    /\ req.i \in 0..3 /\ req.j \in 0..MAX_RETRY_TIMES_FOR_TIMEOUT
    /\ req.left \in {"whole", "part"} /\ req.out \in {"whole", "part", "none"}
    /\ req.resp \in {"nil", "2xx", "page", "4xx", "5xx"} /\ req.err \in {"nil", "timeout", "other"}
    /\ req.taken \in SUBSET {"whole", "part"}
    /\ req.pipe \in {"open", "eof", "closed"} /\ req.written \in 0..Chunks
    /\ req.file \in {"none", "open", "closed"}

OkType == req.ok \in BOOLEAN

LEMMA RequestHasFields == ReqOK /\ Fields /\ OkType => req \in Request
<1> SUFFICES ASSUME ReqOK, Fields, OkType PROVE req \in Request
  OBVIOUS
<1>1. req = [at |-> req.at, call |-> req.call, i |-> req.i, j |-> req.j, left |-> req.left,
             out |-> req.out, dial |-> req.dial, resp |-> req.resp, err |-> req.err, ok |-> req.ok,
             taken |-> req.taken, pipe |-> req.pipe, written |-> req.written, file |-> req.file]
  BY DEF ReqOK
<1>2. req.dial \in Lookup
  BY DEF ReqOK
<1>3. [at |-> req.at, call |-> req.call, i |-> req.i, j |-> req.j, left |-> req.left,
       out |-> req.out, dial |-> req.dial, resp |-> req.resp, err |-> req.err, ok |-> req.ok,
       taken |-> req.taken, pipe |-> req.pipe, written |-> req.written, file |-> req.file] \in Request
  BY <1>2 DEF Fields, OkType, Request
<1> QED
  BY <1>1, <1>3, Zenon

\* Every action leaves the fields of the request in range.
LEMMA FieldsPreserved ==
  ASSUME ReqOK, Fields, Next
  PROVE  Fields'
<1>0. /\ Received \subseteq SUBSET {"whole", "part"}
      /\ Complete => req.taken \cup {req.out} \subseteq {"whole", "part"}
  BY DEF Received, Complete, Fields
<1>1. ASSUME NEW resp \in {"nil", "2xx", "page", "4xx", "5xx"}, NEW err \in {"nil", "timeout", "other"},
             NEW taken \in SUBSET {"whole", "part"}, Ended(resp, err, taken)
      PROVE  Fields'
  BY <1>1 DEF Ended, ReqOK, Fields
<1>2. CASE Do \/ DoFails
  BY <1>2, ZenonT(40) DEF Do, DoFails, ReqOK, Fields
<1>3. CASE dupRequest \/ dupRequestFails
  BY <1>3, ZenonT(40) DEF dupRequest, dupRequestFails, ReqOK, Fields
<1>4. CASE Judge
  <2>1. req.call \in Call /\ req.i \in 0..3 /\ req.j \in 0..2
    BY DEF Fields, MAX_RETRY_TIMES_FOR_TIMEOUT
  <2>2. req.j < MAX_RETRY_TIMES_FOR_TIMEOUT => req.j + 1 \in 0..MAX_RETRY_TIMES_FOR_TIMEOUT
    BY <2>1 DEF MAX_RETRY_TIMES_FOR_TIMEOUT
  <2>3. 0 \in 0..MAX_RETRY_TIMES_FOR_TIMEOUT
    BY DEF MAX_RETRY_TIMES_FOR_TIMEOUT
  <2>4. ~(req.i + 1 >= RetryOption(req.call).MaxTime) => req.i + 1 \in 0..3
    BY <2>1, RetryTimes
  <2> QED
    BY <1>4, <2>2, <2>3, <2>4 DEF Judge, ReqOK, Fields
<1>5. CASE JSON
  BY <1>5 DEF JSON, ReqOK, Fields
<1>6. CASE Writer
  <2>1. req.written \in 0..Chunks /\ req.written < Chunks => req.written + 1 \in 0..Chunks
    BY ChunksAssumption
  <2>2. CASE Write
    BY <2>1, <2>2 DEF Write, ReqOK, Fields
  <2>3. CASE WriteEnds
    BY <2>3 DEF WriteEnds, ReqOK, Fields
  <2>4. CASE ReadFails \/ WriteFails
    BY <2>4 DEF ReadFails, WriteFails, ReqOK, Fields
  <2> QED
    BY <1>6, <2>2, <2>3, <2>4 DEF Writer
<1>7. CASE Timeout \/ Break
  BY <1>0, <1>1, <1>7 DEF Timeout, Break
<1>8. CASE Redirect \/ Reuse \/ Connect \/ \E l \in Lookup : Dial(l)
  BY <1>8, ZenonT(40) DEF Redirect, Reuse, Connect, Dial, ReqOK, Fields
<1>9. ASSUME NEW resp \in {"2xx", "4xx", "5xx"}, Serve(resp) PROVE Fields'
  BY <1>0, <1>1, <1>9 DEF Serve
<1>10. ASSUME NEW resp \in {"page", "4xx", "5xx"}, Refuse(resp) PROVE Fields'
  <2>1. req.taken \in SUBSET {"whole", "part"}
    BY DEF Fields
  <2> QED
    BY <1>1, <1>10, <2>1 DEF Refuse
<1>11. CASE UNCHANGED req
  BY <1>11 DEF Fields
<1> QED
  BY <1>2, <1>3, <1>4, <1>5, <1>6, <1>7, <1>8, <1>9, <1>10, <1>11 DEF Next, Client, Dialling, Server, Others


LEMMA OkPreserved ==
  ASSUME ReqOK, OkType, Next
  PROVE  OkType'
<1>1. CASE JSON
  BY <1>1, Zenon DEF JSON, ReqOK, OkType
<1>2. CASE ~JSON
  <2>1. req'.ok = req.ok
    BY <1>2 DEF Next, Client, Dialling, Writer, Server, Others, Timeout, Do, DoFails, dupRequest, dupRequestFails,
                Judge, Reuse, Connect, Dial, Write, WriteEnds, ReadFails, WriteFails, Serve, Refuse,
                Redirect, Break, Ended, ReqOK
  <2> QED
    BY <2>1 DEF OkType
<1> QED
  BY <1>1, <1>2

\* The cache and the request stay in range, for any options of the callers: a
\* request is sent no more often than the counters of retry and retryIfTimeout say.
THEOREM HttpTypeCorrect == Spec => []TypeOK
<1>1. Init => Fields /\ OkType
  <2> SUFFICES ASSUME Init PROVE Fields /\ OkType
    OBVIOUS
  <2>1. PICK k \in Call, l \in Lookup :
        req = [at |-> "new", call |-> k, i |-> 0, j |-> 0, left |-> "whole", out |-> "none", dial |-> l,
               resp |-> "nil", err |-> "nil", ok |-> FALSE, taken |-> {},
               pipe |-> "closed", written |-> 0, file |-> "none"]
    BY DEF Init
  <2>2. Fields
    BY <2>1, ChunksAssumption DEF Fields, MAX_RETRY_TIMES_FOR_TIMEOUT
  <2>3. OkType
    BY <2>1 DEF OkType
  <2> QED
    BY <2>2, <2>3
<1>2. ReqInv /\ Fields /\ OkType /\ [Next]_vars => (Fields /\ OkType)'
  <2>1. UNCHANGED vars /\ Fields /\ OkType => (Fields /\ OkType)'
    BY DEF vars, Fields, OkType
  <2> QED
    BY <2>1, FieldsPreserved, OkPreserved DEF ReqInv
<1>3. ReqInv /\ Fields /\ OkType /\ DnsInv => TypeOK
  BY RequestHasFields DEF ReqInv, DnsInv, TypeOK
<1> QED
  BY <1>1, <1>2, <1>3, BodyInvariant, DnsInvariant, PTL DEF Spec

-----------------------------------------------------------------------------
(* Panics *)

\* An attempt that ends without a response ends with an error.
Judged == req.at = "judge" /\ req.resp = "nil" => req.err # "nil"

LEMMA JudgedPreserved ==
  ASSUME ReqOK, Judged, Next
  PROVE  Judged'
<1>1. CASE Client
  BY <1>1 DEF Client, Do, DoFails, dupRequest, dupRequestFails, Judge, JSON, ReqOK, Judged
<1>2. CASE Writer
  BY <1>2 DEF Writer, Write, WriteEnds, ReadFails, WriteFails, ReqOK, Judged
<1>3. CASE Dialling \/ Redirect
  BY <1>3 DEF Dialling, Reuse, Connect, Dial, Redirect, ReqOK, Judged
<1>4. CASE Timeout \/ Break
  BY <1>4 DEF Timeout, Break, Ended, ReqOK, Judged
<1>5. ASSUME NEW resp \in {"2xx", "page", "4xx", "5xx"}, Serve(resp) \/ Refuse(resp)
      PROVE  Judged'
  BY <1>5 DEF Serve, Refuse, Ended, ReqOK, Judged
<1>6. CASE UNCHANGED req
  BY <1>6 DEF Judged
<1> QED
  BY <1>1, <1>2, <1>3, <1>4, <1>5, <1>6 DEF Next, Server, Others

\* With the options of the client, no function looks into a response that is not there.
LEMMA DefaultsDoNotPanic ==
  ASSUME Judged, req.at = "judge", req.call.retry = <<>>
  PROVE  ~Panics
<1> SUFFICES ASSUME NEW k \in DOMAIN Fns, Asked(k), Fns[k] = "5xx", req.resp = "nil"
             PROVE  FALSE
  BY DEF Panics
<1>1. Fns \in {<<>>, <<"err">>, <<"err", "5xx">>}
  BY DefaultFns DEF Fns, RetryOption
<1>2. k = 2 /\ Fns[1] = "err"
  BY <1>1
<1>3. ~Wants("err")
  BY <1>2 DEF Asked
<1> QED
  BY <1>3 DEF Wants, Judged

LEMMA PanicPreserved ==
  ASSUME ReqOK, Judged, NoPanicByDefault, Next
  PROVE  NoPanicByDefault'
<1>1. CASE Judge
  BY <1>1, DefaultsDoNotPanic DEF Judge, ReqOK, NoPanicByDefault
<1>2. CASE ~Judge
  <2>1. req'.call = req.call /\ (req'.at = "panic" => req.at = "panic")
    BY <1>2, ZenonT(40) DEF Next, Client, Dialling, Writer, Server, Others, Timeout, Do, DoFails, dupRequest, dupRequestFails,
                JSON, Reuse, Connect, Dial, Write, WriteEnds, ReadFails, WriteFails, Serve, Refuse,
                Redirect, Break, Ended, ReqOK
  <2> QED
    BY <2>1 DEF NoPanicByDefault
<1> QED
  BY <1>1, <1>2

\* Whatever comes back and however often a request is sent: with the options the
\* client chooses itself, no retry function looks into a response that is not there.
THEOREM DefaultsSafe == Spec => []NoPanicByDefault
<1>1. Init => Judged /\ NoPanicByDefault
  BY DEF Init, Judged, NoPanicByDefault
<1>2. ReqInv /\ Judged /\ NoPanicByDefault /\ [Next]_vars => (Judged /\ NoPanicByDefault)'
  <2>1. UNCHANGED vars /\ Judged /\ NoPanicByDefault => (Judged /\ NoPanicByDefault)'
    BY DEF vars, Judged, NoPanicByDefault
  <2> QED
    BY <2>1, JudgedPreserved, PanicPreserved DEF ReqInv
<1> QED
  BY <1>1, <1>2, BodyInvariant, PTL DEF Spec

=============================================================================
