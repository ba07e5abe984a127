---------------------------- MODULE NativeClient ----------------------------
(***************************************************************************)
(* A client of the native protocol (neo4r-client) and the servers that     *)
(* answer it.  The client calls one function after another; each of them   *)
(* writes a frame, waits for the frame that answers it, follows redirects  *)
(* and fetches the pages of a result.  A server that gets a write for a    *)
(* shard whose primary is another server sends the command on to it, in a  *)
(* connection of its own, and passes the answer back.                      *)
(*                                                                         *)
(* The servers' tables may disagree while a shard moves, either side may   *)
(* give up waiting, and what it waited for may still happen afterwards.    *)
(***************************************************************************)
EXTENDS WireCommands, SequencesExt

CONSTANTS
    NcServer,          \* the servers, numbers
    NcConf,            \* the clusters and the calls to try: see NcInit
    ResultPageSize,    \* rows on a page of a result
    RedirectMaxHops,   \* ClientConfig::redirect_max_hops
    MaxForwards        \* bound on how often a command is passed on

VARIABLES
    ncConf,     \* the cluster and the calls
    ncPrimary,  \* [NcServer -> NcServer]: the primary of the shard, as each server's table has it
    ncLink,     \* the client's connection: its number, its server, the frames that arrived on it
    ncCall,     \* the call in progress: its number, its stage, the id it waits for, its hops
    ncNext,     \* the id of the next request
    ncJobs,     \* the frames that servers work on
    ncCursors,  \* the results that servers still hold, with the connection that they belong to
    ncCache,    \* the client's topology cache
    ncRan,      \* the requests that were executed, in order
    ncAnswers,  \* what the calls returned, in order
    ncLeft      \* how often waiting may still be given up, and tables change

ncVars == <<ncConf, ncPrimary, ncLink, ncCall, ncNext, ncJobs, ncCursors, ncCache, ncRan, ncAnswers, ncLeft>>

NativeAddress(s) == <<"host", ":", ToString(s)>>
ServerAt(address) == CHOOSE s \in NcServer : NativeAddress(s) = address

ReplyFrame(id, type, text) == [id |-> id, type |-> type, text |-> text]

Script == ncConf.calls
Current == Script[ncCall.number]

-----------------------------------------------------------------------------
(* The client.                                                             *)

IdleCall(n) == [number |-> n, stage |-> "idle", id |-> 0, hop |-> 0, visited |-> <<>>, cursor |-> <<>>, rows |-> <<>>]

\* A new connection: what was on its way on the old one is lost.
ConnectTransport(s) == [number |-> ncLink.number + 1, at |-> s, frames |-> <<>>]

NewJob(link, type, text) ==
    [link |-> link.number, id |-> ncNext, type |-> type, text |-> text, path |-> <<link.at>>, live |-> TRUE,
     call |-> ncCall.number]

\* The ids of requests are not used up.
RequestOnceMutant(link, call, type, text) ==
    /\ ncJobs' = ncJobs \union {NewJob(link, type, text)}
    /\ ncNext' = ncNext
    /\ ncCall' = [call EXCEPT !.id = ncNext]

\* request_once: the frame goes out with a request id of its own.
RequestOnce(link, call, type, text) ==
    /\ ncJobs' = ncJobs \union {NewJob(link, type, text)}
    /\ ncNext' = ncNext + 1
    /\ ncCall' = [call EXCEPT !.id = ncNext]

Returned(good, val) ==
    /\ ncAnswers' = Append(ncAnswers, [call |-> ncCall.number, good |-> good, val |-> val])
    /\ ncCall' = IdleCall(ncCall.number + 1)

FrameTypeOf(op) == IF op = "query" THEN "Query" ELSE IF op = "ping" THEN "Ping" ELSE "Command"

StartCall ==
    /\ ncCall.stage = "idle" /\ ncCall.number <= Len(Script) /\ Current.op # "cached"
    /\ RequestOnce(ncLink, [ncCall EXCEPT !.stage = "asked"], FrameTypeOf(Current.op), Current.text)
    /\ UNCHANGED <<ncConf, ncPrimary, ncLink, ncCursors, ncCache, ncRan, ncAnswers, ncLeft>>

\* connect_to_cached_target moves the client to the server of its cache,
\* unless what the registry said has expired.
ConnectToCachedTarget ==
    /\ ncCall.stage = "idle" /\ ncCall.number <= Len(Script) /\ Current.op = "cached"
    /\ \E fresh \in IF ncCache.expires THEN BOOLEAN ELSE {TRUE} :
          ncLink' = IF fresh /\ ncCache.last # <<>> THEN ConnectTransport(ServerAt(ncCache.last)) ELSE ncLink
    /\ Returned(TRUE, <<>>)
    /\ UNCHANGED <<ncConf, ncPrimary, ncNext, ncJobs, ncCursors, ncCache, ncRan, ncLeft>>

\* The read timeout passed.  The connection stays, and the answer may come.
ReadTimesOut ==
    /\ ncCall.stage # "idle" /\ ncLink.frames = <<>> /\ ncLeft.waits > 0
    /\ ncLeft' = [ncLeft EXCEPT !.waits = @ - 1]
    /\ Returned(FALSE, <<"timeout">>)
    /\ UNCHANGED <<ncConf, ncPrimary, ncLink, ncNext, ncJobs, ncCursors, ncCache, ncRan>>

CacheFromRedirect(r) ==
    [version |-> r.version, last |-> r.address, expires |-> FALSE,
     addresses |-> IF \E i \in DOMAIN ncCache.addresses : ncCache.addresses[i] = r.address
                   THEN ncCache.addresses ELSE Append(ncCache.addresses, r.address)]

CacheFromRegistry(t) ==
    LET first == FirstRegistryAddress(t) IN
    [version |-> RegistryField(t, "routing_version", <<"0">>),
     last |-> IF first.good THEN first.val ELSE ncCache.last, expires |-> TRUE, addresses |-> RegistryAddresses(t)]

\* A redirect to follow: the client connects to the address and asks again,
\* unless it has been sent there before or has followed enough of them.  When
\* the server there does not answer, the old connection is still in use.
FollowRedirect(r, rest) ==
    IF r.retryable # "true" \/ r.address = <<"missing">> \/ ncCall.hop = RedirectMaxHops
        \/ \E i \in DOMAIN ncCall.visited : ncCall.visited[i] = r.address
    THEN /\ Returned(FALSE, <<"redirect">>)
         /\ ncLink' = rest
         /\ UNCHANGED <<ncJobs, ncNext, ncCache, ncLeft>>
    ELSE LET link == ConnectTransport(ServerAt(r.address)) IN
         /\ ncCache' = CacheFromRedirect(r)
         /\ \/ /\ ncLink' = link
               /\ RequestOnce(link, [ncCall EXCEPT !.hop = @ + 1, !.visited = Append(@, r.address)],
                              FrameTypeOf(Current.op), Current.text)
               /\ UNCHANGED <<ncAnswers, ncLeft>>
            \/ /\ ncLeft.waits > 0
               /\ ncLeft' = [ncLeft EXCEPT !.waits = @ - 1]
               /\ ncLink' = rest
               /\ Returned(FALSE, <<"timeout">>)
               /\ UNCHANGED <<ncJobs, ncNext>>

\* The rows of a page join the rows so far; the next page is fetched, or the
\* cursor closed.
TakePage(page) ==
    LET rows == ncCall.rows \o page.rows IN
    IF page.more = "true"
    THEN RequestOnce(ncLink, [ncCall EXCEPT !.stage = "fetch", !.cursor = page.cursor, !.rows = rows], "Fetch", page.cursor)
    ELSE RequestOnce(ncLink, [ncCall EXCEPT !.stage = "close", !.cursor = page.cursor, !.rows = rows],
                     "CloseCursor", page.cursor)

ReadPageAnswer(text) ==
    \E page \in {IF ncCall.stage = "asked" THEN ParseResultStartResponse(text) ELSE ParseResultPageResponse(text)} :
    IF page.good THEN TakePage(page.val) /\ UNCHANGED <<ncAnswers, ncCache>>
    ELSE Returned(FALSE, <<"protocol">>) /\ UNCHANGED <<ncJobs, ncNext, ncCache>>

ReadFieldAnswer(text) ==
    \E field \in {ResponseField(text, Current.kind)} :
    /\ Returned(field.good, IF field.good THEN field.val ELSE <<"protocol">>)
    /\ ncCache' = IF field.good /\ Current.op = "registry" THEN CacheFromRegistry(field.val) ELSE ncCache
    /\ UNCHANGED <<ncJobs, ncNext>>

\* A frame arrives.  A request id other than the one the call waits for is a
\* protocol error, and the frame is gone.
ReadClientAnswer ==
    /\ ncCall.stage # "idle" /\ ncLink.frames # <<>>
    /\ LET frame == Head(ncLink.frames)
           rest == [ncLink EXCEPT !.frames = Tail(@)]
           redirect == ParseRedirectResponse(frame.text)
           failed == frame.type = "Error" \/ StartsWith(frame.text, <<"ERR", "\t">>) IN
       \/ /\ frame.id # ncCall.id
          /\ Returned(FALSE, <<"mismatch">>)
          /\ ncLink' = rest
          /\ UNCHANGED <<ncJobs, ncNext, ncCache, ncLeft>>
       \/ /\ frame.id = ncCall.id /\ failed /\ redirect.good /\ ncCall.stage = "asked"
          /\ FollowRedirect(redirect.val, rest)
       \/ /\ frame.id = ncCall.id /\ failed /\ ncCall.stage # "close" /\ (~redirect.good \/ ncCall.stage = "fetch")
          /\ Returned(FALSE, <<"server">>)
          /\ ncLink' = rest
          /\ UNCHANGED <<ncJobs, ncNext, ncCache, ncLeft>>
       \/ /\ frame.id = ncCall.id /\ ~failed /\ ncCall.stage # "close"
          /\ ncLink' = rest /\ UNCHANGED ncLeft
          /\ CASE Current.op = "query" -> ReadPageAnswer(frame.text)
               [] Current.op \in {"field", "registry"} -> ReadFieldAnswer(frame.text)
               [] Current.op \in {"command", "ping"} ->
                     Returned(TRUE, frame.text) /\ UNCHANGED <<ncJobs, ncNext, ncCache>>
       \/ /\ frame.id = ncCall.id /\ ncCall.stage = "close"
          /\ Returned(TRUE, ncCall.rows)
          /\ ncLink' = rest
          /\ UNCHANGED <<ncJobs, ncNext, ncCache, ncLeft>>
    /\ UNCHANGED <<ncConf, ncPrimary, ncCursors, ncRan>>

-----------------------------------------------------------------------------
(* The servers.                                                            *)

Holder(job) == job.path[Len(job.path)]

\* A server that passed a command on passes the answer back: an answer as it
\* is, an error with its text escaped once more.
RelayAnswer(type, text) ==
    IF type = "Response" THEN text
    ELSE LET body == IF StartsWith(text, <<"ERR", "\t">>) THEN SubSeq(text, 3, Len(text)) ELSE text IN
         <<"ERR", "\t">> \o EscapePayload(body)

RECURSIVE Relayed(_, _, _)
Relayed(hops, type, text) == IF hops = 0 THEN text ELSE Relayed(hops - 1, type, RelayAnswer(type, text))

\* The answer reaches the client if the servers in between still wait for it
\* and the client is still on the connection.
Deliver(job, type, text) ==
    /\ ncJobs' = ncJobs \ {job}
    /\ ncLink' = IF job.live /\ job.link = ncLink.number
                 THEN [ncLink EXCEPT !.frames = Append(@, ReplyFrame(job.id, type, Relayed(Len(job.path) - 1, type, text)))]
                 ELSE ncLink

Executed(job, request) == ncRan' = Append(ncRan, [call |-> job.call, at |-> Holder(job), request |-> request])

\* The first page of a result; the rest stays with the server.
PageAt(rows, from) ==
    LET to == IF from + ResultPageSize - 1 < Len(rows) THEN from + ResultPageSize - 1 ELSE Len(rows) IN
    ResultPageOf(<<"1">>, IF to < Len(rows) THEN "true" ELSE "false", SubSeq(rows, from, to))

ServeQuery(job) ==
    /\ job.type = "Query"
    /\ \E query \in {ParseQueryPayload(job.text)} :
       LET rows == ncConf.rows IN
       IF query.good
       THEN /\ Deliver(job, "Response", FormatResultStart(<<ToString(Len(rows))>>, PageAt(rows, 1)))
            /\ Executed(job, WireRequest("QUERY", <<query.val>>))
            /\ ncCursors' = ncCursors \union {[link |-> job.link, at |-> ResultPageSize + 1]}
       ELSE /\ Deliver(job, "Error", <<"ERR", "\t", "bad query">>)
            /\ UNCHANGED <<ncRan, ncCursors>>
    /\ UNCHANGED <<ncConf, ncPrimary, ncCall, ncNext, ncCache, ncAnswers, ncLeft>>

\* Cursors belong to the session of the connection.
ServeFetch(job) ==
    /\ job.type = "Fetch"
    /\ LET own == {c \in ncCursors : c.link = job.link} IN
       IF own # {} /\ ParseFetchPayload(job.text).good
       THEN LET c == CHOOSE c \in own : TRUE IN
            /\ Deliver(job, "Response", FormatResultPage(PageAt(ncConf.rows, c.at)))
            /\ ncCursors' = (ncCursors \ {c}) \union {[c EXCEPT !.at = @ + ResultPageSize]}
       ELSE Deliver(job, "Error", <<"ERR", "\t", "unknown cursor">>) /\ UNCHANGED ncCursors
    /\ UNCHANGED <<ncConf, ncPrimary, ncCall, ncNext, ncCache, ncRan, ncAnswers, ncLeft>>

ServeSimple(job) ==
    /\ job.type \in {"CloseCursor", "Ping"}
    /\ IF job.type = "Ping" THEN Deliver(job, "Response", <<"OK", "\t", "PONG">>)
       ELSE Deliver(job, "Response", <<"OK", "\t", "CURSOR_CLOSED", "\t">> \o job.text)
    /\ ncCursors' = IF job.type = "Ping" THEN ncCursors ELSE {c \in ncCursors : c.link # job.link}
    /\ UNCHANGED <<ncConf, ncPrimary, ncCall, ncNext, ncCache, ncRan, ncAnswers, ncLeft>>

\* The kind of the response to a command that only reports.
ReportKind(cmd) == IF cmd = "CLUSTER_MANAGEMENT_STATUS" THEN "CLUSTER_MANAGEMENT" ELSE cmd

RegistryOf(s) ==
    FormatRegistry([server |-> <<ToString(s)>>, version |-> <<"1">>,
                    peers |-> [i \in 1..Cardinality(ncConf.peers[s]) |->
                        LET p == SetToSortSeq(ncConf.peers[s], <)[i] IN
                        [server |-> <<ToString(p)>>, address |-> NativeAddress(p)]],
                    nodes |-> <<[server |-> <<ToString(s)>>, state |-> "active", address |-> NativeAddress(s)]>>])

RedirectTo(s, kind, address) ==
    [kind |-> kind, shard |-> <<"0">>, leader |-> <<ToString(ncPrimary[s])>>, address |-> address, version |-> <<"1">>,
     retryable |-> "true"]

\* execute_backend_command on the server that holds the frame.
RunCommand(job, request) ==
    IF request.cmd \in Forwardable /\ Holder(job) \in ncConf.replaying
    THEN Deliver(job, "Response", ReplayingErrorResponse(RedirectTo(Holder(job), "REPLAYING", <<"missing">>))) /\ UNCHANGED ncRan
    ELSE /\ Deliver(job, "Response",
                    CASE request.cmd = "CLUSTER_REGISTRY" -> FormatResponse("CLUSTER_REGISTRY", RegistryOf(Holder(job)))
                      [] request.cmd \in ZeroArgCommands \ {"REBUILD_VECTOR_INDEXES"} ->
                            FormatResponse(ReportKind(request.cmd), ncConf.report)
                      [] OTHER -> <<"OK">>)
         /\ Executed(job, request)

\* forward_shard_write_if_needed: a write goes to the primary of its shard.
\* When the primary's address is not known the answer is a redirect without
\* one.
ServeCommand(job) ==
    /\ job.type = "Command"
    /\ \E read \in {ParseRequest(job.text)} :
       LET s == Holder(job)
           away == read.good /\ read.val.cmd \in Forwardable /\ ncPrimary[s] # s IN
       \/ /\ ~read.good
          /\ Deliver(job, "Error", <<"ERR", "\t", "bad request">>)
          /\ UNCHANGED ncRan
       \/ /\ read.good /\ ~away
          /\ RunCommand(job, read.val)
       \/ /\ away /\ ~ncConf.redirects /\ ncPrimary[s] \notin ncConf.peers[s]
          /\ Deliver(job, "Response", FormatRedirectResponse(RedirectTo(s, "MOVED", <<"missing">>)))
          /\ UNCHANGED ncRan
       \/ /\ away /\ ~ncConf.redirects /\ ncPrimary[s] \in ncConf.peers[s] /\ Len(job.path) <= MaxForwards
          /\ ncJobs' = (ncJobs \ {job}) \union
                {[job EXCEPT !.path = Append(@, ncPrimary[s]), !.text = FormatCommandRequestPayload(read.val)]}
          /\ UNCHANGED <<ncLink, ncRan>>
       \/ /\ away /\ ncConf.redirects
          /\ Deliver(job, "Error", FormatRedirectResponse(RedirectTo(s, "MOVED", NativeAddress(ncPrimary[s]))))
          /\ UNCHANGED ncRan
    /\ UNCHANGED <<ncConf, ncPrimary, ncCall, ncNext, ncCursors, ncCache, ncAnswers, ncLeft>>

\* A server gives up waiting for the server that it passed the command to.
\* The command goes on; nobody waits for its answer.
ForwardTimesOut(job) ==
    /\ Len(job.path) > 1 /\ job.live /\ ncLeft.waits > 0
    /\ ncJobs' = (ncJobs \ {job}) \union {[job EXCEPT !.live = FALSE]}
    /\ ncLink' = IF job.link = ncLink.number
                 THEN [ncLink EXCEPT !.frames = Append(@, ReplyFrame(job.id, "Error", <<"ERR", "\t", "timed out">>))] ELSE ncLink
    /\ ncLeft' = [ncLeft EXCEPT !.waits = @ - 1]
    /\ UNCHANGED <<ncConf, ncPrimary, ncCall, ncNext, ncCursors, ncCache, ncRan, ncAnswers>>

\* A new routing table reaches one of the servers.
InstallTable(s) ==
    /\ ncLeft.tables > 0
    /\ \E p \in NcServer \ {ncPrimary[s]} : ncPrimary' = [ncPrimary EXCEPT ![s] = p]
    /\ ncLeft' = [ncLeft EXCEPT !.tables = @ - 1]
    /\ UNCHANGED <<ncConf, ncLink, ncCall, ncNext, ncJobs, ncCursors, ncCache, ncRan, ncAnswers>>

-----------------------------------------------------------------------------
\* A configuration gives the calls, in order; the table and the query peers
\* of every server; the servers whose shard is replaying; whether servers
\* redirect instead of forwarding; the rows and the report that they answer
\* with; and how often waiting is given up and tables change.
NcInit ==
    /\ ncConf \in NcConf
    /\ ncPrimary = ncConf.primary
    /\ ncLink = [number |-> 1, at |-> ncConf.start, frames |-> <<>>]
    /\ ncCall = IdleCall(1)
    /\ ncNext = 1
    /\ ncJobs = {} /\ ncCursors = {}
    /\ ncCache = [version |-> <<"0">>, last |-> <<>>, expires |-> FALSE, addresses |-> <<>>]
    /\ ncRan = <<>> /\ ncAnswers = <<>>
    /\ ncLeft = [waits |-> ncConf.waits, tables |-> ncConf.tables]

Serve == \E job \in ncJobs : ServeQuery(job) \/ ServeFetch(job) \/ ServeSimple(job) \/ ServeCommand(job)

NcNext ==
    \/ StartCall \/ ConnectToCachedTarget \/ ReadTimesOut \/ ReadClientAnswer \/ Serve
    \/ \E job \in ncJobs : ForwardTimesOut(job)
    \/ \E s \in NcServer : InstallTable(s)

NcSpec == NcInit /\ [][NcNext]_ncVars

-----------------------------------------------------------------------------
(* Properties.                                                             *)

\* Each call runs at most once, on one server, and as it was asked: the
\* request that a server executes is the one the caller meant, after any
\* number of servers have read it and written it again.
ExecutedAsAsked ==
    /\ \A i \in DOMAIN ncRan : ncRan[i].request = Script[ncRan[i].call].request
    /\ \A i, j \in DOMAIN ncRan : i # j => ncRan[i].call # ncRan[j].call

\* What the server that ran a call answered.
MeantAnswer(a) ==
    LET call == Script[a.call] IN
    CASE call.op = "query" -> ncConf.rows
      [] call.op = "field" -> ncConf.report
      [] OTHER -> a.val

\* A call that succeeds has been executed, and returns what was answered to
\* this call and not to an earlier one: all rows of its result, in order, and
\* the text of its report.
AnswersAreOwn ==
    \A i \in DOMAIN ncAnswers :
        LET a == ncAnswers[i] IN
        a.good => /\ a.val = MeantAnswer(a)
                  /\ Script[a.call].op \in {"cached", "ping"} \/ \E j \in DOMAIN ncRan : ncRan[j].call = a.call

\* The client can read whatever a server answers: rows with any values, any
\* page, any report.
AnswersAreReadable ==
    \A i \in DOMAIN ncAnswers : ~ncAnswers[i].good => ncAnswers[i].val # <<"protocol">>

\* What a call returns is the answer to this very call, whatever timed out
\* before it on the connection, and whatever values the answer holds the
\* client's reader takes it apart where the server's writer joined it.
AnswersHold == AnswersAreOwn /\ AnswersAreReadable

\* The client understands that a shard is replaying, a redirect that it may
\* retry later, and does not take it for an ordinary error.
ReplayingIsUnderstood ==
    ncConf.replaying = NcServer => \A i \in DOMAIN ncAnswers : ~ncAnswers[i].good => ncAnswers[i].val # <<"server">>

=============================================================================
