----------------------------- MODULE HTTPExchange -----------------------------
(***************************************************************************)
(* One request of 05_http_ssl_tls/http_client.cpp, answered by a Service   *)
(* of 05_http_ssl_tls/http_server.cpp over one connection.                 *)
(*                                                                         *)
(* HTTPClient and AsyncServer model the threads, the cancellation and the  *)
(* acceptor; this module models what they leave out, the bytes.  A message *)
(* is a sequence of tokens: the line terminators, which both sides search  *)
(* for, are tokens of their own.  TCP hands the tokens over in pieces of   *)
(* any size, each side buffers what it has read beyond the delimiter it    *)
(* waited for, and each direction of the connection can be closed, or the  *)
(* connection be reset.                                                    *)
(***************************************************************************)
EXTENDS Integers, Sequences, SequencesExt, FiniteSetsExt

CONSTANTS
  Resources,   \* what the request may ask for, among AllResources
  BodySize     \* bound: how many tokens a file has

(* A file, an empty file, a file of 100000 bytes or more, a file that does *)
(* not exist, one that cannot be opened, and a name with a space in it,    *)
(* which makes a request line whose third word is not HTTP/1.1.            *)
AllResources == {"file", "empty", "big", "missing", "unreadable", "spaced"}

ASSUME ResourcesAssumption == Resources \subseteq AllResources
ASSUME BodySizeAssumption == BodySize \in Nat \ {0}

VARIABLES
  resource,      \* what the request asks for
  client,        \* the operation the HTTPRequest has outstanding
  out,           \* the part of m_request_buf that is not written yet
  m_response,    \* HTTPResponse: m_response_buf, status code and headers
  told,          \* what the callback was told
  server,        \* the operation the Service has outstanding
  m_request,     \* Service::m_request
  response,      \* the part of the response buffers that is not written yet
  upstream,      \* tokens the kernels hold for the server
  downstream,    \* tokens the kernels hold for the client
  ended,         \* the sides that have sent the end of their stream
  reset,         \* the connection was reset
  stopped,       \* the server was stopped and destroyed
  failure        \* the side that died of an exception nobody caught

clientVars == <<client, out, m_response, told>>
serverVars == <<server, m_request, response>>
connection == <<upstream, downstream, ended, reset>>
vars == <<resource, clientVars, serverVars, connection, stopped, failure>>

CRLF      == <<"CR", "LF">>
EmptyLine == CRLF \o CRLF
Request   == <<"GET">> \o CRLF \o <<"HOST">> \o EmptyLine

Content == IF resource \in {"file", "big"} THEN [i \in 1..BodySize |-> "byte"] ELSE <<>>

(* What process_request leaves in m_response_status_code: it answers 500   *)
(* to a length of more than five digits, and sends the file all the same.  *)
StatusCode ==
  CASE resource \in {"file", "empty"}      -> "200"
    [] resource = "missing"                -> "404"
    [] resource \in {"big", "unreadable"}  -> "500"
    [] resource = "spaced"                 -> "505"

(* m_response_headers, with the empty line; its initial value is one. *)
Headers ==
  IF resource \in {"file", "empty", "big"} THEN <<"LENGTH">> \o EmptyLine ELSE EmptyLine

Response == <<StatusCode>> \o CRLF \o Headers \o Content

Tokens == {"GET", "HOST", "LENGTH", "CR", "LF", "byte", "200", "404", "500", "505"}

TypeOK ==
  /\ resource \in Resources
  /\ client \in {"write", "status", "headers", "body", "done", "closed"}
  /\ out \in Seq(Tokens)
  /\ m_response \in [buf : Seq(Tokens), code : {"200", "404", "500", "505"},
                     headers : SUBSET {"LENGTH"}]
  /\ told \in {"none", "ok", "error", "aborted"}
  /\ server \in {"line", "headers", "write", "closed"}
  /\ m_request \in Seq(Tokens)
  /\ response \in Seq(Tokens)
  /\ upstream \in Seq(Tokens)
  /\ downstream \in Seq(Tokens)
  /\ ended \subseteq {"client", "server"}
  /\ reset \in BOOLEAN
  /\ stopped \in BOOLEAN
  /\ failure \in {"none", "client", "server"}

(* The connection is established, the write of the request and the read of *)
(* the request line are outstanding. *)
Init ==
  /\ resource \in Resources
  /\ client = "write"
  /\ out = Request
  /\ m_response = [buf |-> <<>>, code |-> "404", headers |-> {}]
  /\ told = "none"
  /\ server = "line"
  /\ m_request = <<>>
  /\ response = <<>>
  /\ upstream = <<>>
  /\ downstream = <<>>
  /\ ended = {}
  /\ reset = FALSE
  /\ stopped = FALSE
  /\ failure = "none"

-------------------------------------------------------------------------------
(* read_until and the parsing of what it found.                            *)

Occurs(delim, s) ==
  \E i \in 1..Len(s) : IsPrefix(delim, SubSeq(s, i, Len(s)))

After(s, i) == SubSeq(s, i + 1, Len(s))

(* getline up to the '\r', and get() for the '\n'. *)
DropLine(s) == After(s, Min({i \in DOMAIN s : s[i] = "CR"}) + 1)

(* The loop of the client's on_headers_received: it takes lines up to an   *)
(* empty one, and of that only the '\r'. *)
DropHeaders(s) ==
  After(s, Min({i \in DOMAIN s : s[i] = "CR" /\ (i = 1 \/ s[i - 1] = "LF")}))

-------------------------------------------------------------------------------
(* The connection.                                                         *)

(* A reset discards what the server is to receive; what the client has not *)
(* received yet may be lost or not. *)
Reset ==
  /\ reset' = TRUE
  /\ upstream' = <<>>
  /\ \E n \in 0..Len(downstream) : downstream' = SubSeq(downstream, 1, n)
  /\ UNCHANGED ended

(* A socket that is closed with data unread resets the connection. *)
CloseSocket(side, unread) ==
  IF unread = <<>>
  THEN ended' = ended \cup {side} /\ UNCHANGED <<upstream, downstream, reset>>
  ELSE Reset

(* So does data for a socket that is closed. *)
Refuse ==
  /\ \/ server = "closed" /\ upstream # <<>>
     \/ client = "closed" /\ downstream # <<>>
  /\ Reset
  /\ UNCHANGED <<resource, clientVars, serverVars, stopped, failure>>

-------------------------------------------------------------------------------
(* HTTPRequest.                                                            *)

ClientRuns == failure # "client"

WriteRequest ==
  /\ ClientRuns
  /\ client = "write" /\ ~ reset
  /\ \E n \in 1..Len(out) :
       /\ upstream' = upstream \o SubSeq(out, 1, n)
       /\ out' = After(out, n)
  /\ UNCHANGED <<resource, client, m_response, told, serverVars, downstream, ended, reset,
                 stopped, failure>>

Finish(ec) ==
  /\ told' = ec
  /\ client' = "done"

WriteRequestFails ==
  /\ ClientRuns
  /\ client = "write" /\ out # <<>> /\ reset
  /\ Finish("error")
  /\ UNCHANGED <<resource, out, m_response, serverVars, connection, stopped, failure>>

(* on_request_sent: the shutdown throws if the connection was reset. *)
OnRequestSent ==
  /\ ClientRuns
  /\ client = "write" /\ out = <<>>
  /\ IF reset
     THEN failure' = "client" /\ UNCHANGED <<client, ended>>
     ELSE client' = "status" /\ ended' = ended \cup {"client"} /\ UNCHANGED failure
  /\ UNCHANGED <<resource, out, m_response, told, serverVars, upstream, downstream, reset,
                 stopped>>

(* What the outstanding read waits for; async_read waits for the end. *)
Awaited == CASE client = "status" -> CRLF [] client = "headers" -> EmptyLine

ClientReads ==
  /\ ClientRuns
  /\ client \in {"status", "headers", "body"}
  /\ client # "body" => ~ Occurs(Awaited, m_response.buf)

ClientReceives ==
  /\ ClientReads
  /\ \E n \in 1..Len(downstream) :
       /\ m_response' = [m_response EXCEPT !.buf = @ \o SubSeq(downstream, 1, n)]
       /\ downstream' = After(downstream, n)
  /\ UNCHANGED <<resource, client, out, told, serverVars, upstream, ended, reset, stopped,
                 failure>>

(* Mutant: the buffer does not outlive the read, as in the synchronous     *)
(* clients, whose streambuf is local to receiveResponse. *)
OnStatusLineReceivedAlone ==
  /\ ClientRuns
  /\ client = "status" /\ Occurs(CRLF, m_response.buf)
  /\ client' = "headers"
  /\ m_response' = [m_response EXCEPT !.code = Head(m_response.buf), !.buf = <<>>]
  /\ UNCHANGED <<resource, out, told, serverVars, connection, stopped, failure>>

OnStatusLineReceived ==
  /\ ClientRuns
  /\ client = "status" /\ Occurs(CRLF, m_response.buf)
  /\ client' = "headers"
  /\ m_response' = [m_response EXCEPT !.code = Head(m_response.buf), !.buf = DropLine(@)]
  /\ UNCHANGED <<resource, out, told, serverVars, connection, stopped, failure>>

(* Mutant: the loop takes the empty line for a header. *)
OnHeadersReceivedUnchecked ==
  /\ ClientRuns
  /\ client = "headers" /\ Occurs(EmptyLine, m_response.buf)
  /\ client' = "body"
  /\ m_response' = [m_response EXCEPT
                      !.headers = {Head(m_response.buf)}, !.buf = DropHeaders(@)]
  /\ UNCHANGED <<resource, out, told, serverVars, connection, stopped, failure>>

(* The header that process_request writes is stored; an empty line is none. *)
OnHeadersReceived ==
  /\ ClientRuns
  /\ client = "headers" /\ Occurs(EmptyLine, m_response.buf)
  /\ client' = "body"
  /\ m_response' = [m_response EXCEPT
                      !.headers = IF Head(m_response.buf) = "LENGTH" THEN {"LENGTH"} ELSE {},
                      !.buf = DropHeaders(@)]
  /\ UNCHANGED <<resource, out, told, serverVars, connection, stopped, failure>>

(* The end of the stream is what the body ends with; before, and after a   *)
(* reset, it is an error. *)
ClientReadEnds ==
  /\ ClientReads
  /\ downstream = <<>> /\ ("server" \in ended \/ reset)
  /\ Finish(IF client = "body" /\ ~ reset THEN "ok" ELSE "error")
  /\ UNCHANGED <<resource, out, m_response, serverVars, connection, stopped, failure>>

(* The user cancels the request: whatever it was doing, its callback is    *)
(* told operation_aborted.  HTTPClient has the details. *)
Cancelled ==
  /\ ClientRuns
  /\ told = "none"
  /\ Finish("aborted")
  /\ UNCHANGED <<resource, out, m_response, serverVars, connection, stopped, failure>>

(* The HTTPRequest is destroyed, with its socket. *)
DestroyRequest ==
  /\ ClientRuns
  /\ client = "done"
  /\ client' = "closed"
  /\ CloseSocket("client", downstream)
  /\ UNCHANGED <<resource, out, m_response, told, serverVars, stopped, failure>>

-------------------------------------------------------------------------------
(* Service.                                                                *)

ServerRuns == ~ stopped /\ failure # "server"

Expected == CASE server = "line" -> CRLF [] server = "headers" -> EmptyLine

ServerReads ==
  /\ ServerRuns
  /\ server \in {"line", "headers"}
  /\ ~ Occurs(Expected, m_request)

ServerReceives ==
  /\ ServerReads
  /\ \E n \in 1..Len(upstream) :
       /\ m_request' = m_request \o SubSeq(upstream, 1, n)
       /\ upstream' = After(upstream, n)
  /\ UNCHANGED <<resource, clientVars, server, response, downstream, ended, reset, stopped,
                 failure>>

(* The stream ended or broke before the delimiter.  The handler prints the *)
(* error, and the Service is destroyed. *)
ServerReadEnds ==
  /\ ServerReads
  /\ upstream = <<>> /\ ("client" \in ended \/ reset)
  /\ server' = "closed"
  /\ CloseSocket("server", <<>>)
  /\ UNCHANGED <<resource, clientVars, m_request, response, stopped, failure>>

(* send_response: the shutdown throws if the connection was reset. *)
SendResponse ==
  IF reset
  THEN failure' = "server" /\ UNCHANGED <<server, response>>
  ELSE server' = "write" /\ response' = Response /\ UNCHANGED failure

(* on_request_received: the answer to a bad request line is sent at once,  *)
(* whatever has arrived of the headers. *)
OnRequestReceived ==
  /\ ServerRuns
  /\ server = "line" /\ Occurs(CRLF, m_request)
  /\ m_request' = DropLine(m_request)
  /\ IF resource = "spaced"
     THEN SendResponse
     ELSE server' = "headers" /\ UNCHANGED <<response, failure>>
  /\ UNCHANGED <<resource, clientVars, connection, stopped>>

(* on_headers_received, with process_request and send_response; the loop   *)
(* that stores the headers reads the buffer to its end. *)
OnRequestHeadersReceived ==
  /\ ServerRuns
  /\ server = "headers" /\ Occurs(EmptyLine, m_request)
  /\ m_request' = <<>>
  /\ SendResponse
  /\ UNCHANGED <<resource, clientVars, connection, stopped>>

(* Mutant: the write is given up after a first part, as by                 *)
(* async_write_some. *)
WriteResponseSome ==
  /\ ServerRuns
  /\ server = "write" /\ ~ reset
  /\ \E n \in 1..Len(response) : downstream' = downstream \o SubSeq(response, 1, n)
  /\ response' = <<>>
  /\ UNCHANGED <<resource, clientVars, server, m_request, upstream, ended, reset, stopped,
                 failure>>

WriteResponse ==
  /\ ServerRuns
  /\ server = "write" /\ ~ reset
  /\ \E n \in 1..Len(response) :
       /\ downstream' = downstream \o SubSeq(response, 1, n)
       /\ response' = After(response, n)
  /\ UNCHANGED <<resource, clientVars, server, m_request, upstream, ended, reset, stopped,
                 failure>>

(* Mutant: the Service is not destroyed. *)
OnResponseSentKeepsSocket ==
  /\ ServerRuns
  /\ server = "write" /\ (response = <<>> \/ reset)
  /\ server' = "closed"
  /\ UNCHANGED <<resource, clientVars, m_request, response, connection, stopped, failure>>

(* The last handler, with and without an error; the Service is destroyed.  *)
OnResponseSent ==
  /\ ServerRuns
  /\ server = "write" /\ (response = <<>> \/ reset)
  /\ server' = "closed"
  /\ CloseSocket("server", upstream)
  /\ UNCHANGED <<resource, clientVars, m_request, response, stopped, failure>>

(* Server::stop and the end of the server: no further handler runs, and    *)
(* the io_context destroys the Service and its socket. *)
StopServer ==
  /\ ServerRuns
  /\ stopped' = TRUE
  /\ IF server = "closed"
     THEN UNCHANGED <<server, connection>>
     ELSE server' = "closed" /\ CloseSocket("server", upstream)
  /\ UNCHANGED <<resource, clientVars, m_request, response, failure>>

-------------------------------------------------------------------------------
ClientStep ==
  \/ WriteRequest
  \/ WriteRequestFails
  \/ OnRequestSent
  \/ ClientReceives
  \/ OnStatusLineReceived
  \/ OnHeadersReceived
  \/ ClientReadEnds

ServerStep ==
  \/ ServerReceives
  \/ ServerReadEnds
  \/ OnRequestReceived
  \/ OnRequestHeadersReceived
  \/ WriteResponse
  \/ OnResponseSent

Over == (client = "closed" \/ failure # "none") /\ UNCHANGED vars

Next ==
  \/ ClientStep \/ Cancelled \/ DestroyRequest
  \/ ServerStep \/ StopServer
  \/ Refuse
  \/ Over

Spec == Init /\ [][Next]_vars

(* Both programs run, and the network delivers what it accepted. *)
LiveSpec == Spec /\ WF_vars(ClientStep) /\ WF_vars(ServerStep) /\ WF_vars(Refuse)

-------------------------------------------------------------------------------
(* Properties.                                                             *)

(* However the network cuts the messages, a request that succeeds has the  *)
(* server's status code and headers, and the whole file: read_until leaves *)
(* what it read too much where the next read finds it.  The status does    *)
(* not tell whether there is a file (process_request), and a server that   *)
(* is stopped in the middle of a file ends the stream as after the file.   *)
ResponseIsDelivered ==
  told = "ok" /\ ~ stopped =>
    /\ m_response.code = StatusCode
    /\ m_response.headers = {"LENGTH"} \cap Range(Headers)
    /\ IsSuffix(Content, m_response.buf)

(* "Remove '\n' symbol from the stream": the callback finds the file, and  *)
(* nothing but the file, in the response.                                  *)
BodyIsTheFile ==
  told = "ok" /\ ~ stopped /\ resource = "file" => m_response.buf = Content

(* A request fails, or the shutdown in on_request_sent throws, only if the *)
(* server was stopped or refused the request line; the shutdown in         *)
(* send_response never throws.  Neither half-closed stream is taken for a  *)
(* broken one, and no side closes while the other still needs it.          *)
ErrorsHaveACause ==
  /\ told = "error" \/ failure = "client" => stopped \/ resource = "spaced"
  /\ failure # "server"

(* The exchange ends although neither side has a timeout: each is told     *)
(* when the other is done, by the end of its stream. *)
ExchangeEnds == <>(told # "none" \/ failure # "none")
===============================================================================
