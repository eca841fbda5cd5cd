-------------------------------- MODULE WebServer --------------------------------
(***************************************************************************)
(* The serial web server of network_simul_packet_loss: HttpServer runs the *)
(* applications, opens a listening socket and serves one client after      *)
(* another, and stop(), called once by some other thread at any moment,    *)
(* closes the listening socket.  Descriptors are numbers that the kernel   *)
(* gives out again, the lowest first.  A client sends its request in       *)
(* segments: what a recv() returns.  A segment is a sequence of lines, the *)
(* first of which is "request", the last one of the header "end"; "piece"  *)
(* is a part of a line that was cut; "body" follows a header that          *)
(* announces it.  The contents of responses, the log and its errors are    *)
(* left out.                                                               *)
(***************************************************************************)
EXTENDS PthreadMain

CONSTANTS MostClients,    \* bound: the clients that come
          MostAddresses,  \* bound: what getaddrinfo() finds
          Requests        \* [asks, keepAlive, announces, segments, hangsUp]

Programs == {"webserver"}
Descriptors == 3..5
Nobody == [asks |-> "nothing", keepAlive |-> FALSE, announces |-> FALSE,
           segments |-> <<>>, hangsUp |-> FALSE]

(* socket: connectionRequestSocket; file: the client's, or -1; owner: whose *)
(* each descriptor is; input: the stream of the client's Socket; parsed:    *)
(* whether the request is the one that was sent.                            *)
Init ==
  /\ program \in Programs
  /\ \E clients \in 0..MostClients :
       Starts([socket |-> -1, checked |-> -1, addresses |-> 0,
               owner |-> [f \in Descriptors |-> "free"],
               clients |-> clients, client |-> 0, request |-> Nobody, file |-> -1,
               input |-> <<>>, parsed |-> TRUE, handled |-> FALSE, cut |-> FALSE,
               servedAtStop |-> -1])

(* The next step of main, with the fields of the server that change.       *)
Does(from, to, fields) ==
  /\ MainGoes(from, to) /\ UNCHANGED at
  /\ shared' = [name \in DOMAIN shared |->
                  IF name \in DOMAIN fields THEN fields[name] ELSE shared[name]]
Quietly == UNCHANGED output

Lowest == Min({f \in Descriptors : shared.owner[f] = "free"})
Owning(f, who) == [shared.owner EXCEPT ![f] = who]
Listening == shared.socket >= 0 /\ shared.owner[shared.socket] = "listener"
Bound == Listening /\ main.at \notin {"open", "bind"}

(* close(f): a number that is nobody's makes it fail, which is ignored.    *)
Closed(f) == IF f >= 0 THEN Owning(f, "free") ELSE shared.owner

-----------------------------------------------------------------------------
(* HttpServer::run: an exception on the way ends in the catch, at "stop".  *)
Throws(from) == Does(from, "stop", [handled |-> FALSE]) /\ Quietly

(* The applications are neither started nor stopped if the usage was asked *)
(* for; what they do then is nothing.                                      *)
startApps == Passes("start", "fetch") \/ Passes("start", "free")

fetchAvailableAddresses ==
  \/ Throws("fetch")
  \/ \E n \in 1..MostAddresses : Does("fetch", "open", [addresses |-> n]) /\ Quietly

(* The number of a socket that could not be bound is kept after close().   *)
openConnectionRequestSocket ==
  \/ shared.addresses = 0 /\ Throws("open")
  \/ /\ shared.addresses > 0 /\ Quietly
     /\ \/ Does("open", "bind", [socket |-> Lowest, owner |-> Owning(Lowest, "listener")])
        \/ Does("open", "open", [socket |-> -1, addresses |-> shared.addresses - 1])
  \/ Throws("bind")            \* setsockopt fails
  \/ Quietly /\ Does("bind", "open", [owner |-> Closed(shared.socket),
                                      addresses |-> shared.addresses - 1])
  \/ Listening /\ Passes("bind", "listen")

listenForConnections ==
  \/ fetchAvailableAddresses \/ openConnectionRequestSocket
  \/ Throws("listen")
  \/ Listening /\ Passes("listen", "accept")

(* accept() works with the socket its number meant when it was called,     *)
(* also if the number is closed in the meantime.                           *)
acceptConnectionRequest ==
  \/ Throws("accept")
  \/ Listening /\ Passes("accept", "accepting")
  \/ /\ shared.client < shared.clients /\ Quietly
     /\ \E request \in Requests :
          Does("accepting", "request",
               [client |-> shared.client + 1, request |-> request, input |-> <<>>,
                parsed |-> TRUE, handled |-> FALSE, cut |-> FALSE,
                file |-> Lowest, owner |-> Owning(Lowest, "client")])

-----------------------------------------------------------------------------
(* Socket::receive, when the stream has no more characters: the next       *)
(* segment, if there is one.  There is nothing to be received, and no end  *)
(* of it, from a client that waits for its response.                       *)
Segments == shared.request.segments
receive(at_) ==
  /\ shared.input = <<>> /\ Segments # <<>> /\ Quietly
  /\ Does(at_, at_, [input |-> Head(Segments),
                     request |-> [shared.request EXCEPT !.segments = Tail(@)]])
HungUp == Segments = <<>> /\ shared.request.hangsUp

(* A request that is not valid is dropped and the connection closed.       *)
Drops(from) == Passes(from, "destroy")

(* Socket::readLine.  What is in the stream when it ends is a line, whole  *)
(* or not.                                                                 *)
readLine(from, lines, to, whole) ==
  /\ shared.input # <<>> /\ Head(shared.input) \in lines /\ Quietly
  /\ Does(from, to, [input |-> Tail(shared.input), parsed |-> shared.parsed /\ whole])

parseRequestLine ==
  \/ receive("request")
  \/ HungUp /\ shared.input = <<>> /\ Drops("request")
  \/ readLine("request", {"request"}, "header", TRUE)
  \/ readLine("request", {"piece"}, "header", FALSE)
  \/ readLine("request", {"piece"}, "destroy", FALSE)

parseHeader ==
  \/ receive("header")
  \/ HungUp /\ shared.input = <<>> /\ Drops("header")
  \/ readLine("header", {"header"}, "header", TRUE)
  \/ readLine("header", {"end"}, "body", TRUE)
  \/ readLine("header", {"piece"}, "header", FALSE)
  \/ readLine("header", {"piece"}, "destroy", FALSE)

(* The body is read from the connection, and not from the stream.          *)
parseBody ==
  \/ ~shared.request.announces /\ Passes("body", "respond")
  \/ shared.request.announces /\ HungUp /\ Drops("body")
  \/ /\ shared.request.announces /\ Segments # <<>> /\ Quietly
     /\ Does("body", "respond", [request |-> [shared.request EXCEPT !.segments = Tail(@)]])

-----------------------------------------------------------------------------
(* The application serves the homepage and factorizations.  A response     *)
(* that cannot be sent makes it seem that it did not handle the request,   *)
(* and the response of serveNotFound is sent after what is still unsent.   *)
(* It may also end the process, which does not ignore SIGPIPE.             *)
Sends(from, what) ==
  Does(from, "close", [handled |-> TRUE]) /\ Report(shared.client, what)
Dies(from) ==
  /\ MainFails(from, "ended") /\ UNCHANGED <<at, output>>
  /\ Field("owner", [f \in Descriptors |-> "free"])
CannotSend(from, to) ==
  \/ Does(from, to, [cut |-> TRUE]) /\ Quietly
  \/ Dies(from)

(* The number of a factorization may be too large for int64_t: stoll()     *)
(* throws what run() does not catch, and the process ends.                 *)
FactWebApp ==
  /\ shared.request.asks \in {"home", "fact"}
  /\ \/ Sends("respond", <<shared.request.asks>>)
     \/ CannotSend("respond", "not found")
     \/ shared.request.asks = "fact" /\ Dies("respond")

serveNotFound ==
  \/ /\ shared.request.asks = "other"
     /\ (Sends("respond", <<"not found">>) \/ CannotSend("respond", "close"))
  \/ Sends("not found", <<shared.request.asks, "not found">>)
  \/ CannotSend("not found", "close")

(* SharedSocket::close, by handleClientConnection or when the last copy of *)
(* the client's Socket ends.                                               *)
CloseConnection ==
  \/ /\ shared.handled /\ shared.request.keepAlive /\ Passes("close", "destroy")
  \/ /\ ~shared.handled \/ ~shared.request.keepAlive
     /\ Does("close", "destroy", [owner |-> Closed(shared.file), file |-> -1]) /\ Quietly
  \/ /\ Quietly
     /\ Does("destroy", "accept", [owner |-> Closed(shared.file), file |-> -1])

handleClientConnection ==
  parseRequestLine \/ parseHeader \/ parseBody \/ FactWebApp \/ serveNotFound
    \/ CloseConnection

-----------------------------------------------------------------------------
stopApps == Passes("stop", "free")

(* The destructor closes the number again that stop() has closed.          *)
Destructor == Does("free", "ended", [owner |-> Closed(shared.socket)]) /\ Quietly

MainStep ==
  startApps \/ listenForConnections \/ acceptConnectionRequest
    \/ handleClientConnection \/ stopApps \/ Destructor

(* stop() in its thread: stopListening looks at the number and closes it.  *)
ThreadStep(t) ==
  \/ Goes(t, "unborn", "stopping") /\ Field("checked", shared.socket) /\ Quietly
  \/ /\ Goes(t, "stopping", "done") /\ Quietly
     /\ shared' = [shared EXCEPT !.owner = Closed(shared.checked),
                                 !.servedAtStop = IF Bound /\ shared.checked = shared.socket
                                                  THEN shared.client ELSE @]

Next == Step(MainStep) \/ \E t \in Threads : Step(ThreadStep(t))
Spec == Init /\ [][Next]_vars /\ WF_vars(Step(MainStep))

-----------------------------------------------------------------------------
TypeOK ==
  /\ program \in Programs
  /\ main.at \in {"start", "fetch", "open", "bind", "listen", "accept", "accepting",
                  "request", "header", "body", "respond", "not found", "close",
                  "destroy", "stop", "free", "ended"}
  /\ shared.owner \in [Descriptors -> {"free", "listener", "client"}]
  /\ shared.socket \in {-1} \cup Descriptors /\ shared.file \in {-1} \cup Descriptors
  /\ shared.client \in 0..MostClients /\ shared.addresses \in 0..MostAddresses

(* Clients are answered one after another and once at most, and with what  *)
(* they asked for first, if their lines arrived whole; the server goes on  *)
(* from such a client without an answer only if it could not be sent, or   *)
(* if the client hung up before its body.                                  *)
Answered(c) == \E i \in DOMAIN output : output[i].by = c
ResponsesInOrder ==
  /\ \A i \in DOMAIN output : \A j \in 1..i - 1 : output[j].by < output[i].by
  /\ main.at \in {"close", "destroy"} /\ shared.parsed
       /\ ~(Segments = <<>> /\ shared.request.hangsUp) =>
       Answered(shared.client) \/ shared.cut
  /\ \A i \in DOMAIN output :
       output[i].by = shared.client =>
         /\ Head(output[i].says) \in {shared.request.asks, "not found"}
         /\ Head(output[i].says) = "not found" => shared.request.asks = "other"
         /\ Len(output[i].says) > 1 => shared.cut

(* Nobody's descriptor is closed by another: that of a client is its own   *)
(* until its Socket closes it, and at the end nobody has one.              *)
DescriptorsOwned ==
  /\ shared.file >= 0 /\ main.at # "ended" => shared.owner[shared.file] = "client"
  /\ \A f \in Descriptors : shared.owner[f] = "client" => f = shared.file
  /\ main.at \in {"accept", "accepting", "stop", "free"} => shared.file = -1
  /\ main.at = "ended" => \A f \in Descriptors : shared.owner[f] = "free"

(* When stop() has closed the listening socket, one more client at most is *)
(* served: the one that accept() was waiting for.  A stop() that comes     *)
(* before the socket is bound is lost: the server tries the next address.  *)
StopEndsService ==
  shared.servedAtStop >= 0 => shared.client <= shared.servedAtStop + 1

(* The server waits for ever for a client that does not come, or for the   *)
(* rest of a request that has come, or never will.                         *)
ServerWaits ==
  \/ program \in Programs /\ main.at = "accepting" /\ shared.client = shared.clients
  \/ /\ program \in Programs /\ main.at \in {"request", "header", "body"} /\ Segments = <<>>
     /\ ~shared.request.hangsUp
=============================================================================
