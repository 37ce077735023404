----------------------------- MODULE ServerFront -----------------------------
(***************************************************************************)
(* The server's front (rvpn-server/main.rs and decoy.rs): one connection   *)
(* from the accept loop through TLS, the pre-read of the request head, the *)
(* decoy site or the WebSocket upgrade, to the handler of its path; or, on *)
(* the HTTP port, to the redirect.  The client sends requests back to      *)
(* back; they arrive in pieces.                                            *)
(*                                                                         *)
(* The stream is represented by positions: how much of it has arrived and  *)
(* how much of that is consumed.  A request is the class of its head       *)
(* (a well-formed upgrade, a method, or malformed) with its size.          *)
(***************************************************************************)
EXTENDS Naturals, SequencesExt, FiniteSetsExt

CONSTANTS
    MaxHeader,   \* MAX_HEADER_SIZE of the decoy
    HttpBuffer,  \* the read buffer of the HTTP port
    Requests,    \* bound: the requests a client may send
    MaxRequests, \* bound: how many of them
    Base,        \* websocket_path, as its segments
    Site         \* the decoy's files: path -> "file", "dir", "index", "link"

VARIABLES
    server,     \* "up", or "down" when the accept loop has failed
    port,       \* the listener: "main" or "http"
    tls,        \* the acceptor of configure_tls: "none", "static", "acme"
    decoy,      \* whether a decoy site is configured
    stream,     \* the requests the client sends
    closing,    \* whether the client closes after the last one
    phase,      \* "accept", "tls", "head", "serve", "answer" while one is written,
                \* "http", "upgrade", a handler, "closed"
    arrived,    \* bytes that have arrived
    consumed,   \* bytes of answered requests
    replayed,   \* bytes handed on to the WebSocket library
    answers     \* status and "Connection: close" of the answers, in order

vars == <<server, port, tls, decoy, stream, closing, phase, arrived, consumed, replayed, answers>>
conn == <<server, port, tls, decoy, stream, closing>>

EndOf(i) == FoldLeft(LAMBDA n, r : n + r.size, 0, SubSeq(stream, 1, Min({i, Len(stream)})))
Total == EndOf(Len(stream))
-----------------------------------------------------------------------------
(* The request that starts at the consumed position, if its head is here.  *)

Current == CHOOSE i \in 1..(Len(stream) + 1) : consumed = EndOf(i - 1)

\* parse_request_head, on the buffered bytes.
ParseRequestHead ==
    IF /\ Current <= Len(stream) /\ arrived >= EndOf(Current)
       /\ stream[Current].kind # "bad"
    THEN {stream[Current]} ELSE {}

Full(max) == arrived - consumed >= max

\* TLS of the configuration: ACME, certificate files, or neither.
ConfigureTls(acme, cert, loads) ==
    CASE acme /\ cert -> "refuse"
      [] acme /\ ~cert -> "acme"
      [] ~acme /\ cert -> IF loads THEN "static" ELSE "none"
      [] ~acme /\ ~cert -> "none"
-----------------------------------------------------------------------------
(* Paths. *)

Under(path, p) == path = p \/ (IsPrefix(p, path) /\ Len(path) > Len(p))

\* The handler of a path, in the order of accept_and_dispatch_ws.
Route(path) ==
    CASE Under(path, Append(Base, "tun")) -> "tun"
      [] Under(path, Append(Base, "dns")) -> "dns"
      [] Under(path, Append(Base, "mux")) -> "mux"
      [] path \in {Base, Append(Base, "")} -> "vpn"
      [] OTHER -> "closed"

\* A segment after one round of percent-decoding.
PercentDecode(segment) ==
    CASE segment = "%2e%2e" -> ".."
      [] segment = "%252e%252e" -> "%2e%2e"
      [] OTHER -> segment

\* The path below the root, or none.
SanitizeUrlPath(target) ==
    LET decoded == [i \in 1..Len(target) |-> PercentDecode(target[i])]
    IN  IF \E i \in 1..Len(decoded) : decoded[i] = ".." THEN {}
        ELSE {SelectSeq(decoded, LAMBDA s : s \notin {"", "."})}

\* Without the check that the file lies below the root.
BuildResponseAnywhere(target) ==
    LET rel == CHOOSE r \in SanitizeUrlPath(target) : TRUE
    IN  IF SanitizeUrlPath(target) = {} \/ rel \notin DOMAIN Site THEN 404
        ELSE IF Site[rel] = "dir" THEN 403 ELSE 200

\* build_response: the status of a target.  A link leads out of the root.
BuildResponse(target) ==
    LET rel == CHOOSE r \in SanitizeUrlPath(target) : TRUE
    IN  IF SanitizeUrlPath(target) = {} \/ rel \notin DOMAIN Site THEN 404
        ELSE CASE Site[rel] = "file" -> 200
               [] Site[rel] = "index" -> 200
               [] Site[rel] = "dir" -> 403
               [] Site[rel] = "link" -> 404

StatusOf(r) == IF r.kind \in {"get", "head", "ws"} THEN BuildResponse(r.path) ELSE 405
Closes(r) == r.close \/ StatusOf(r) = 405

\* write_response: the status line and the Connection header.
Answer(status, close) == [status |-> status, close |-> close]
-----------------------------------------------------------------------------
Init ==
    /\ server = "up" /\ port \in {"main", "http"} /\ decoy \in BOOLEAN
    /\ \E acme, cert, loads \in BOOLEAN : tls = ConfigureTls(acme, cert, loads)
    /\ tls # "refuse"
    /\ port = "http" => ~decoy /\ tls = "none"
    /\ stream \in SeqOf(Requests, MaxRequests) /\ closing \in BOOLEAN
    /\ phase = "accept" /\ arrived = 0 /\ consumed = 0 /\ replayed = 0 /\ answers = <<>>

AfterTls == IF decoy THEN "head" ELSE "upgrade"

Accept ==
    /\ server = "up" /\ phase = "accept"
    /\ phase' = IF port = "http" THEN "http" ELSE IF tls = "none" THEN AfterTls ELSE "tls"
    /\ UNCHANGED <<conn, arrived, consumed, replayed, answers>>

\* An error of the main listener ends run_server, one of the HTTP port does not.
AcceptFails ==
    /\ server = "up" /\ phase = "accept"
    /\ server' = IF port = "main" THEN "down" ELSE server
    /\ UNCHANGED <<port, tls, decoy, stream, closing, phase, arrived, consumed, replayed, answers>>

TlsAccepted ==
    /\ phase = "tls" /\ phase' = AfterTls
    /\ UNCHANGED <<conn, arrived, consumed, replayed, answers>>

\* The handshake fails, or was an ACME challenge.
TlsEnds ==
    /\ phase = "tls" /\ phase' = "closed"
    /\ UNCHANGED <<conn, arrived, consumed, replayed, answers>>

\* Bytes arrive while a head is read.
Read(n) ==
    /\ \/ phase \in {"head", "serve"} /\ ParseRequestHead = {} /\ ~Full(MaxHeader)
       \/ phase = "http" /\ arrived < EndOf(1) /\ ~Full(HttpBuffer)
    /\ n \in 1..(Total - arrived)
    /\ arrived' = arrived + n
    /\ UNCHANGED <<conn, phase, consumed, replayed, answers>>

\* Replays the head and forgets what came with it.
VerdictHeadOnly ==
    /\ phase = "head"
    /\ \E r \in ParseRequestHead :
         IF r.kind = "ws"
         THEN phase' = "upgrade" /\ replayed' = r.size
         ELSE phase' = "serve" /\ UNCHANGED replayed
    /\ UNCHANGED <<conn, arrived, consumed, answers>>

\* pre_read_head has a verdict.
Verdict ==
    /\ phase = "head"
    /\ \E r \in ParseRequestHead :
         IF r.kind = "ws"
         THEN phase' = "upgrade" /\ replayed' = arrived
         ELSE phase' = "serve" /\ UNCHANGED replayed
    /\ UNCHANGED <<conn, arrived, consumed, answers>>

\* The size is checked before the head is parsed.
HeadDroppedEarly ==
    /\ phase = "head" /\ \/ Full(MaxHeader)
                         \/ arrived = Total /\ ParseRequestHead = {}
    /\ phase' = "closed"
    /\ UNCHANGED <<conn, arrived, consumed, replayed, answers>>

\* Without the timeout of the read.
HeadDroppedOnEof ==
    /\ phase = "head" /\ ParseRequestHead = {}
    /\ Full(MaxHeader) \/ (arrived = Total /\ closing)
    /\ phase' = "closed"
    /\ UNCHANGED <<conn, arrived, consumed, replayed, answers>>

\* The head is too large, the client closed, or the whole of it did not come
\* within HEAD_READ_TIMEOUT.
HeadDropped ==
    /\ phase = "head" /\ ParseRequestHead = {}
    /\ phase' = "closed"
    /\ UNCHANGED <<conn, arrived, consumed, replayed, answers>>

\* serve: the next head is here, or too large, and its answer is made.
Serve ==
    /\ phase = "serve" /\ (ParseRequestHead # {} \/ Full(MaxHeader))
    /\ phase' = "answer"
    /\ UNCHANGED <<conn, arrived, consumed, replayed, answers>>

\* serve: the client closed, or sent nothing for KEEPALIVE_TIMEOUT.
ServeEnds ==
    /\ phase = "serve" /\ ParseRequestHead = {} /\ ~Full(MaxHeader)
    /\ phase' = "closed"
    /\ UNCHANGED <<conn, arrived, consumed, replayed, answers>>

\* The answer being written.
Pending ==
    IF ParseRequestHead = {} THEN Answer(431, TRUE)
    ELSE LET r == CHOOSE r \in ParseRequestHead : TRUE IN Answer(StatusOf(r), Closes(r))

\* Answers a request and leaves its head in the buffer.
AnsweredUndrained ==
    /\ phase = "answer"
    /\ answers' = Append(answers, Pending)
    /\ phase' = IF Pending.close THEN "closed" ELSE "serve"
    /\ UNCHANGED <<conn, arrived, consumed, replayed>>

\* write_response returns once the client has taken the answer, however long
\* that takes; its head is drained.
Answered ==
    /\ phase = "answer"
    /\ answers' = Append(answers, Pending)
    /\ IF Pending.close THEN phase' = "closed" /\ UNCHANGED consumed
       ELSE phase' = "serve" /\ consumed' = EndOf(Current)
    /\ UNCHANGED <<conn, arrived, replayed>>

AnswerFails ==
    /\ phase = "answer" /\ phase' = "closed"
    /\ UNCHANGED <<conn, arrived, consumed, replayed, answers>>

\* RewindStream: once the buffered bytes are read, those of the stream.
ReadThrough(n) ==
    /\ phase = "upgrade" /\ stream # <<>> /\ replayed < EndOf(1)
    /\ n \in 1..(Total - arrived)
    /\ arrived' = arrived + n /\ replayed' = replayed + n
    /\ UNCHANGED <<conn, phase, consumed, answers>>

\* The WebSocket library has the head: it refuses one with bytes behind it,
\* and otherwise the connection goes to the handler of its path.
Upgrade ==
    /\ phase = "upgrade" /\ stream # <<>> /\ replayed >= EndOf(1)
    /\ phase' = IF stream[1].kind = "ws" /\ replayed = EndOf(1)
                 THEN Route(stream[1].path) ELSE "closed"
    /\ UNCHANGED <<conn, arrived, consumed, replayed, answers>>

\* Without a decoy nothing bounds the wait for the first request.
UpgradeEof ==
    /\ phase = "upgrade" /\ stream = <<>> /\ closing /\ phase' = "closed"
    /\ UNCHANGED <<conn, arrived, consumed, replayed, answers>>

\* handle_http_port: one answer, then the connection ends.
ServeHttp ==
    /\ phase = "http" /\ stream # <<>> /\ arrived >= EndOf(1)
    /\ \E status \in {200, 301, 404} : answers' = <<Answer(status, TRUE)>>
    /\ phase' = "closed"
    /\ UNCHANGED <<conn, arrived, consumed, replayed>>

HttpEnds ==
    /\ phase = "http" /\ \/ arrived = Total /\ closing
                         \/ Full(HttpBuffer)
    /\ stream = <<>> \/ arrived < EndOf(1)
    /\ phase' = "closed"
    /\ UNCHANGED <<conn, arrived, consumed, replayed, answers>>

Loop == Verdict \/ HeadDropped \/ Serve \/ ServeEnds \/ Upgrade

Next ==
    \/ Loop \/ Accept \/ AcceptFails \/ TlsAccepted \/ TlsEnds
    \/ Answered \/ AnswerFails \/ UpgradeEof \/ ServeHttp \/ HttpEnds
    \/ \E n \in 1..Total : Read(n) \/ ReadThrough(n)

Spec == Init /\ [][Next]_vars

(* The server's own steps are taken, and its two read timeouts fire.       *)
(* Nothing is assumed of the client: it may send nothing more, and never   *)
(* take the answer that is being written.                                  *)
Fairness == WF_vars(Loop)

FairSpec == Spec /\ Fairness
-----------------------------------------------------------------------------
Handlers == {"tun", "dns", "mux", "vpn"}

TypeOK ==
    /\ server \in {"up", "down"} /\ port \in {"main", "http"}
    /\ tls \in {"none", "static", "acme"} /\ decoy \in BOOLEAN /\ closing \in BOOLEAN
    /\ phase \in {"accept", "tls", "head", "serve", "answer", "upgrade", "http", "closed"}
                \cup Handlers
    /\ consumed <= arrived /\ arrived <= Total

(***************************************************************************)
(* The answers of the decoy are those of the requests, in order, one for   *)
(* each, however the stream is cut and however many requests arrive        *)
(* together; an answer that announces a close is the last one.             *)
(***************************************************************************)
AnswersMatch ==
    port = "main" =>
      \A i \in 1..Len(answers) :
        /\ answers[i].status = 431 \/
             (i <= Len(stream) /\ answers[i].status = StatusOf(stream[i]))
        /\ answers[i].close => i = Len(answers) /\ phase = "closed"

(***************************************************************************)
(* Whatever the decoy's pre-read took from the stream reaches the          *)
(* WebSocket library: a handler runs only when the replayed bytes and the  *)
(* rest of the stream are all of it.                                       *)
(***************************************************************************)
NothingSwallowed ==
    /\ phase \in Handlers => replayed = arrived /\ answers = <<>>
    /\ phase \in Handlers => phase = Route(stream[1].path)

(***************************************************************************)
(* An upgrade request for a path of the VPN that has arrived whole, with   *)
(* nothing behind it, gets its handler, with and without a decoy site and  *)
(* also when it came at the last moment or is as large as the decoy reads. *)
(***************************************************************************)
UpgradeReachesHandler ==
    (/\ phase \in {"head", "upgrade"} /\ stream # <<>> /\ stream[1].kind = "ws"
     /\ Route(stream[1].path) # "closed" /\ arrived = EndOf(1)) ~> phase \in Handlers

(***************************************************************************)
(* A connection in the hands of the decoy ends, however few bytes of its   *)
(* requests come and wherever they stop, as long as no answer waits for    *)
(* good for its client to read it (write_response has no timeout): the     *)
(* head's timeout and the keep-alive timeout bound every read.             *)
(***************************************************************************)
DecoyConnectionEnds ==
    []<>(phase # "answer") =>
      ((decoy /\ phase \in {"head", "serve", "answer"}) ~> phase \in Handlers \cup {"closed"})

(***************************************************************************)
(* A file is served only from below the root: no target that climbs, plain *)
(* or encoded once, and no link out of the root is answered with a file.   *)
(***************************************************************************)
ServedBelowRoot ==
    port = "main" =>
      \A i \in 1..Len(answers) : answers[i].status = 200 =>
        /\ \A k \in 1..Len(stream[i].path) : stream[i].path[k] \notin {"..", "%2e%2e"}
        /\ \E p \in DOMAIN Site : Site[p] # "link" /\ p \in SanitizeUrlPath(stream[i].path)
=============================================================================
