------------------------------- MODULE Client -------------------------------
(***************************************************************************)
(* client/main.cc talking to a server: the command of argv is sent as one  *)
(* request, one response is read and printed. read() and write() move any  *)
(* part of the bytes, and the server may close the connection at any time, *)
(* losing any part of what it still had to send.                           *)
(*                                                                         *)
(* Of the server only the request at the front of its buffer matters here  *)
(* (module Connection has the rest): do_request() answers with any of the  *)
(* Replies.                                                                *)
(***************************************************************************)
EXTENDS Wire

CONSTANTS ClientMax,  \* k_max_msg of the client
          Commands,   \* what argv may hold: sequences of strings
          Replies,    \* what do_request() may write: sequences of frames
          Messages,   \* the bodies that parse_req() is checked on
          Texts,      \* the strings of the commands that it is checked on
          Before,     \* the contents of outgoing before a response
          None

ASSUME ClientAssumption ==
    /\ ClientMax \in W32 .. MaxMsg
    /\ Commands \subseteq Seq(Seq(Bytes)) /\ \A c \in Commands : Len(c) <= MaxArgs
    /\ Messages \subseteq Seq(Bytes) /\ Texts \subseteq Seq(Bytes)
    /\ Before \subseteq Seq(Bytes)
    /\ None \notin Commands /\ None \notin Replies

VARIABLES pc,        \* where the client is
          cmd,       \* argv
          wbuf,      \* the bytes that write_all() has left to write
          rbuf,      \* the bytes that read_full() has read
          need,      \* the bytes that read_full() was asked for
          printed,   \* what print_response() has printed
          outcome,   \* how the client ended
          incoming,  \* what has arrived at the server
          outgoing,  \* what the server has sent and the client has not read
          open,      \* the server has not closed the connection
          executed,  \* the command the server has executed, or None
          reply      \* what do_request() has answered, or None

vars == <<pc, cmd, wbuf, rbuf, need, printed, outcome, incoming, outgoing, open,
          executed, reply>>
reading == <<rbuf, need>>
ending  == <<printed, outcome>>
server  == <<open, executed, reply>>

Init ==
    /\ pc = "start"
    /\ cmd \in Commands
    /\ wbuf = <<>> /\ rbuf = <<>> /\ need = 0
    /\ printed = <<>>
    /\ outcome = None
    /\ incoming = <<>> /\ outgoing = <<>>
    /\ open = TRUE
    /\ executed = None /\ reply = None

End(how) == pc' = "done" /\ outcome' = how

-----------------------------------------------------------------------------
(* The client.                                                             *)

\* send_req(): nothing is sent of a command that is too long
send_req ==
    /\ pc = "start"
    /\ IF RequestSize(cmd) > ClientMax
       THEN End("not sent") /\ UNCHANGED wbuf
       ELSE /\ wbuf' = Request(cmd)
            /\ pc' = "write"
            /\ UNCHANGED outcome
    /\ UNCHANGED <<cmd, reading, printed, incoming, outgoing, server>>

\* one write() of write_all(); what is written to a closed connection is lost
write_all ==
    /\ pc = "write" /\ wbuf # <<>>
    /\ \E rv \in 1 .. Len(wbuf) :
          /\ incoming' = IF open THEN incoming \o SubSeq(wbuf, 1, rv) ELSE incoming
          /\ wbuf' = SubSeq(wbuf, rv + 1, Len(wbuf))
    /\ UNCHANGED <<pc, cmd, reading, ending, outgoing, server>>

\* an error of write(), or SIGPIPE: the client ends without a word
WriteError ==
    /\ pc = "write" /\ wbuf # <<>> /\ ~open
    /\ End("not sent")
    /\ UNCHANGED <<cmd, wbuf, reading, printed, incoming, outgoing, server>>

\* read_res() asks for the header once the request is written
ReadHeader ==
    /\ pc = "write" /\ wbuf = <<>>
    /\ need' = W32
    /\ pc' = "header"
    /\ UNCHANGED <<cmd, wbuf, rbuf, ending, incoming, outgoing, server>>

\* the bytes that the next read() of read_full() asks for
Missing == need - Len(rbuf)

\* one read() of read_full()
read_full ==
    /\ pc \in {"header", "body"} /\ Len(rbuf) < need
    /\ \E rv \in 1 .. Min({Missing, Len(outgoing)}) :
          /\ rbuf' = rbuf \o SubSeq(outgoing, 1, rv)
          /\ outgoing' = SubSeq(outgoing, rv + 1, Len(outgoing))
    /\ UNCHANGED <<pc, cmd, wbuf, need, ending, incoming, server>>

\* (mutation) read() at the end of the stream is tried again
ReadAgain ==
    /\ pc \in {"header", "body"} /\ Len(rbuf) < need
    /\ outgoing = <<>> /\ ~open
    /\ UNCHANGED vars

\* the end of the stream, or an error of read()
ReadError ==
    /\ pc \in {"header", "body"} /\ Len(rbuf) < need
    /\ outgoing = <<>> /\ ~open
    /\ \E how \in {"read() error"} \cup (IF pc = "header" THEN {"EOF"} ELSE {}) : End(how)
    /\ UNCHANGED <<cmd, wbuf, reading, printed, incoming, outgoing, server>>

\* the header is complete
ReadBody ==
    /\ pc = "header" /\ Len(rbuf) = need
    /\ LET len == UInt(rbuf, 0, W32)
       IN  IF len > ClientMax
           THEN End("too long") /\ UNCHANGED reading
           ELSE /\ need' = len
                /\ rbuf' = <<>>
                /\ pc' = "body"
                /\ UNCHANGED outcome
    /\ UNCHANGED <<cmd, wbuf, printed, incoming, outgoing, server>>

\* the body is complete: print it, and see that nothing of it is left
PrintBody ==
    /\ pc = "body" /\ Len(rbuf) = need
    /\ LET shown == {p \in print_response(rbuf) : p[2] = need}
       IN  IF shown = {}
           THEN End("bad response") /\ UNCHANGED printed
           ELSE \E p \in shown : printed' = p[1] /\ End("printed")
    /\ UNCHANGED <<cmd, wbuf, reading, incoming, outgoing, server>>

-----------------------------------------------------------------------------
(* The server.                                                             *)

\* the first request in incoming, if all of it has arrived; one that is too
\* long is refused as the empty message is
Arrived == UNION {IF l[1] > MaxMsg THEN {<<<<>>, 0>>} ELSE read_str(incoming, l[2], l[1]) :
                  l \in read_u32(incoming, 0)}

\* try_one_request() on the client's connection, which a bad request closes
Serve ==
    /\ open
    /\ \E request \in Arrived :
          IF parse_req(request[1]) = {}
          THEN open' = FALSE /\ UNCHANGED <<executed, reply, incoming, outgoing>>
          ELSE \E c \in parse_req(request[1]), r \in Replies :
                  /\ executed' = c
                  /\ reply' = r
                  /\ outgoing' = Respond(outgoing, Frames(r))
                  /\ incoming' = SubSeq(incoming, request[2] + 1, Len(incoming))
                  /\ UNCHANGED open
    /\ UNCHANGED <<pc, cmd, wbuf, reading, ending>>

\* the server closes the connection, or crashes
ServerCloses ==
    /\ open
    /\ open' = FALSE
    /\ \E n \in 0 .. Len(outgoing) : outgoing' = SubSeq(outgoing, 1, n)
    /\ UNCHANGED <<pc, cmd, wbuf, reading, ending, incoming, executed, reply>>

-----------------------------------------------------------------------------
ClientStep == \/ send_req \/ write_all \/ WriteError
              \/ ReadHeader \/ read_full \/ ReadError \/ ReadBody \/ PrintBody

Next == ClientStep \/ Serve \/ ServerCloses

Spec == Init /\ [][Next]_vars

\* The client runs and the server handles what has arrived (EventLoop and
\* Connection show that it does); nothing makes it close the connection.
FairSpec == Spec /\ WF_vars(ClientStep) /\ WF_vars(Serve)

-----------------------------------------------------------------------------
(* Properties.                                                             *)

Outcomes == {"not sent", "EOF", "read() error", "too long", "bad response", "printed"}

\* Types; in particular read_full() never reads beyond what it was asked for,
\* so that rbuf (4 + k_max_msg bytes) does not overflow and the bytes behind a
\* header stay in the socket.
TypeOK ==
    /\ pc \in {"start", "write", "header", "body", "done"}
    /\ cmd \in Commands
    /\ wbuf \in Seq(Bytes) /\ incoming \in Seq(Bytes) /\ outgoing \in Seq(Bytes)
    /\ need \in 0 .. Max({W32, ClientMax})
    /\ rbuf \in Seq(Bytes) /\ Len(rbuf) <= need
    /\ outcome \in Outcomes \cup {None}
    /\ (outcome = None) = (pc # "done")
    /\ open \in BOOLEAN
    /\ reply \in Replies \cup {None}

\* parse_req() accepts exactly the bodies that send_req() writes, of up to
\* k_max_args strings, each as the command it was made of: what is cut short,
\* has trailing bytes or lies about a length is refused. (Evaluated on every
\* message and on every list of strings up to a bound.)
ParseExact ==
    pc = "start" =>
        /\ \A data \in Messages : \A c \in parse_req(data) :
               Request(c) = Raw(Len(data), W32) \o data
        /\ \A c \in BoundedSeq(Texts, MaxArgs + 1) :
               parse_req(SubSeq(Request(c), W32 + 1, Len(Request(c)))) =
                   IF Len(c) <= MaxArgs THEN {c} ELSE {}

\* the frames of the response to a request, and what the client prints of them
Sent(r)  == IF Len(Frames(r)) > MaxMsg THEN <<TooBig>> ELSE r
Shown(r) == IF r[1][1] = "array" THEN Append(r, ArrayEnd) ELSE r

\* A response is appended behind those before it in the output buffer, which
\* keep their bytes; its header counts its body, whether the array's length was
\* written first or filled in last; a body that is too long gives way to
\* ERR_TOO_BIG; and the client's reader takes exactly the frames written.
ResponseFramed ==
    pc = "start" =>
        \A out \in Before, r \in Replies :
            LET all  == Respond(out, Frames(r))
                body == SubSeq(all, Len(out) + W32 + 1, Len(all))
            IN  /\ IsPrefix(out, all)
                /\ UInt(all, Len(out), W32) = Len(body) /\ Len(body) <= MaxMsg
                /\ print_response(body) = {<<Shown(Sent(r)), Len(body)>>}
                /\ r[1][1] = "array" => Counted(r) = Frames(r)

\* Both programs read exactly what the other one writes: requests and responses
\* have one meaning each, although each side has a codec of its own.
CodecsAgree == ParseExact /\ ResponseFramed

\* The server never rejects this client's request, and executes the command
\* that the client was given, once the whole of it has arrived.
RequestUnderstood ==
    /\ executed # None => executed = cmd /\ wbuf = <<>>
    /\ \A request \in Arrived : parse_req(request[1]) # {}

\* What the client prints is the whole response to its own command, and it
\* gives up on a response only when it is too long for it: however the bytes
\* were cut, and wherever the server closed the connection. It never reads past
\* the bytes it asked for (Len(rbuf) <= need).
PrintedIsReply ==
    /\ TypeOK
    /\ outcome = "printed" => reply # None /\ printed = Shown(Sent(reply))
    /\ outcome = "too long" => Len(Frames(Sent(reply))) > ClientMax
    /\ outcome # "bad response"
    /\ outcome # "printed" => printed = <<>>

\* The client ends: it is never left waiting for bytes of a response whose
\* length it misread, nor by a server that has closed the connection.
ClientEnds == <>(pc = "done")

=============================================================================
