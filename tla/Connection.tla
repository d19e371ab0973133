----------------------------- MODULE Connection -----------------------------
(***************************************************************************)
(* One client connection of server/main.cc, from the client's byte stream  *)
(* to the server's responses: handle_read, try_one_request, handle_write   *)
(* and the part of the event loop that calls them.                         *)
(*                                                                         *)
(* Both streams are FIFO, so a buffer is the interval between two stream   *)
(* positions: incoming is consumed .. received, outgoing is sent up to     *)
(* served * RespLen. What a byte holds matters only for the messages'      *)
(* boundaries: request i takes ReqLen bytes, HeadLen of them its length    *)
(* field, and is well-formed, malformed (Bad) or too long (Long), as the   *)
(* client chooses.                                                         *)
(***************************************************************************)
EXTENDS Integers, FiniteSetsExt

CONSTANTS HeadLen,   \* bytes of the length field (4)
          BodyLen,   \* bytes of a request body
          RespLen,   \* bytes of a response, with its length field
          ReadMax,   \* bytes one read() returns at most (64K)
          SndBuf,    \* bytes the kernel buffers towards the client
          Requests   \* bound: how many requests the client sends

ASSUME ConnectionAssumption ==
    /\ HeadLen \in Nat \ {0} /\ BodyLen \in Nat /\ RespLen \in Nat \ {0}
    /\ ReadMax \in Nat \ {0} /\ SndBuf \in Nat \ {0}
    /\ Requests \in Nat

ReqLen == HeadLen + BodyLen

VARIABLES kind,      \* what each request is; only the client knows
          written,   \* client stream: bytes the client has written
          received,  \*   bytes read() has appended to incoming
          consumed,  \*   bytes consume() has removed from incoming
          served,    \* requests executed, each with a response in outgoing
          sent,      \* server stream: bytes write() has taken from outgoing
          taken,     \*   bytes the client has read
          peer,      \* the client's end of the connection
          want,      \* the want_read, want_write and want_close flags
          ready,     \* revents of the connection
          pc         \* where the server is in the handling of the connection

vars == <<kind, written, received, consumed, served, sent, taken, peer, want,
          ready, pc>>
client == <<kind, written, taken, peer>>
server == <<received, consumed, served, sent, want, ready, pc>>

Bad  == {i \in 1 .. Requests : kind[i] = "bad"}   \* parse_req() fails
Long == {i \in 1 .. Requests : kind[i] = "long"}  \* len > k_max_msg

Incoming == received - consumed
Outgoing == served * RespLen - sent

Init ==
    /\ kind \in [1 .. Requests -> {"good", "bad", "long"}]
    /\ written = 0 /\ received = 0 /\ consumed = 0 /\ served = 0
    /\ sent = 0 /\ taken = 0
    /\ peer = "open"
    /\ want = {"read"}
    /\ ready = {}
    /\ pc = "poll"

-----------------------------------------------------------------------------
(* The client and the network.                                             *)

\* the client writes; the network may deliver any part of it at a time
ClientWrite ==
    /\ peer = "open"
    /\ \E n \in 1 .. (Requests * ReqLen - written) : written' = written + n
    /\ UNCHANGED <<kind, taken, peer, server>>

ClientRead ==
    /\ peer \in {"open", "half"}
    /\ taken < sent
    /\ \E n \in 1 .. (sent - taken) : taken' = taken + n
    /\ UNCHANGED <<kind, written, peer, server>>

\* shutdown(SHUT_WR): the client has sent all it wants to send, and reads on
ClientShutdown ==
    /\ peer = "open"
    /\ peer' = "half"
    /\ UNCHANGED <<kind, written, taken, server>>

\* close(): with unread responses the client's kernel resets the connection at
\* once, without them it closes in order
ClientClose ==
    /\ peer \in {"open", "half"}
    /\ peer' = IF taken < sent THEN "reset" ELSE "closed"
    /\ UNCHANGED <<kind, written, taken, server>>

\* data that reaches a closed client is answered by a reset; the socket was
\* already in CLOSE_WAIT, so that write() now fails with EPIPE
ResetArrives ==
    /\ peer = "closed"
    /\ taken < sent
    /\ peer' = "broken"
    /\ UNCHANGED <<kind, written, taken, server>>

-----------------------------------------------------------------------------
(* The server.                                                             *)

Readable == received < written \/ peer # "open"
Room     == SndBuf - (sent - taken)
Writable == Room > 0 \/ peer \in {"reset", "broken"}

\* the requested events that hold
Revents == (IF "read" \in want /\ Readable THEN {"IN"} ELSE {})
           \cup (IF "write" \in want /\ Writable THEN {"OUT"} ELSE {})
           \cup (IF peer \in {"reset", "broken"} THEN {"ERR"} ELSE {})

\* poll() returns
Poll ==
    /\ pc = "poll"
    /\ Revents # {}
    /\ ready' = Revents
    /\ pc' = IF "IN" \in ready' THEN "read" ELSE "after_read"
    /\ UNCHANGED <<client, received, consumed, served, sent, want>>

\* read() returns data
ReadData ==
    /\ pc = "read"
    /\ \E n \in 1 .. Min({ReadMax, written - received}) : received' = received + n
    /\ pc' = "parse"
    /\ UNCHANGED <<client, consumed, served, sent, want, ready>>

\* EAGAIN: the socket was reported ready and is not
ReadAgain ==
    /\ pc = "read"
    /\ pc' = "after_read"
    /\ UNCHANGED <<client, received, consumed, served, sent, want, ready>>

\* read() returns 0 at the end of the stream, or an error after a reset
ReadEnd ==
    /\ pc = "read"
    /\ received = written
    /\ want' = want \cup {"close"}
    /\ pc' = "after_read"
    /\ UNCHANGED <<client, received, consumed, served, sent, ready>>

\* the request at the front of incoming
Front == (consumed \div ReqLen) + 1
HeadComplete == Incoming >= HeadLen

BodyComplete == Incoming >= ReqLen

\* try_one_request() executes a request, appends the response and removes the
\* request from incoming; handle_read() calls it again
ServeRequest ==
    /\ pc = "parse"
    /\ HeadComplete /\ Front \notin Long
    /\ BodyComplete /\ Front \notin Bad
    /\ served' = served + 1
    /\ consumed' = consumed + ReqLen
    /\ UNCHANGED <<client, received, sent, want, ready, pc>>

\* try_one_request() asks for the connection to be closed
Rejected == HeadComplete /\ (Front \in Long \/ (BodyComplete /\ Front \in Bad))

\* (mutation) handle_read() stops after the first response
StopAfterOne == ~HeadComplete \/ Rejected \/ ~BodyComplete \/ Outgoing > 0

\* try_one_request() returns false
NoneServed == ~HeadComplete \/ Rejected \/ (Front \notin Long /\ ~BodyComplete)

\* (mutation) want_read stays set while there is output
AndRead(flags) == flags \cup {"write"}

ToWriting(flags) == (flags \ {"read"}) \cup {"write"}

\* a connection with output turns to writing, and writes at once
ParseDone ==
    /\ pc = "parse"
    /\ NoneServed
    /\ LET intent == IF Rejected THEN want \cup {"close"} ELSE want
       IN  IF Outgoing > 0
           THEN want' = ToWriting(intent) /\ pc' = "write"
           ELSE want' = intent /\ pc' = "after_read"
    /\ UNCHANGED <<client, received, consumed, served, sent, ready>>

AfterRead ==
    /\ pc = "after_read"
    /\ pc' = IF "OUT" \in ready THEN "write" ELSE "check"
    /\ ready' = ready \ {"OUT"}
    /\ UNCHANGED <<client, received, consumed, served, sent, want>>

\* (mutations) want_read is not set again; want_close is lost
ForgetRead  == want \ {"write"}
ForgetClose == {"read"}

\* the flags when all is written
ToReading == (want \cup {"read"}) \ {"write"}

\* write() takes some bytes
WriteSome ==
    /\ pc = "write"
    /\ peer \notin {"reset", "broken"}
    /\ \E n \in 1 .. Min({Room, Outgoing}) :
          /\ sent' = sent + n
          /\ want' = IF n = Outgoing THEN ToReading ELSE want
    /\ pc' = "check"
    /\ UNCHANGED <<client, received, consumed, served, ready>>

\* EAGAIN
WriteAgain ==
    /\ pc = "write"
    /\ peer \notin {"reset", "broken"}
    /\ Room = 0
    /\ pc' = "check"
    /\ UNCHANGED <<client, received, consumed, served, sent, want, ready>>

\* ECONNRESET
WriteError ==
    /\ pc = "write"
    /\ peer = "reset"
    /\ want' = want \cup {"close"}
    /\ pc' = "check"
    /\ UNCHANGED <<client, received, consumed, served, sent, ready>>

\* EPIPE comes with SIGPIPE, which main() neither ignores nor handles: the
\* default action ends the process before write() returns
WritePipe ==
    /\ pc = "write"
    /\ peer = "broken"
    /\ pc' = "killed"
    /\ UNCHANGED <<client, received, consumed, served, sent, want, ready>>

\* the end of the loop body: conn_destroy(), or the next poll()
Check ==
    /\ pc = "check"
    /\ pc' = IF "ERR" \in ready \/ "close" \in want THEN "closed" ELSE "poll"
    /\ ready' = {}
    /\ UNCHANGED <<client, received, consumed, served, sent, want>>

\* process_timers() destroys a connection that poll() has not reported for
\* k_idle_timeout_ms; something may have arrived since that poll()
IdleClose ==
    /\ pc = "poll"
    /\ pc' = "closed"
    /\ UNCHANGED <<client, received, consumed, served, sent, want, ready>>

-----------------------------------------------------------------------------
Client == ClientWrite \/ ClientRead \/ ClientShutdown \/ ClientClose

Server == \/ Poll \/ ReadData \/ ReadAgain \/ ReadEnd \/ ServeRequest \/ ParseDone
          \/ AfterRead \/ WriteSome \/ WriteAgain \/ WriteError \/ WritePipe
          \/ Check

\* the connection, or the whole server, is gone
Gone == pc \in {"closed", "killed"} /\ UNCHANGED vars

Next == Client \/ ResetArrives \/ Server \/ IdleClose \/ Gone

Spec == Init /\ [][Next]_vars

(***************************************************************************)
(* The server's loop runs, a socket is not reported ready without being so *)
(* for ever, and a client that is still there reads what it is sent;       *)
(* nothing makes a client write, shut down or close.                       *)
(***************************************************************************)
FairSpec ==
    /\ Spec
    /\ WF_vars(Server) /\ SF_vars(ReadData) /\ SF_vars(ReadEnd)
    /\ WF_vars(ClientRead)

-----------------------------------------------------------------------------
(* Properties.                                                             *)

\* Every variable stays within the values its C++ counterpart can take: no
\* buffer gives up more bytes than it holds.
TypeOK ==
    /\ kind \in [1 .. Requests -> {"good", "bad", "long"}]
    /\ {written, received, consumed, served, sent, taken} \subseteq Nat
    /\ received <= written /\ consumed <= received
    /\ taken <= sent /\ sent <= served * RespLen
    /\ peer \in {"open", "half", "closed", "reset", "broken"}
    /\ want \in SUBSET {"read", "write", "close"}
    /\ ready \in SUBSET {"IN", "OUT", "ERR"}
    /\ pc \in {"poll", "read", "parse", "after_read", "write", "check",
               "closed", "killed"}

\* A connection that waits in poll() either reads, with nothing to send, or
\* writes what it has to send, and handle_write() always finds something to
\* write (its assert), however the client cuts its requests into packets; no
\* counter overtakes the one before it.
ReadOrWrite ==
    /\ TypeOK
    /\ pc = "poll" => \/ want = {"read"} /\ Outgoing = 0
                      \/ want = {"write"} /\ Outgoing > 0
    /\ pc = "write" => Outgoing > 0

\* handle_read() leaves no request behind that it could have handled: while
\* the server waits in poll(), incoming ends inside a request. A complete one
\* would wait for bytes the client has no reason to send ("pipelining").
NoStrandedRequest ==
    pc = "poll" => ~HeadComplete \/ (Front \notin Long /\ ~BodyComplete)

\* requests that one read() can complete
Batch == (ReqLen - 1 + ReadMax) \div ReqLen

\* A client that pipelines requests and does not read its responses cannot make
\* the server's buffers grow beyond what one read() brings in.
BackPressure ==
    /\ Incoming <= ReqLen - 1 + ReadMax
    /\ Outgoing <= Batch * RespLen

\* whether the client has sent, perhaps in part, a request that is rejected
SentRejected == \E i \in Bad \cup Long : (i - 1) * ReqLen < written

\* "want_close = true; // error handling" (main.cc:611): a write() that fails
\* costs the server this connection and no more.
WriteErrorClosesConnection == pc # "killed"

\* the connection was closed by the idle timer
IdledOut == pc = "closed" /\ "close" \notin want

Present == peer \in {"open", "half"}

\* Every well-formed request of a client that stays and has sent no request that
\* is rejected is answered in full, unless the connection stands still for the
\* idle timeout. (After a rejected request the server closes, and may drop
\* responses to the requests before it.)
EveryRequestAnswered ==
    \A i \in 1 .. Requests :
        (written >= i * ReqLen /\ Present)
            ~> (taken >= i * RespLen \/ ~Present \/ SentRejected \/ IdledOut)

\* what try_one_request() needs of request i to reject it
Enough(i) == (i - 1) * ReqLen + (IF i \in Long THEN HeadLen ELSE ReqLen)

\* A client that sends a malformed request, or one that is too long, is rid of:
\* the connection closes although responses to earlier requests are still to be
\* written, and is never left waiting with the rejected request in incoming.
RejectedIsClosed ==
    \A i \in 1 .. Requests :
        (i \in Bad \cup Long /\ written >= Enough(i) /\ Present)
            ~> (pc \in {"closed", "killed"} \/ ~Present)

=============================================================================
