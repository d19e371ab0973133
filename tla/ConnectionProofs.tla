-------------------------- MODULE ConnectionProofs --------------------------
(***************************************************************************)
(* Proofs about Connection, for requests, responses, reads and socket      *)
(* buffers of any size and any number of requests.                         *)
(*                                                                         *)
(* What holds while the server waits in poll() follows from what it knows  *)
(* at every point on the way there: Flags says in which direction the      *)
(* connection goes, Parsed what is left in incoming, Bounded how much is   *)
(* in either buffer.                                                       *)
(***************************************************************************)
EXTENDS Connection, TLAPS

\* the connection reads and has nothing to send, or writes what it has to send
Reading == want \ {"close"} = {"read"} /\ Outgoing = 0
Writing == want \ {"close"} = {"write"} /\ Outgoing > 0

Flags ==
    /\ pc \in {"poll", "after_read", "check"} => Reading \/ Writing
    /\ pc = "read" => Reading
    /\ pc = "parse" => want = {"read"}
    /\ pc = "write" => Writing
    /\ pc \in {"poll", "read"} => "close" \notin want
    /\ pc \in {"read", "parse"} => "OUT" \notin ready
    /\ pc = "after_read" /\ "OUT" \in ready => Writing

\* try_one_request() would find no request in incoming, not even one to reject
Unfinished == ~HeadComplete \/ (Front \notin Long /\ ~BodyComplete)

Parsed ==
    /\ pc \in {"poll", "read"} => Unfinished
    /\ pc \in {"after_read", "write", "check"} => "close" \in want \/ Unfinished

\* one read() on top of an unfinished request
OneRead == ReqLen - 1 + ReadMax

\* While requests are parsed, the responses in outgoing are those to the k
\* requests that this read() has completed so far.
Bounded ==
    /\ Incoming <= OneRead
    /\ pc # "parse" => Outgoing <= Batch * RespLen
    /\ pc = "parse" => \E k \in Nat : /\ Outgoing = k * RespLen
                                      /\ k * ReqLen + Incoming <= OneRead

Inv == TypeOK /\ Flags /\ Parsed /\ Bounded

-----------------------------------------------------------------------------
(* Arithmetic.                                                             *)

LEMMA UpToMin ==
    ASSUME NEW a \in Int, NEW b \in Int, NEW n \in 1 .. Min({a, b})
    PROVE  n \in Nat /\ n > 0 /\ n <= a /\ n <= b
<1>1. \E x \in {a, b} : \A y \in {a, b} : x <= y
  OBVIOUS
<1>2. Min({a, b}) \in Int /\ Min({a, b}) <= a /\ Min({a, b}) <= b
  BY <1>1 DEF Min
<1> QED
  BY <1>2

LEMMA TimesMonotonic ==
    ASSUME NEW a \in Nat, NEW b \in Nat, NEW c \in Nat, a <= b
    PROVE  a * c <= b * c
<1>1. PICK d \in Nat : b = a + d
  <2> WITNESS b - a \in Nat
  <2> QED
    OBVIOUS
<1>2. (a + d) * c = a * c + d * c /\ d * c \in Nat /\ a * c \in Nat
  OBVIOUS
<1> QED
  BY <1>1, <1>2

\* a * c <= n means that a is at most the quotient
LEMMA QuotientBound ==
    ASSUME NEW a \in Nat, NEW c \in Nat \ {0}, NEW n \in Nat, a * c <= n
    PROVE  a <= n \div c
<1> DEFINE q == n \div c
<1>1. q \in Nat /\ n < (q + 1) * c
  OBVIOUS
<1>2. SUFFICES ASSUME q + 1 <= a PROVE FALSE
  BY <1>1
<1>3. (q + 1) * c <= a * c
  BY <1>1, <1>2, TimesMonotonic
<1> HIDE DEF q
<1>4. (q + 1) * c \in Nat /\ a * c \in Nat
  BY <1>1
<1> QED
  BY <1>1, <1>3, <1>4

LEMMA Lengths ==
    /\ HeadLen \in Nat /\ HeadLen > 0 /\ BodyLen \in Nat /\ RespLen \in Nat /\ RespLen > 0
    /\ ReadMax \in Nat /\ ReadMax > 0 /\ SndBuf \in Nat /\ Requests \in Nat
    /\ ReqLen \in Nat /\ ReqLen > 0 /\ HeadLen <= ReqLen
    /\ OneRead \in Nat
BY ConnectionAssumption DEF ReqLen, OneRead

LEMMA BatchType == Batch \in Nat /\ Batch * RespLen \in Nat
<1>1. Batch = OneRead \div ReqLen
  BY DEF Batch, OneRead
<1>2. Batch \in Nat
  BY <1>1, Lengths
<1> QED
  BY <1>2, Lengths

-----------------------------------------------------------------------------
(* The invariant holds initially and is preserved by every action.         *)

\* The type invariant with its numbers spelt out.
LEMMA Types ==
    ASSUME TypeOK
    PROVE  /\ written \in Nat /\ received \in Nat /\ consumed \in Nat
           /\ served \in Nat /\ sent \in Nat /\ taken \in Nat
           /\ served * RespLen \in Nat
           /\ Incoming \in Nat /\ Outgoing \in Nat
<1>1. /\ written \in Nat /\ received \in Nat /\ consumed \in Nat
      /\ served \in Nat /\ sent \in Nat /\ taken \in Nat
      /\ consumed <= received /\ sent <= served * RespLen
  BY DEF TypeOK
<1>2. served * RespLen \in Nat
  BY <1>1, Lengths
<1> QED
  BY <1>1, <1>2 DEF Incoming, Outgoing

\* An unfinished request is shorter than a request.
LEMMA UnfinishedIsShort ==
    ASSUME TypeOK, Unfinished
    PROVE  Incoming <= ReqLen - 1
BY Types, Lengths DEF Unfinished, HeadComplete, BodyComplete

\* What the buffers hold depends on the stream positions only.
LEMMA SameBuffers ==
    ASSUME UNCHANGED <<kind, received, consumed, served, sent>>
    PROVE  /\ Incoming' = Incoming /\ Outgoing' = Outgoing
           /\ Unfinished' = Unfinished
BY DEF Incoming, Outgoing, Unfinished, HeadComplete, BodyComplete, Front, Long, ReqLen

LEMMA InitInv == Init => Inv
<1> SUFFICES ASSUME Init PROVE Inv
  OBVIOUS
<1> USE Lengths DEF Init
<1>1. Incoming = 0 /\ Outgoing = 0
  BY DEF Incoming, Outgoing
<1>2. TypeOK
  BY DEF TypeOK
<1>3. Flags
  BY <1>1 DEF Flags, Reading, Writing
<1>4. Parsed
  BY <1>1 DEF Parsed, Unfinished, HeadComplete
<1>5. Bounded
  BY <1>1, BatchType DEF Bounded
<1> QED
  BY <1>2, <1>3, <1>4, <1>5 DEF Inv

\* The client, and the reset that answers data sent to a closed client, change
\* neither the server's buffers nor its state.
LEMMA ClientInv == ASSUME Inv, Client \/ ResetArrives PROVE Inv'
<1>1. UNCHANGED <<kind, received, consumed, served, sent, want, ready, pc>>
  BY DEF Client, ClientWrite, ClientRead, ClientShutdown, ClientClose, ResetArrives, server
<1>2. TypeOK'
  <2> USE Types, Lengths DEF Inv, TypeOK, server
  <2>1. CASE ClientWrite
    <3>1. PICK n \in 1 .. (Requests * ReqLen - written) : written' = written + n
      BY <2>1 DEF ClientWrite
    <3>2. Requests * ReqLen \in Nat
      OBVIOUS
    <3>3. written' \in Nat /\ received <= written'
      BY <3>1, <3>2
    <3> QED
      BY <1>1, <2>1, <3>3 DEF ClientWrite
  <2>2. CASE ClientRead
    BY <2>2 DEF ClientRead
  <2>3. CASE ClientShutdown
    BY <2>3 DEF ClientShutdown
  <2>4. CASE ClientClose
    BY <2>4 DEF ClientClose
  <2>5. CASE ResetArrives
    BY <2>5 DEF ResetArrives
  <2> QED
    BY <2>1, <2>2, <2>3, <2>4, <2>5 DEF Client
<1>3. Flags' /\ Parsed' /\ Bounded'
  BY <1>1, SameBuffers
     DEF Inv, Flags, Parsed, Bounded, Reading, Writing, Batch, OneRead, ReqLen
<1> QED
  BY <1>2, <1>3 DEF Inv

\* The steps that leave the buffers alone: only flags and control change.
LEMMA PollInv == ASSUME Inv, Poll PROVE Inv'
<1> USE DEF Poll, client
<1>1. TypeOK'
  BY DEF Inv, TypeOK, Revents
<1>2. Incoming' = Incoming /\ Outgoing' = Outgoing /\ (Unfinished' <=> Unfinished)
  BY SameBuffers
<1>3. Flags'
  BY <1>2 DEF Inv, Flags, Reading, Writing, Revents
<1>4. Parsed' /\ Bounded'
  BY <1>2 DEF Inv, Parsed, Bounded
<1> QED
  BY <1>1, <1>3, <1>4 DEF Inv

LEMMA ReadDataInv == ASSUME Inv, ReadData PROVE Inv'
<1> USE DEF ReadData, client
<1>1. PICK n \in 1 .. Min({ReadMax, written - received}) : received' = received + n
  OBVIOUS
<1>2. n \in Nat /\ n <= ReadMax /\ n <= written - received
  <2>1. ReadMax \in Int /\ written - received \in Int
    BY Types, Lengths DEF Inv
  <2> QED
    BY <1>1, <2>1, UpToMin
<1>3. TypeOK'
  BY <1>1, <1>2, Types DEF Inv, TypeOK
<1>4. Incoming' = Incoming + n /\ Outgoing' = Outgoing /\ Outgoing = 0
  BY <1>1, <1>2, Types DEF Inv, Incoming, Outgoing, Flags, Reading
<1>5. Incoming' <= OneRead
  BY <1>2, <1>4, UnfinishedIsShort, Types, Lengths DEF Inv, Parsed, OneRead
<1>6. Flags' /\ Parsed'
  BY DEF Inv, TypeOK, Flags, Parsed, Reading
<1>7. Bounded'
  <2>1. Outgoing' = 0 * RespLen /\ 0 * ReqLen + Incoming' <= OneRead
    BY <1>2, <1>4, <1>5, Types, Lengths DEF Inv
  <2> QED
    BY <1>5, <2>1 DEF Bounded, OneRead
<1> QED
  BY <1>3, <1>6, <1>7 DEF Inv

LEMMA ReadAgainInv == ASSUME Inv, ReadAgain \/ ReadEnd PROVE Inv'
<1> USE DEF ReadAgain, ReadEnd, client
<1>1. TypeOK'
  BY DEF Inv, TypeOK
<1>2. Incoming' = Incoming /\ Outgoing' = Outgoing /\ (Unfinished' <=> Unfinished)
  BY SameBuffers
<1>3. Flags' /\ Parsed'
  BY <1>2 DEF Inv, Flags, Parsed, Reading, Writing
<1>4. Bounded'
  BY <1>2 DEF Inv, Bounded
<1> QED
  BY <1>1, <1>3, <1>4 DEF Inv

LEMMA ServeRequestInv == ASSUME Inv, ServeRequest PROVE Inv'
<1> USE DEF ServeRequest, client
<1>1. /\ pc = "parse" /\ pc' = "parse" /\ served' = served + 1 /\ consumed' = consumed + ReqLen
      /\ Incoming >= ReqLen /\ UNCHANGED <<received, sent>>
  BY DEF BodyComplete
<1>2. (served + 1) * RespLen = served * RespLen + RespLen
  BY Types, Lengths DEF Inv
<1>3. Incoming' = Incoming - ReqLen /\ Outgoing' = Outgoing + RespLen
  BY <1>1, <1>2, Types, Lengths DEF Inv, Incoming, Outgoing
<1>4. TypeOK'
  <2>1. /\ served' \in Nat /\ consumed' \in Nat /\ consumed' <= received
        /\ sent <= served' * RespLen
    <3>1. received - consumed >= ReqLen /\ sent <= served * RespLen
      BY <1>1 DEF Inv, TypeOK, Incoming
    <3>2. served' \in Nat /\ consumed' \in Nat /\ consumed' <= received
      BY <1>1, <3>1, Types, Lengths DEF Inv
    <3>3. sent <= served * RespLen + RespLen
      BY <3>1, Types, Lengths DEF Inv
    <3> QED
      BY <1>1, <1>2, <3>2, <3>3
  <2> QED
    BY <1>1, <2>1 DEF Inv, TypeOK
<1>5. Flags' /\ Parsed'
  BY DEF Inv, Flags, Parsed
<1>6. Bounded'
  <2>1. PICK k \in Nat : Outgoing = k * RespLen /\ k * ReqLen + Incoming <= OneRead
    BY <1>1 DEF Inv, Bounded
  <2>2. /\ (k + 1) * RespLen = k * RespLen + RespLen
        /\ (k + 1) * ReqLen = k * ReqLen + ReqLen /\ k * ReqLen \in Nat
    BY Lengths
  <2>3. Outgoing' = (k + 1) * RespLen /\ (k + 1) * ReqLen + Incoming' <= OneRead
    BY <1>3, <2>1, <2>2, Types, Lengths DEF Inv
  <2>4. Incoming' <= OneRead
    BY <1>3, Types, Lengths DEF Inv, Bounded
  <2> QED
    BY <1>1, <2>3, <2>4 DEF Bounded, OneRead
<1> QED
  BY <1>4, <1>5, <1>6 DEF Inv

LEMMA ParseDoneInv == ASSUME Inv, ParseDone PROVE Inv'
<1> USE DEF ParseDone, client
<1>1. TypeOK'
  BY DEF Inv, TypeOK, ToWriting
<1>2. Incoming' = Incoming /\ Outgoing' = Outgoing /\ (Unfinished' <=> Unfinished)
  BY SameBuffers
<1>3. want = {"read"} /\ pc = "parse" /\ "OUT" \notin ready /\ Outgoing \in Nat
  BY Types DEF Inv, Flags
<1>4. Rejected \/ Unfinished
  BY DEF NoneServed, Unfinished
<1>5. Flags'
  BY <1>2, <1>3 DEF Flags, Reading, Writing, ToWriting
<1>6. Parsed'
  BY <1>2, <1>3, <1>4 DEF Parsed, ToWriting
<1>7. Bounded'
  <2>1. PICK k \in Nat : Outgoing = k * RespLen /\ k * ReqLen + Incoming <= OneRead
    BY <1>3 DEF Inv, Bounded
  <2>2. k * ReqLen <= OneRead
    <3>1. k * ReqLen \in Nat
      BY Lengths
    <3> QED
      BY <2>1, <3>1, Types, Lengths DEF Inv
  <2>3. k <= Batch
    BY <2>2, QuotientBound, Lengths DEF Batch, OneRead
  <2>4. Outgoing <= Batch * RespLen
    BY <2>1, <2>3, TimesMonotonic, BatchType, Lengths
  <2> QED
    BY <1>2, <1>3, <2>4 DEF Inv, Bounded
<1> QED
  BY <1>1, <1>5, <1>6, <1>7 DEF Inv

LEMMA AfterReadInv == ASSUME Inv, AfterRead PROVE Inv'
<1> USE DEF AfterRead, client
<1>1. TypeOK'
  BY DEF Inv, TypeOK
<1>2. Incoming' = Incoming /\ Outgoing' = Outgoing /\ (Unfinished' <=> Unfinished)
  BY SameBuffers
<1>3. Flags' /\ Parsed'
  BY <1>2 DEF Inv, Flags, Parsed, Reading, Writing
<1>4. Bounded'
  BY <1>2 DEF Inv, Bounded
<1> QED
  BY <1>1, <1>3, <1>4 DEF Inv

LEMMA WriteSomeInv == ASSUME Inv, WriteSome PROVE Inv'
<1> USE DEF WriteSome, client
<1>1. PICK n \in 1 .. Min({Room, Outgoing}) :
         sent' = sent + n /\ want' = IF n = Outgoing THEN ToReading ELSE want
  OBVIOUS
<1>2. n \in Nat /\ n > 0 /\ n <= Outgoing
  <2>1. Room \in Int /\ Outgoing \in Int
    BY Types, Lengths DEF Inv, Room
  <2> QED
    BY <1>1, <2>1, UpToMin
<1>3. TypeOK'
  BY <1>1, <1>2, Types DEF Inv, TypeOK, ToReading, Outgoing
<1>4. Outgoing' = Outgoing - n
  BY <1>1, <1>2, Types DEF Inv, Outgoing
<1>5. Incoming' = Incoming /\ (Unfinished' <=> Unfinished)
  BY DEF Incoming, Unfinished, HeadComplete, BodyComplete, Front, Long, ReqLen
<1>6. pc = "write" /\ pc' = "check" /\ want \ {"close"} = {"write"}
  BY DEF Inv, Flags, Writing
<1>7. Flags'
  <2>1. CASE n = Outgoing
    <3>1. Outgoing' = 0 /\ want' \ {"close"} = {"read"}
      BY <1>1, <1>2, <1>4, <1>6, <2>1 DEF ToReading
    <3> QED
      BY <1>6, <3>1 DEF Flags, Reading
  <2>2. CASE n # Outgoing
    <3>1. Outgoing' > 0 /\ want' \ {"close"} = {"write"}
      BY <1>1, <1>2, <1>4, <1>6, <2>2, Types DEF Inv
    <3> QED
      BY <1>6, <3>1 DEF Flags, Writing
  <2> QED
    BY <2>1, <2>2
<1>8. Parsed'
  BY <1>1, <1>5, <1>6 DEF Inv, Parsed, ToReading
<1>9. Bounded'
  BY <1>2, <1>4, <1>5, <1>6, Types, BatchType DEF Inv, Bounded, Batch
<1> QED
  BY <1>3, <1>7, <1>8, <1>9 DEF Inv

\* EAGAIN, and the errors of write()
LEMMA WriteFailsInv == ASSUME Inv, WriteAgain \/ WriteError \/ WritePipe PROVE Inv'
<1> USE DEF WriteAgain, WriteError, WritePipe, client
<1>1. TypeOK'
  BY DEF Inv, TypeOK
<1>2. Incoming' = Incoming /\ Outgoing' = Outgoing /\ (Unfinished' <=> Unfinished)
  BY SameBuffers
<1>3. Flags' /\ Parsed'
  BY <1>2 DEF Inv, Flags, Parsed, Reading, Writing
<1>4. Bounded'
  BY <1>2 DEF Inv, Bounded
<1> QED
  BY <1>1, <1>3, <1>4 DEF Inv

LEMMA CheckInv == ASSUME Inv, Check \/ IdleClose PROVE Inv'
<1> USE DEF Check, IdleClose, client
<1>1. TypeOK'
  BY DEF Inv, TypeOK
<1>2. Incoming' = Incoming /\ Outgoing' = Outgoing /\ (Unfinished' <=> Unfinished)
  BY SameBuffers
<1>3. Flags' /\ Parsed'
  BY <1>2 DEF Inv, Flags, Parsed, Reading, Writing
<1>4. Bounded'
  BY <1>2 DEF Inv, Bounded
<1> QED
  BY <1>1, <1>3, <1>4 DEF Inv

LEMMA NextInv == Inv /\ [Next]_vars => Inv'
<1> SUFFICES ASSUME Inv, [Next]_vars PROVE Inv'
  OBVIOUS
<1>1. CASE Client \/ ResetArrives
  BY <1>1, ClientInv
<1>2. CASE Server
  BY <1>2, PollInv, ReadDataInv, ReadAgainInv, ServeRequestInv, ParseDoneInv,
     AfterReadInv, WriteSomeInv, WriteFailsInv, CheckInv DEF Server
<1>3. CASE IdleClose
  BY <1>3, CheckInv
<1>4. CASE Gone \/ UNCHANGED vars
  <2>1. UNCHANGED vars
    BY <1>4 DEF Gone
  <2>2. UNCHANGED <<kind, received, consumed, served, sent, want, ready, pc>>
    BY <2>1 DEF vars
  <2>3. TypeOK'
    BY <2>1 DEF Inv, TypeOK, vars
  <2> QED
    BY <2>2, <2>3, SameBuffers
       DEF Inv, Flags, Parsed, Bounded, Reading, Writing
<1> QED
  BY <1>1, <1>2, <1>3, <1>4 DEF Next

-----------------------------------------------------------------------------
(* The theorems.                                                           *)

\* The inductive invariant holds in every state of every connection.
THEOREM InvHolds == Spec => []Inv
BY InitInv, NextInv, PTL DEF Spec

\* However requests are cut into reads and responses into writes: a connection
\* in poll() reads with nothing to send or writes what it has to send,
\* handle_write() finds something to write, and no stream position overtakes
\* the one before it (see ReadOrWrite).
THEOREM OneDirection == Spec => []ReadOrWrite
<1>1. Inv => ReadOrWrite
  BY DEF Inv, Flags, Reading, Writing, TypeOK, ReadOrWrite
<1> QED
  BY <1>1, InvHolds, PTL

\* No complete request and no request to be rejected is left in incoming while
\* the server waits in poll(), for any number of requests per read().
THEOREM NothingStranded == Spec => []NoStrandedRequest
<1>1. Inv => NoStrandedRequest
  BY DEF Inv, Parsed, Unfinished, NoStrandedRequest
<1> QED
  BY <1>1, InvHolds, PTL

\* Whatever a client sends without reading its responses, the server buffers
\* one read() on top of an unfinished request, and the responses to it.
THEOREM BoundedBuffers == Spec => []BackPressure
<1>1. Inv => BackPressure
  <2> SUFFICES ASSUME Inv PROVE BackPressure
    OBVIOUS
  <2>1. Outgoing <= Batch * RespLen
    <3>1. CASE pc = "parse"
      <4>1. PICK k \in Nat : Outgoing = k * RespLen /\ k * ReqLen + Incoming <= OneRead
        BY <3>1 DEF Inv, Bounded
      <4>2. k * ReqLen \in Nat
        BY Lengths
      <4>3. k * ReqLen <= OneRead
        BY <4>1, <4>2, Types, Lengths DEF Inv
      <4>4. k <= Batch
        BY <4>3, QuotientBound, Lengths DEF Batch, OneRead
      <4> QED
        BY <4>1, <4>4, TimesMonotonic, BatchType, Lengths
    <3>2. CASE pc # "parse"
      BY <3>2 DEF Inv, Bounded
    <3> QED
      BY <3>1, <3>2
  <2> QED
    BY <2>1 DEF Inv, Bounded, OneRead, BackPressure
<1> QED
  BY <1>1, InvHolds, PTL

=============================================================================
