-------------------------------- MODULE Wire --------------------------------
(***************************************************************************)
(* The messages between client and server, byte by byte: a request (4-byte *)
(* length, number of strings, then each string with its length), and a     *)
(* response (4-byte length, then tagged frames). Both ends write through   *)
(* their own code and read through the other's.                            *)
(*                                                                         *)
(* A byte is a number below Radix, a uint32_t takes W32 of them and an     *)
(* int64_t or a double W64, little endian. A double is its bit pattern.    *)
(* A reader gives the set of its results, each a pair of a value and of    *)
(* the position behind it: one result, or none when it returns an error.   *)
(***************************************************************************)
EXTENDS Integers, SequencesExt, FiniteSetsExt

CONSTANTS Radix,      \* 256: the number of values of a byte
          W32,        \* 4: bytes of a uint32_t
          W64,        \* 8: bytes of an int64_t or a double
          MaxMsg,     \* k_max_msg of the server
          MaxArgs,    \* k_max_args
          TooBigText  \* the message of ERR_TOO_BIG

Bytes == 0 .. Radix - 1

ASSUME WireAssumption ==
    /\ Radix \in Nat /\ Radix > 5
    /\ W32 \in Nat \ {0} /\ W64 \in Nat \ {0}
    /\ MaxArgs \in Nat
    /\ TooBigText \in Seq(Bytes)
    /\ MaxMsg \in 1 + 2 * W32 + Len(TooBigText) .. Radix ^ W32 - 1

\* the bytes of an integer, and the integer of n bytes from position cur on
Raw(v, w) == [i \in 1 .. w |-> (v \div Radix ^ (i - 1)) % Radix]
UInt(data, cur, w) == MapThenSumSet(LAMBDA i : data[cur + i] * Radix ^ (i - 1), 1 .. w)
Signed(v, w) == IF 2 * v >= Radix ^ w THEN v - Radix ^ w ELSE v

\* memcpy(&out[cur], v, 4)
Poke(out, cur, v) == [i \in DOMAIN out |-> IF i \in cur + 1 .. cur + W32
                                           THEN Raw(v, W32)[i - cur] ELSE out[i]]

-----------------------------------------------------------------------------
(* Requests.                                                               *)

Text(s) == Raw(Len(s), W32) \o s

\* (mutation) the number of strings is not counted
RequestSizeOfStrings(cmd) ==
    MapThenSumSet(LAMBDA i : W32 + Len(cmd[i]), DOMAIN cmd)

RequestSize(cmd) == W32 + MapThenSumSet(LAMBDA i : W32 + Len(cmd[i]), DOMAIN cmd)

\* what send_req() leaves in wbuf
Request(cmd) ==
    Raw(RequestSize(cmd), W32) \o Raw(Len(cmd), W32)
        \o FlattenSeq([i \in DOMAIN cmd |-> Text(cmd[i])])

read_u32(data, cur) ==
    IF cur + W32 > Len(data) THEN {} ELSE {<<UInt(data, cur, W32), cur + W32>>}

read_str(data, cur, n) ==
    IF cur + n > Len(data) THEN {} ELSE {<<SubSeq(data, cur + 1, cur + n), cur + n>>}

ReadText(data, cur) == UNION {read_str(data, l[2], l[1]) : l \in read_u32(data, cur)}

\* the loop of parse_req(): the strings read so far, from position cur on
Strings(data, cur) ==
    LET out[k \in Nat] ==
            IF k = 0 THEN {<<<<>>, cur>>}
            ELSE UNION {{<<Append(p[1], s[1]), s[2]>> : s \in ReadText(data, p[2])} :
                        p \in out[k - 1]}
    IN  out

AtEnd(data, cur) == cur = Len(data)

\* the commands a message stands for: none when it is rejected
parse_req(data) ==
    {p[1] : p \in {q \in UNION {Strings(data, n[2])[n[1]] :
                                n \in {m \in read_u32(data, 0) : m[1] <= MaxArgs}} :
                   AtEnd(data, q[2])}}

-----------------------------------------------------------------------------
(* Responses: a response is the sequence of its frames.                    *)

TAG_NIL    == 0
TAG_ERROR  == 1
TAG_STRING == 2
TAG_INT64  == 3
TAG_DOUBLE == 4
TAG_ARRAY  == 5

Nil            == <<"nil">>
Error(code, s) == <<"error", code, s>>
String(s)      == <<"string", s>>
Int64(v)       == <<"int64", v>>
Double(v)      == <<"double", v>>
Array(n)       == <<"array", n>>   \* its n elements are the frames that follow
ArrayEnd       == <<"end">>        \* printed by the client after them

TooBig == Error(2, TooBigText)     \* ERR_TOO_BIG

write_frame(f) ==
    CASE f[1] = "nil"    -> <<TAG_NIL>>
      [] f[1] = "error"  -> <<TAG_ERROR>> \o Raw(f[2], W32) \o Text(f[3])
      [] f[1] = "string" -> <<TAG_STRING>> \o Text(f[2])
      [] f[1] = "int64"  -> <<TAG_INT64>> \o Raw(f[2], W64)
      [] f[1] = "double" -> <<TAG_DOUBLE>> \o Raw(f[2], W64)
      [] f[1] = "array"  -> <<TAG_ARRAY>> \o Raw(f[2], W32)

\* the frames as the handlers write them: a count that is known (do_keys), or
\* one that is filled in after the elements (do_zquery)
Frames(reply)  == FlattenSeq([i \in DOMAIN reply |-> write_frame(reply[i])])
Counted(reply) == Poke(Frames(<<Array(0)>> \o Tail(reply)), 1, Len(reply) - 1)

response_begin(out) == out \o Raw(0, W32)

response_size(out, header) == Len(out) - header - W32

\* (mutation) the error is appended to the response that is too big
KeepBody(out, header) == out

DropBody(out, header) == SubSeq(out, 1, header + W32)

response_end(out, header) ==
    LET end == IF response_size(out, header) <= MaxMsg THEN out
               ELSE DropBody(out, header) \o write_frame(TooBig)
    IN  Poke(end, header, response_size(end, header))

\* the output buffer after one request
Respond(outgoing, body) == response_end(response_begin(outgoing) \o body, Len(outgoing))

\* the bytes of an int64_t or a double from position cur on
Read64(data, cur) ==
    IF cur + W64 > Len(data) THEN {} ELSE {<<UInt(data, cur, W64), cur + W64>>}

\* (mutation) the bytes of an error's length are not skipped
ErrorTextInPlace(data, cur) ==
    {<<s[1], s[2] - W32>> : s \in ReadText(data, cur)}

ErrorText(data, cur) == ReadText(data, cur)

\* what the client prints for the bytes of a response; what it prints before
\* it finds a response bad is left out
print_response(data) ==
    LET Frame(f, cur) == {<<<<f>>, cur>>}
        at[cur \in 0 .. Len(data)] ==
            IF cur = Len(data) THEN {}
            ELSE LET tag  == data[cur + 1]
                     body == cur + 1
                 IN  CASE tag = TAG_NIL -> Frame(Nil, body)
                       [] tag = TAG_ERROR ->
                            UNION {UNION {Frame(Error(Signed(c[1], W32), s[1]), s[2]) :
                                          s \in ErrorText(data, c[2])} :
                                   c \in read_u32(data, body)}
                       [] tag = TAG_STRING ->
                            UNION {Frame(String(s[1]), s[2]) : s \in ReadText(data, body)}
                       [] tag = TAG_INT64 ->
                            UNION {Frame(Int64(Signed(v[1], W64)), v[2]) :
                                   v \in Read64(data, body)}
                       [] tag = TAG_DOUBLE ->
                            UNION {Frame(Double(v[1]), v[2]) : v \in Read64(data, body)}
                       [] tag = TAG_ARRAY ->
                            UNION {LET elems[k \in Nat] ==
                                           IF k = 0 THEN Frame(Array(n[1]), n[2])
                                           ELSE UNION {{<<p[1] \o e[1], e[2]>> :
                                                        e \in at[p[2]]} :
                                                       p \in elems[k - 1]}
                                   IN  {<<Append(p[1], ArrayEnd), p[2]>> :
                                        p \in elems[n[1]]} :
                                   n \in read_u32(data, body)}
                       [] OTHER -> {}
    IN  at[0]

=============================================================================
