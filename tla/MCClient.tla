------------------------------ MODULE MCClient ------------------------------
(***************************************************************************)
(* Bytes of radix 6, so that a uint32_t has two and counts to 35.          *)
(***************************************************************************)
EXTENDS Client

Long == <<1, 2, 3>>

\* no string, an empty one, several; one command as long as the client allows,
\* and one that is longer
SomeCommands == {<<>>, <<<<4>>>>, <<<<5, 0>>, <<>>>>, <<Long, Long>>, <<Long, <<1, 2, 3, 4>>>>}

\* one reply of each kind; arrays that fit, that only the server allows, and
\* that it replaces by an error
SomeReplies ==
    {<<Nil>>, <<Error(4, <<3>>)>>, <<String(<<>>)>>, <<String(<<1, 0>>)>>,
     <<Int64(-2)>>, <<Double(7)>>, <<Array(0)>>,
     <<Array(2), String(<<5>>), Double(40)>>,
     <<Array(3), String(<<1>>), String(<<2>>), String(<<3>>)>>,
     <<Array(4), String(<<1>>), String(<<2>>), String(<<3>>), String(<<4>>)>>}

\* every message of up to eight bytes below 3: two strings and more
SomeMessages == BoundedSeq(0 .. 2, 8)

SomeTexts == BoundedSeq(0 .. 2, 2)

\* nothing, or a response that is still to be written
SomeBefore == {<<>>, Respond(<<>>, Frames(<<Int64(5)>>))}

=============================================================================
