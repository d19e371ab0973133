----------------------------- MODULE EventLoop ------------------------------
(***************************************************************************)
(* The main loop of server/main.cc: poll() over the listening socket and   *)
(* the connections, accept, one handler per ready connection, then the     *)
(* idle timers (the list of module IdleList) and the TTL timers.           *)
(*                                                                         *)
(* The bytes of a connection are abstracted to the number of responses in  *)
(* its output buffer, and the commands it runs to their effect on the TTL  *)
(* timers; the kernel (poll, read, write, accept) is nondeterministic.     *)
(***************************************************************************)
EXTENDS Integers, FiniteSetsExt, IdleList

CONSTANTS Fds,          \* file descriptors accept() may return
          Keys,         \* keys of the database that may carry a TTL
          Ttls,         \* non-negative TTLs that PEXPIRE is given
          IdleTimeout,  \* k_idle_timeout_ms
          MaxWorks,     \* k_max_works
          Boot,         \* the monotonic clock when the server starts
          Int32,        \* 2^31: next_timer_ms() ends in a cast to int32_t
          MaxBatch,     \* bound: requests served by one handle_read()
          Null          \* a null Conn pointer

ASSUME EventLoopAssumption ==
    /\ Fds \subseteq Nat
    /\ Ttls \subseteq Nat
    /\ IdleTimeout \in Nat /\ MaxWorks \in Nat /\ MaxBatch \in Nat /\ Boot \in Nat
    /\ Int32 \in Nat \ {0} /\ IdleTimeout < Int32

idle_head == -1  \* the node of the list's head, which is no descriptor
Nodes     == Fds \cup {idle_head}

NoTtl   == -1   \* Entry::heap_idx = -1, the key is not in the heap
Forever == -1   \* a poll() without a timeout

Events  == {"IN", "OUT", "ERR", "HUP"}
Intents == {"read", "write", "close"}

\* struct Conn: the want_* flags, the output buffer and the idle timer
Conn == [want : SUBSET Intents, outgoing : Nat, last_active_ms : Nat]

ASSUME NullAssumption == Null \notin Conn

VARIABLES now,        \* the monotonic clock
          phase,      \* where the main loop is
          open,       \* descriptors the kernel has open (connections only)
          fd2conn,    \* g_data.fd2conn
          idle,       \* the ring of g_data.idle_head and the idle_nodes
          heap,       \* g_data.heap: when each key expires, or NoTtl
          listening,  \* revents of the listening socket
          poll_args,  \* events per descriptor; revents once poll() returned
          timeout_ms, \* the timeout that poll() is called with
          wake_at,    \* when the poll() in progress times out, or Forever
          now_ms,     \* the clock as read by next_timer_ms() for the poll() in
                      \* progress, or by process_timers()
          nworks      \* keys expired by this process_timers()

vars == <<now, phase, open, fd2conn, idle, heap, listening, poll_args, timeout_ms,
          wake_at, now_ms, nworks>>
connections == <<open, fd2conn, idle>>
polling     == <<listening, poll_args, timeout_ms, wake_at>>
timing      == <<now_ms, nworks>>

Live    == {fd \in Fds : fd2conn[fd] # Null}
Pending == {fd \in Fds : poll_args[fd] # {}}
Nothing == [fd \in Fds |-> {}]

Init ==
    /\ now = Boot
    /\ phase = "prepare"
    /\ open = {}
    /\ fd2conn = [fd \in Fds |-> Null]
    /\ idle = Detached(Nodes)
    /\ heap = [k \in Keys |-> NoTtl]
    /\ listening = FALSE
    /\ poll_args = Nothing
    /\ timeout_ms = -1 /\ wake_at = Forever
    /\ now_ms = 0
    /\ nworks = 0

\* the clock moves at any point of the loop
Tick ==
    /\ now' = now + 1
    /\ UNCHANGED <<phase, connections, heap, polling, timing>>

-----------------------------------------------------------------------------
(* Connections.                                                            *)

\* a connection that was ready moves to the end of the idle list
MoveToBack(list, fd) == insert_back(detach(list, fd), idle_head, fd)

\* close(), the map entry, and the node of the idle list
conn_destroy(fd, list) ==
    /\ open' = open \ {fd}
    /\ fd2conn' = [fd2conn EXCEPT ![fd] = Null]
    /\ idle' = detach(list, fd)

Closing(c) == [c EXCEPT !.want = @ \cup {"close"}]

\* write() returned rv > 0
Sent(c, rv) ==
    LET left == c.outgoing - rv
    IN  [c EXCEPT !.outgoing = left,
                  !.want = IF left = 0 THEN (@ \cup {"read"}) \ {"write"} ELSE @]

\* handle_write(): EAGAIN, an error, or rv > 0 bytes taken by the kernel
handle_write(c) == {c, Closing(c)} \cup {Sent(c, rv) : rv \in 1 .. c.outgoing}

\* the end of handle_read(): a connection with output turns to writing, and
\* writes at once
Respond(c) ==
    IF c.outgoing > 0
    THEN handle_write([c EXCEPT !.want = (@ \ {"read"}) \cup {"write"}])
    ELSE {c}

\* n requests were served; bad is {"close"} when the next one is malformed or
\* too long
Served(c, n, bad) == [c EXCEPT !.outgoing = @ + n, !.want = @ \cup bad]

\* handle_read(): EAGAIN; an error or EOF; or data that completes n requests,
\* and perhaps a request that is malformed or too long. Each result comes
\* with the number of requests that were served.
handle_read(c) ==
    {<<c, 0>>, <<Closing(c), 0>>} \cup
    UNION {{<<d, n>> : d \in Respond(Served(c, n, bad))} :
           n \in 0 .. MaxBatch, bad \in {{}, {"close"}}}

\* what a command may do to the TTL of a key: nothing, remove it (del, or
\* pexpire with a negative TTL), set it (pexpire)
TtlAfter(k) == {heap[k], NoTtl} \cup {now + ttl : ttl \in Ttls}

\* what n commands do to the TTL timers
Commands(n) ==
    /\ heap' \in [Keys -> UNION {TtlAfter(k) : k \in Keys}]
    /\ \A k \in Keys : heap'[k] \in TtlAfter(k)
    /\ Cardinality({k \in Keys : heap'[k] # heap[k]}) <= n

-----------------------------------------------------------------------------
(* poll().                                                                 *)

\* (mutation) POLLIN is asked for whatever the connection wants
PollEventsAlwaysIn(c) ==
    {"ERR", "IN"} \cup (IF "write" \in c.want THEN {"OUT"} ELSE {})

PollEvents(c) ==
    {"ERR"} \cup (IF "read" \in c.want THEN {"IN"} ELSE {})
            \cup (IF "write" \in c.want THEN {"OUT"} ELSE {})

\* a 64-bit difference converted to int32_t
ToInt32(n) ==
    LET m == n % (2 * Int32) IN IF m >= Int32 THEN m - 2 * Int32 ELSE m

\* the idle timer of the connection at a node, none for the head
TimerAt(x) == IF x = idle_head THEN {} ELSE {fd2conn[x].last_active_ms + IdleTimeout}
TtlTimers  == {heap[k] : k \in {l \in Keys : heap[l] # NoTtl}}

First == idle[idle_head].next

\* (mutations) the connection that was active last; no idle timer
DeadlinesOfLast == TimerAt(idle[idle_head].prev) \cup TtlTimers
DeadlinesOfKeys == TtlTimers

\* the first idle timer, if there is a connection, and the TTL timers; the
\* code reads the least of the latter from heap[0]
Deadlines == TimerAt(First) \cup TtlTimers

next_timer_ms ==
    IF Deadlines = {} THEN -1
    ELSE LET next_ms == Min(Deadlines)
         IN  IF next_ms <= now THEN 0 ELSE ToInt32(next_ms - now)

\* the top of the loop: the arguments of poll(), and its timeout
PreparePoll ==
    /\ phase = "prepare"
    /\ poll_args' = [fd \in Fds |-> IF fd2conn[fd] = Null THEN {}
                                    ELSE PollEvents(fd2conn[fd])]
    /\ now_ms' = now /\ nworks' = 0   \* process_timers() has returned
    /\ timeout_ms' = next_timer_ms
    /\ phase' = "call"
    /\ UNCHANGED <<now, connections, heap, listening, wake_at>>

\* the call of poll(), which counts the timeout from the time it is called at
EnterPoll ==
    /\ phase = "call"
    /\ wake_at' = IF timeout_ms < 0 THEN Forever ELSE now + timeout_ms
    /\ phase' = "polling"
    /\ UNCHANGED <<now, connections, heap, listening, poll_args, timeout_ms, timing>>

TimedOut == wake_at # Forever /\ now >= wake_at

PollEnds == timeout_ms' = -1 /\ wake_at' = Forever /\ now_ms' = 0

\* what poll() may report of a descriptor: what was asked for, and a hangup
Reports(fd) == IF poll_args[fd] = {} THEN {} ELSE poll_args[fd] \cup {"HUP"}

\* poll() returns because something is ready or because it timed out
PollReturn ==
    /\ phase = "polling"
    /\ listening' \in BOOLEAN
    /\ poll_args' \in [Fds -> SUBSET Events]
    /\ \A fd \in Fds : poll_args'[fd] \subseteq Reports(fd)
    /\ TimedOut \/ listening' \/ poll_args' # Nothing
    /\ PollEnds
    /\ phase' = "accept"
    /\ UNCHANGED <<now, connections, heap, nworks>>

\* EINTR: the loop starts over, without a look at the timers
PollInterrupted ==
    /\ phase = "polling"
    /\ PollEnds
    /\ poll_args' = Nothing
    /\ phase' = "prepare"
    /\ UNCHANGED <<now, connections, heap, listening, nworks>>

-----------------------------------------------------------------------------
(* The handlers.                                                           *)

NewConn == [want |-> {"read"}, outgoing |-> 0, last_active_ms |-> now]

\* accept() returns the lowest descriptor that is not open
Accept(fd) ==
    /\ fd = Min(Fds \ open)
    /\ open' = open \cup {fd}
    /\ fd2conn' = [fd2conn EXCEPT ![fd] = NewConn]
    /\ idle' = insert_back(idle, idle_head, fd)

handle_accept ==
    /\ phase = "accept"
    /\ \/ listening /\ \E fd \in Fds \ open : Accept(fd)
       \/ UNCHANGED connections         \* not ready, or accept() failed
    /\ listening' = FALSE
    /\ phase' = "conns"
    /\ UNCHANGED <<now, heap, poll_args, timeout_ms, wake_at, timing>>

\* one turn of the loop over poll_args, in the order of the descriptors
HandleConn(fd) ==
    LET c     == [fd2conn[fd] EXCEPT !.last_active_ms = now]
        moved == MoveToBack(idle, fd)
        ready == poll_args[fd]
    IN  /\ phase = "conns"
        /\ fd \in Pending /\ \A other \in Pending : fd <= other
        /\ \E r \in IF "IN" \in ready THEN handle_read(c) ELSE {<<c, 0>>} :
           \E d \in IF "OUT" \in ready THEN handle_write(r[1]) ELSE {r[1]} :
              /\ Commands(r[2])
              /\ IF "ERR" \in ready \/ "close" \in d.want
                 THEN conn_destroy(fd, moved)
                 ELSE /\ fd2conn' = [fd2conn EXCEPT ![fd] = d]
                      /\ idle' = moved
                      /\ UNCHANGED open
        /\ poll_args' = [poll_args EXCEPT ![fd] = {}]
        /\ UNCHANGED <<now, phase, listening, timeout_ms, wake_at, timing>>

-----------------------------------------------------------------------------
(* process_timers().                                                       *)

BeginTimers ==
    /\ phase = "conns" /\ Pending = {}
    /\ now_ms' = now
    /\ phase' = "idle"
    /\ UNCHANGED <<now, connections, heap, polling, nworks>>

IdleExpired(fd) == fd2conn[fd].last_active_ms + IdleTimeout < now_ms

\* one turn of the loop over the idle list, which stops at the first
\* connection that is not expired
ReapIdle ==
    /\ phase = "idle"
    /\ ~empty(idle, idle_head) /\ IdleExpired(First)
    /\ conn_destroy(First, idle)
    /\ UNCHANGED <<now, phase, heap, polling, timing>>

ReapIdleDone ==
    /\ phase = "idle"
    /\ ~empty(idle, idle_head) => ~IdleExpired(First)
    /\ nworks' = 0
    /\ phase' = "ttl"
    /\ UNCHANGED <<now, connections, heap, polling, now_ms>>

\* (mutation) the heap has the latest timer on top
TopsLatest == {k \in Keys : /\ heap[k] # NoTtl
                            /\ \A l \in Keys : heap[l] # NoTtl => heap[k] >= heap[l]}

\* the keys that heap[0] may stand for
Tops == {k \in Keys : /\ heap[k] # NoTtl
                      /\ \A l \in Keys : heap[l] # NoTtl => heap[k] <= heap[l]}

\* one turn of the loop over the heap; nworks++ >= k_max_works ends it
ExpireKey ==
    /\ phase = "ttl"
    /\ \E k \in Tops :
          /\ heap[k] < now_ms
          /\ heap' = [heap EXCEPT ![k] = NoTtl]
    /\ nworks' = nworks + 1
    /\ phase' = IF nworks >= MaxWorks THEN "prepare" ELSE "ttl"
    /\ UNCHANGED <<now, connections, polling, now_ms>>

ExpireDone ==
    /\ phase = "ttl"
    /\ \A k \in Tops : heap[k] >= now_ms
    /\ phase' = "prepare"
    /\ UNCHANGED <<now, connections, heap, polling, timing>>

-----------------------------------------------------------------------------
HandleConns == \E fd \in Fds : HandleConn(fd)

Loop == \/ PreparePoll \/ EnterPoll \/ handle_accept \/ HandleConns
        \/ BeginTimers \/ ReapIdle \/ ReapIdleDone \/ ExpireKey \/ ExpireDone

Next == Tick \/ Loop \/ PollReturn \/ PollInterrupted

Spec == Init /\ [][Next]_vars

(***************************************************************************)
(* The clock advances, the loop's own code runs, and a poll() that is due  *)
(* returns: strongly fair, because signals do not interrupt every poll().  *)
(* Nothing is assumed about clients: sockets may never become ready.       *)
(***************************************************************************)
LoopFairness == WF_vars(Loop) /\ SF_vars(TimedOut /\ PollReturn)

FairSpec == Spec /\ WF_vars(Tick) /\ LoopFairness

-----------------------------------------------------------------------------
(* Properties.                                                             *)

\* Every variable stays within the values its C++ counterpart can take; in
\* particular no output buffer gives up more than it holds.
TypeOK ==
    /\ now \in Nat
    /\ phase \in {"prepare", "call", "polling", "accept", "conns", "idle", "ttl"}
    /\ open \in SUBSET Fds
    /\ fd2conn \in [Fds -> Conn \cup {Null}]
    /\ idle \in [Nodes -> [prev : Nodes, next : Nodes]]
    /\ heap \in [Keys -> Nat \cup {NoTtl}]
    /\ listening \in BOOLEAN
    /\ poll_args \in [Fds -> SUBSET Events]
    /\ timeout_ms \in Int /\ wake_at \in Nat \cup {Forever}
    /\ now_ms \in Nat
    /\ nworks \in Nat

\* The kernel's descriptors, the map and the idle list agree: no descriptor
\* leaks or is closed twice, accept() never finds its slot of fd2conn taken
\* (the assert in handle_accept), and the idle list is a ring, in both
\* directions, of the connections and never of a destroyed one. All variables
\* have their types.
ConnectionsAgree ==
    /\ TypeOK
    /\ open = Live
    /\ IsRing(idle, idle_head, Live)

\* The events still to be handled belong to a connection that exists and that
\* wants them: the pointer taken from fd2conn is never null, and the asserts
\* before handle_read and handle_write hold, whatever was accepted or closed
\* since poll() returned.
HandledEventsAreWanted ==
    \A fd \in Pending :
        /\ fd \in Live
        /\ "IN" \in poll_args[fd] => "read" \in fd2conn[fd].want
        /\ "OUT" \in poll_args[fd] => "write" \in fd2conn[fd].want

\* a timer at d ends the poll(), counted from when next_timer_ms() read the clock
DueAt(d) == timeout_ms >= 0 /\ (now_ms + timeout_ms <= d \/ timeout_ms = 0)

\* poll() never sleeps past a timer: of any connection, or of any key whose TTL
\* fits the int32_t timeout. It returns late only by the time that passed
\* between next_timer_ms() and the call.
WakesInTime ==
    phase \in {"call", "polling"} =>
        /\ \A fd \in Live : DueAt(fd2conn[fd].last_active_ms + IdleTimeout)
        /\ \A k \in Keys : heap[k] # NoTtl => DueAt(heap[k])

\* "no timers, no timeouts" (main.cc:683): poll() blocks without a timeout only
\* when there is no timer.
NoTimersNoTimeouts ==
    phase = "polling" /\ wake_at = Forever =>
        Live = {} /\ \A k \in Keys : heap[k] = NoTtl

IdleOverdue(fd) == fd \in Live /\ fd2conn[fd].last_active_ms + IdleTimeout < now
TtlOverdue(k)   == heap[k] # NoTtl /\ heap[k] < now

\* A connection that has been silent for longer than k_idle_timeout_ms is closed
\* or becomes active again, although nothing makes poll() return but its
\* timeout, and whatever the other connections do.
IdleConnectionsClosed == \A fd \in Fds : IdleOverdue(fd) ~> ~IdleOverdue(fd)

\* A key that has outlived its TTL is removed, or its TTL is set anew, even when
\* more keys expire at once than one process_timers() may remove, and however
\* many others keep expiring.
KeysExpire == \A k \in Keys : TtlOverdue(k) ~> ~TtlOverdue(k)

=============================================================================
