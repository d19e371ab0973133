---------------------------- MODULE MCEventLoop -----------------------------
(***************************************************************************)
(* The small instance of EventLoop, with a clock that never stops. The     *)
(* loop only compares and subtracts times, so that the same amount may be  *)
(* taken from all of them: instead of the clock moving on, the times that  *)
(* matter move back, and the clock stays at Boot. A timer that Boot is     *)
(* ahead of by the whole window is at 0 and stays there: how late it is    *)
(* makes no difference any more, only that it is late, and earlier than    *)
(* the others.                                                             *)
(***************************************************************************)
EXTENDS EventLoop

CONSTANT Delay   \* bound: the time between next_timer_ms() and poll()

\* the window is wider than the longest poll(), so that timers are late in it
ASSUME WindowAssumption ==
    Delay \in Nat /\ \A t \in Ttls \cup {IdleTimeout} : t + Delay < Boot

\* the loop still uses what it read from the clock
Reading == phase \in {"call", "polling", "idle", "ttl"}

\* no time is 0 yet
Exact ==
    /\ \A fd \in Live : fd2conn[fd].last_active_ms > 0
    /\ \A k \in Keys : heap[k] # 0
    /\ Reading => now_ms > 0

\* what is 0 is late, and remains so, and remains earlier than what is not 0
KeepsOrder ==
    /\ \A k, l \in Keys : heap[k] = 0 => heap[l] # 1
    /\ Reading => now_ms > IdleTimeout + 1

Earlier(t) == IF t > 0 THEN t - 1 ELSE t

\* time passes, for at most Delay between next_timer_ms() and poll()
Clock ==
    /\ Exact \/ KeepsOrder
    /\ phase = "call" => now < now_ms + Delay
    /\ fd2conn' = [fd \in Fds |->
                      IF fd2conn[fd] = Null THEN Null
                      ELSE [fd2conn[fd] EXCEPT !.last_active_ms = Earlier(@)]]
    /\ heap' = [k \in Keys |-> Earlier(heap[k])]
    /\ wake_at' = Earlier(wake_at)
    /\ now_ms' = Earlier(now_ms)
    /\ UNCHANGED <<now, phase, open, idle, listening, poll_args, timeout_ms, nworks>>

WindowNext == Clock \/ Loop \/ PollReturn \/ PollInterrupted

WindowSpec == Init /\ [][WindowNext]_vars

FairWindowSpec == WindowSpec /\ WF_vars(Clock) /\ LoopFairness

=============================================================================
