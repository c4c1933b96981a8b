-------------------------- MODULE BlockingChannel --------------------------
(***************************************************************************)
(* What mqtt::thread_queue promises its callers, without condition         *)
(* variables: a FIFO of bounded capacity that can be closed, in which a    *)
(* blocked call is completed by whoever makes it possible.  Nobody is      *)
(* notified here: the fairness condition says outright that a call which   *)
(* can complete does not stay blocked.                                     *)
(***************************************************************************)
EXTENDS Naturals, Sequences

CONSTANTS Threads, Values, NoValue, Caps, InitCap

VARIABLES
    items,      \* the items in the channel, oldest first
    cap,        \* how many it takes
    closed,     \* it takes no more
    op,         \* the call each thread is blocked in
    val,        \* the item a blocked put carries
    timed,      \* the threads whose blocked call has a deadline
    ret         \* the result of each thread's last call

cvars == <<items, cap, closed, op, val, timed, ret>>

Init ==
    /\ items = <<>>
    /\ cap = IF InitCap < 1 THEN 1 ELSE InitCap
    /\ closed = FALSE
    /\ op = [t \in Threads |-> "none"]
    /\ val = [t \in Threads |-> NoValue]
    /\ timed = {}
    /\ ret = [t \in Threads |-> "none"]

\* t's call returns r; it may have been blocked or not.
Done(t, r) ==
    /\ op' = [op EXCEPT ![t] = "none"]
    /\ val' = [val EXCEPT ![t] = NoValue]
    /\ timed' = timed \ {t}
    /\ ret' = [ret EXCEPT ![t] = r]
    /\ UNCHANGED <<cap, closed>>

Accept(t, v) ==
    /\ ~closed /\ Len(items) < cap
    /\ items' = Append(items, v)
    /\ Done(t, "ok")

Deliver(t) ==
    /\ items # <<>>
    /\ items' = Tail(items)
    /\ Done(t, Head(items))

\* No item moves: the channel is closed to this call for good.
RefusePut(t) == closed /\ Done(t, "none") /\ UNCHANGED items
RefuseGet(t) == closed /\ items = <<>> /\ Done(t, "none") /\ UNCHANGED items

\* No item moves: the channel is full, or empty, and the call will not wait.
GiveUpPut(t) == Len(items) >= cap /\ Done(t, "none") /\ UNCHANGED items
GiveUpGet(t) == items = <<>> /\ Done(t, "none") /\ UNCHANGED items

Block(t, o, v) ==
    /\ op' = [op EXCEPT ![t] = o]
    /\ val' = [val EXCEPT ![t] = v]
    /\ ret' = [ret EXCEPT ![t] = "running"]
    /\ timed' \in {timed, timed \union {t}}
    /\ UNCHANGED <<items, cap, closed>>

\* Calls that return at once, or block because they cannot.
Call(t) ==
    /\ op[t] = "none"
    /\ \/ \E v \in Values : \/ Accept(t, v)
                            \/ ~closed /\ Len(items) >= cap /\ Block(t, "put", v)
       \/ RefusePut(t) \/ GiveUpPut(t)
       \/ Deliver(t) \/ RefuseGet(t) \/ GiveUpGet(t)
       \/ ~closed /\ items = <<>> /\ Block(t, "get", NoValue)

\* Blocked calls that can now complete.
CompletePut(t) == op[t] = "put" /\ (Accept(t, val[t]) \/ RefusePut(t))
CompleteGet(t) == op[t] = "get" /\ (Deliver(t) \/ RefuseGet(t))

\* Blocked calls that run out of time: only those that have a deadline.
TimeOut(t) ==
    /\ t \in timed
    /\ \/ op[t] = "put" /\ GiveUpPut(t)
       \/ op[t] = "get" /\ GiveUpGet(t)

Resize ==
    /\ \E n \in Caps : cap' = IF n < 1 THEN 1 ELSE n
    /\ UNCHANGED <<items, closed, op, val, timed, ret>>

Shut == closed' = TRUE /\ UNCHANGED <<items, cap, op, val, timed, ret>>

Drop == items' = <<>> /\ UNCHANGED <<cap, closed, op, val, timed, ret>>

Next ==
    \/ \E t \in Threads : Call(t) \/ CompletePut(t) \/ CompleteGet(t) \/ TimeOut(t)
    \/ Resize \/ Shut \/ Drop

Safety == Init /\ [][Next]_cvars

\* While calls can complete, calls do complete; once the channel is closed,
\* every single one does; and a call with a deadline always returns.
Progress ==
    /\ WF_cvars(\E t \in Threads : CompletePut(t))
    /\ WF_cvars(\E t \in Threads : CompleteGet(t))
    /\ \A t \in Threads :
          /\ WF_cvars(closed /\ (CompletePut(t) \/ CompleteGet(t)))
          /\ WF_cvars(t \in timed /\ (CompletePut(t) \/ CompleteGet(t) \/ TimeOut(t)))

Spec == Safety /\ Progress

=============================================================================
