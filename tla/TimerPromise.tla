---------------------------- MODULE TimerPromise ----------------------------
(***************************************************************************)
(* What setTimeout(f, 0), setImmediate(f) and clearTimeout(id) promise to  *)
(* a script, without queues, hashes and hosts: a timer that is armed is    *)
(* called once, unless it is cleared first; timers are called in the order *)
(* in which they were set; a cleared timer is never called.                *)
(***************************************************************************)
EXTENDS Naturals, Sequences

VARIABLES next,     \* the number of the next timer
          armed,    \* the timers that are set and not called or cleared yet
          calls     \* the timers whose callback was called, in order

vars == <<next, armed, calls>>

Init == next = 0 /\ armed = {} /\ calls = <<>>

Set ==
    /\ armed' = armed \cup {next}
    /\ next' = next + 1
    /\ UNCHANGED calls

(* A call of setTimeout() that throws may use up a number.  *)
SetThrows ==
    /\ next' = next + 1
    /\ UNCHANGED <<armed, calls>>

Clear ==
    \E n \in armed :
        /\ armed' = armed \ {n}
        /\ UNCHANGED <<next, calls>>

Oldest(n) == n \in armed /\ \A m \in armed : n <= m

Call ==
    \E n \in armed :
        /\ Oldest(n)
        /\ armed' = armed \ {n}
        /\ calls' = Append(calls, n)
        /\ UNCHANGED next

Next == Set \/ SetThrows \/ Clear \/ Call

Spec == Init /\ [][Next]_vars

FairSpec == Spec /\ WF_vars(Call)

=============================================================================
