-------------------------------- MODULE Shell --------------------------------
(***************************************************************************)
(* The command line shell: njs_process_script() of njs_shell.c runs one    *)
(* script (a file, the argument of -c or a line typed at the prompt) and   *)
(* then calls its timers, until none is left.  Timers are the events of    *)
(* module VMEvents; their host events are the njs_ev_t of the console,     *)
(* which it keeps in a hash and in a queue of its own.                     *)
(*                                                                         *)
(* A JavaScript frame (the script, or the callback of an event) is an      *)
(* arbitrary sequence of calls of setTimeout(), setImmediate() and         *)
(* clearTimeout(), exceptions thrown and exceptions caught.                *)
(***************************************************************************)
EXTENDS VMEvents

CONSTANTS MaxEvents,    \* bound on the number of timers ever set
          MaxScripts    \* bound on the number of scripts run by one shell

ASSUME BoundsAssumption == MaxEvents \in Nat /\ MaxScripts \in Nat

VARIABLES vm,           \* the event table of console->vm
          console,      \* events: console->events, by vm_event;
                        \* posted_events: console->posted_events
          pc,           \* where njs_process_script() and its callees are
          frame,        \* what the running JavaScript frame is
          exception,    \* the running frame is unwinding an exception
          ret,          \* the variable ret of njs_process_script()
          scripts,      \* the number of scripts started
          calls         \* the events whose callback was called, in order

vars == <<vm, console, pc, frame, exception, ret, scripts, calls>>

control == <<pc, frame, ret, scripts, calls>>

PCs == {"prompt", "js", "loop", "process_events", "run"}

(* njs_console_init().  *)
NewConsole == [events |-> {}, posted_events |-> <<>>]

Init ==
    /\ vm = NewVM
    /\ console = NewConsole
    /\ pc = "prompt"
    /\ frame = "script"
    /\ exception = FALSE
    /\ ret = "ok"
    /\ scripts = 0
    /\ calls = <<>>

----------------------------------------------------------------------------
ConsoleSetTimerAtHead(c, e) ==                                  \* mutant
    [events |-> c.events \cup {e}, posted_events |-> <<e>> \o c.posted_events]

(* njs_console_set_timer() with delay 0.  *)
ConsoleSetTimer(c, e) ==
    [events |-> c.events \cup {e}, posted_events |-> Append(c.posted_events, e)]

(* njs_console_clear_timer(): link.prev is NULL once njs_process_events()  *)
(* has taken the event out of the queue.                                   *)
ConsoleClearTimer(c, e) ==
    [events        |-> c.events \ {e},
     posted_events |-> IF e \in Elems(c.posted_events)
                       THEN Unlink(c.posted_events, e) ELSE c.posted_events]

(* The console after the VM deleted event e of the table t.  *)
Destructor(c, t, e) == IF Released(t, e) THEN ConsoleClearTimer(c, e) ELSE c

----------------------------------------------------------------------------
(* What a JavaScript frame does.  *)

InJS == pc = "js" /\ ~exception

(* njs_set_timer(), for setImmediate() and for setTimeout() with a zero or *)
(* absent delay: the host's timer comes first, then the event.             *)
SetTimer ==
    /\ InJS
    /\ vm.event_id < MaxEvents
    /\ console' = ConsoleSetTimer(console, vm.event_id)
    /\ vm' = AddEvent(vm, TRUE, TRUE)
    /\ UNCHANGED <<control, exception>>

(* njs_set_timer() that throws: no function was passed, memory ran out, or *)
(* the console refused the timer (it has no asynchronous ones, so that is  *)
(* every delay other than 0).                                              *)
SetTimerThrows ==
    /\ InJS
    /\ exception' = TRUE
    /\ UNCHANGED <<vm, console, control>>

(* njs_set_timer() when the event cannot be inserted in the hash of the    *)
(* VM: the host's timer is set and cleared again.                          *)
AddEventThrows ==
    /\ InJS
    /\ vm.event_id < MaxEvents
    /\ console' = ConsoleClearTimer(ConsoleSetTimer(console, vm.event_id),
                                    vm.event_id)
    /\ vm' = AddEventFails(vm)
    /\ exception' = TRUE
    /\ UNCHANGED control

(* njs_clear_timeout() of a number that is the id of a waiting event; with *)
(* any other argument it does nothing.                                     *)
ClearTimeout ==
    /\ InJS
    /\ \E e \in vm.events_hash :
          /\ vm' = DelEvent(vm, e)
          /\ console' = Destructor(console, vm, e)
    /\ UNCHANGED <<control, exception>>

Throw ==
    /\ InJS
    /\ exception' = TRUE
    /\ UNCHANGED <<vm, console, control>>

Catch ==
    /\ pc = "js" /\ exception
    /\ exception' = FALSE
    /\ UNCHANGED <<vm, console, control>>

EndFrameStopsOnError ==                                         \* mutant
    /\ pc = "js"
    /\ ret' = IF exception THEN "error" ELSE "ok"
    /\ pc' = IF exception THEN "prompt"
             ELSE IF frame = "callback" THEN "run" ELSE "loop"
    /\ exception' = FALSE
    /\ UNCHANGED <<vm, console, frame, scripts, calls>>

(* The frame ends, normally or with an exception nothing caught.  The      *)
(* script returns to njs_process_script(); a callback to                   *)
(* njs_vm_handle_events(), which goes on with the next event, but returns  *)
(* at once after an exception and leaves the others posted.                *)
EndFrame ==
    /\ pc = "js"
    /\ ret' = IF exception THEN "error" ELSE "ok"
    /\ pc' = IF frame = "callback" /\ ~exception THEN "run" ELSE "loop"
    /\ exception' = FALSE
    /\ UNCHANGED <<vm, console, frame, scripts, calls>>

----------------------------------------------------------------------------
(* The shell.  *)

(* A script is read and compiled.  Even when it does not compile the       *)
(* function goes on to the loop over the pending events.                   *)
StartScript ==
    /\ pc = "prompt"
    /\ scripts < MaxScripts
    /\ scripts' = scripts + 1
    /\ frame' = "script"
    /\ \/ pc' = "js" /\ UNCHANGED ret
       \/ pc' = "loop" /\ ret' = "error"
    /\ UNCHANGED <<vm, console, exception, calls>>

CheckPendingPostedOnly ==                                       \* mutant
    /\ pc = "loop"
    /\ pc' = IF Posted(vm) THEN "process_events" ELSE "prompt"
    /\ UNCHANGED <<vm, console, frame, exception, ret, scripts, calls>>

(* The head of the loop of njs_process_script().  *)
CheckPending ==
    /\ pc = "loop"
    /\ pc' = IF Pending(vm) THEN "process_events" ELSE "prompt"
    /\ UNCHANGED <<vm, console, frame, exception, ret, scripts, calls>>

(* One iteration of the loop of njs_process_events().  *)
ProcessEvent ==
    /\ pc = "process_events"
    /\ console.posted_events # <<>>
    /\ vm' = PostEvent(vm, Head(console.posted_events))
    /\ console' = [console EXCEPT !.posted_events = Tail(@)]
    /\ UNCHANGED <<control, exception>>

(* njs_process_script() gives up when events wait and none is posted.  *)
Stuck == Waiting(vm) /\ ~Posted(vm)

ProcessEventsDone ==
    /\ pc = "process_events"
    /\ console.posted_events = <<>>
    /\ IF Stuck THEN pc' = "prompt" /\ ret' = "error"
                ELSE pc' = "run" /\ UNCHANGED ret
    /\ UNCHANGED <<vm, console, frame, exception, scripts, calls>>

(* One iteration of the loop of njs_vm_handle_events().  *)
HandleEvent ==
    /\ pc = "run"
    /\ Posted(vm)
    /\ LET e == Head(vm.posted_events)
       IN  /\ vm' = TakeEvent(vm)
           /\ console' = IF e \in vm.once THEN Destructor(console, vm, e)
                                          ELSE console
           /\ calls' = Append(calls, e)
    /\ pc' = "js"
    /\ frame' = "callback"
    /\ UNCHANGED <<exception, ret, scripts>>

(* njs_vm_handle_events() returns NJS_OK.  *)
RunDone ==
    /\ pc = "run"
    /\ ~Posted(vm)
    /\ pc' = "loop"
    /\ ret' = "ok"
    /\ UNCHANGED <<vm, console, frame, exception, scripts, calls>>

----------------------------------------------------------------------------
JavaScript == SetTimer \/ SetTimerThrows \/ AddEventThrows \/ ClearTimeout
                \/ Throw \/ Catch

Host == CheckPending \/ ProcessEvent \/ ProcessEventsDone \/ HandleEvent
          \/ RunDone

Next == JavaScript \/ EndFrame \/ StartScript \/ Host

Spec == Init /\ [][Next]_vars

(* The shell runs on, and every frame of the user's program ends.  Nothing *)
(* makes the user type another script.                                     *)
FairSpec == Spec /\ WF_vars(Host) /\ WF_vars(EndFrame)

----------------------------------------------------------------------------
(* Properties.  *)

TypeOK ==
    /\ vm \in VMType
    /\ console \in [events : SUBSET Nat, posted_events : Seq(Nat)]
    /\ pc \in PCs
    /\ frame \in {"script", "callback"}
    /\ exception \in BOOLEAN
    /\ ret \in {"ok", "error"}
    /\ scripts \in Nat
    /\ calls \in Seq(Nat)

Ascending(q) == \A i, j \in DOMAIN q : i < j => q[i] < q[j]

(* Through every interleaving of timers set, cleared and called, each      *)
(* waiting event is in exactly one of the two queues (so it will be called *)
(* once), no queue holds an event that is not waiting (njs_vm_post_event() *)
(* and njs_vm_handle_events() never see a deleted one), the flag posted    *)
(* tells membership of the VM's queue, and an event and its host event     *)
(* live and die together.                                                  *)
EventsConsistent ==
    /\ vm.posted = Elems(vm.posted_events)
    /\ vm.events_hash = vm.posted \cup Elems(console.posted_events)
    /\ vm.posted \cap Elems(console.posted_events) = {}
    /\ vm.host_event = vm.events_hash
    /\ console.events = vm.events_hash

(* Both queues hold events in the order they were set, and all those of    *)
(* the VM's queue are older than those still in the console's.             *)
QueuesOrdered ==
    /\ Ascending(vm.posted_events)
    /\ Ascending(console.posted_events)
    /\ \A d \in vm.posted, e \in Elems(console.posted_events) : d < e

(* "njs_process_script(): async events unsupported" is never reported:     *)
(* after njs_process_events() no event waits that is not posted.           *)
NeverStuck ==
    pc = "process_events" /\ console.posted_events = <<>> => ~Stuck

(* The prompt comes back only when every timer was called or cleared, also *)
(* after scripts and callbacks that failed.                                *)
PromptOnlyWhenIdle ==
    pc = "prompt" => ~Pending(vm) /\ console.posted_events = <<>>

(* The two queues, the two hashes and the loops over them implement the    *)
(* promise of module TimerPromise.                                         *)
Promise == INSTANCE TimerPromise
             WITH next <- vm.event_id, armed <- vm.events_hash

ImplementsPromise == Promise!Spec

KeepsPromise == Promise!FairSpec

=============================================================================
