------------------------------ MODULE VMEvents ------------------------------
(***************************************************************************)
(* The event table of one njs VM: njs_event.c and the event functions of   *)
(* njs_vm.c.  A host (the console of njs_shell.c, the nginx http and       *)
(* stream modules) registers events, posts them when the awaited thing has *)
(* happened, and runs the VM, which calls the callback of every posted     *)
(* event.                                                                  *)
(*                                                                         *)
(* The state of the table is a record, and every C function is an operator *)
(* from the record to the record after the call, so that the modules of    *)
(* the hosts can compose several calls in one handler.  An event is        *)
(* identified with its id, the number njs_add_event() gives it; the flags  *)
(* of njs_event_t are sets of events:                                      *)
(*                                                                         *)
(*   event_id       vm->event_id, the id of the next event                 *)
(*   events_hash    vm->events_hash                                        *)
(*   posted_events  vm->posted_events, the queue of events to call         *)
(*   posted         the events whose flag `posted' is set                  *)
(*   once           the events whose flag `once' is set                    *)
(*   host_event     the events whose host_event is not NULL                *)
(***************************************************************************)
EXTENDS Naturals, Sequences, Queues

(* njs_vm_init(): an empty table.  *)
NewVM == [event_id |-> 0, events_hash |-> {}, posted_events |-> <<>>,
          posted |-> {}, once |-> {}, host_event |-> {}]

VMType == [event_id : Nat, events_hash : SUBSET Nat, posted_events : Seq(Nat),
           posted : SUBSET Nat, once : SUBSET Nat, host_event : SUBSET Nat]

Waiting(vm) == vm.events_hash # {}
Posted(vm)  == vm.posted_events # <<>>
Pending(vm) == Waiting(vm) \/ Posted(vm)

(* njs_add_event() of an event that has just been allocated.  *)
AddEvent(vm, once, hosted) ==
    [vm EXCEPT !.event_id    = @ + 1,
               !.events_hash = @ \cup {vm.event_id},
               !.once        = IF once THEN @ \cup {vm.event_id} ELSE @,
               !.host_event  = IF hosted THEN @ \cup {vm.event_id} ELSE @]

AddEventFailsTwice(vm) == [vm EXCEPT !.event_id = @ - 1]        \* mutant

(* njs_add_event() when the insertion in the hash fails: the number is     *)
(* used up, and njs_del_event() releases the host event it was given.      *)
AddEventFails(vm) == [vm EXCEPT !.event_id = @ + 1]

(* njs_del_event(NJS_EVENT_RELEASE | NJS_EVENT_DELETE).  The caller applies *)
(* the host's destructor when Released(vm, e).                             *)
Released(vm, e) == e \in vm.host_event

DelEventKeepsHost(vm, e) ==                                     \* mutant
    [vm EXCEPT !.posted        = @ \ {e},
               !.posted_events = IF e \in vm.posted THEN Unlink(@, e) ELSE @,
               !.events_hash   = @ \ {e}]

DelEventLeavesLink(vm, e) ==                                    \* mutant
    [vm EXCEPT !.host_event = @ \ {e}, !.events_hash = @ \ {e}]

DelEvent(vm, e) ==
    [vm EXCEPT !.host_event    = @ \ {e},
               !.posted        = @ \ {e},
               !.posted_events = IF e \in vm.posted THEN Unlink(@, e) ELSE @,
               !.events_hash   = @ \ {e}]

(* njs_vm_post_event().  *)
PostEvent(vm, e) ==
    IF e \in vm.posted THEN vm
    ELSE [vm EXCEPT !.posted        = @ \cup {e},
                    !.posted_events = Append(@, e)]

TakeEventAlwaysAgain(vm) ==                                     \* mutant
    LET e == Head(vm.posted_events)
    IN  [vm EXCEPT !.posted = @ \ {e}, !.posted_events = Unlink(@, e)]

(* The part of njs_vm_handle_events() that takes the first posted event    *)
(* out of the queue, before its callback is called.                        *)
TakeEvent(vm) ==
    LET e == Head(vm.posted_events)
    IN  IF e \in vm.once THEN DelEvent(vm, e)
        ELSE [vm EXCEPT !.posted        = @ \ {e},
                        !.posted_events = Unlink(@, e)]

=============================================================================
