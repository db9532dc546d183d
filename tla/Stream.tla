------------------------------- MODULE Stream -------------------------------
(***************************************************************************)
(* One session served by ngx_stream_js_module: the functions of js_access  *)
(* and js_preread, which may wait for data and timers, the js_set          *)
(* variables, and the function of js_filter, whose handlers see the data   *)
(* of both directions.                                                     *)
(*                                                                         *)
(* nginx is one thread.  The phase engine, the proxy that feeds the filter *)
(* and the end of the session are external, modelled from what the module  *)
(* returns to them and the callbacks it registers.  The buffers of the     *)
(* filter are the numbers 0, 1, ... in the order they arrive.              *)
(***************************************************************************)
EXTENDS VMEvents, FiniteSets

CONSTANTS MaxEvents,     \* bound on the timers and handlers ever set
          MaxBuffers,    \* bound on the buffers that reach the filter
          MaxReads,      \* bound on the data that arrives during a phase
          MaxVariables,  \* bound on the evaluations of js_set variables
          NoEvent        \* NULL

ASSUME StreamAssumption ==
    /\ MaxEvents \in Nat /\ MaxBuffers \in Nat
    /\ MaxReads \in Nat /\ MaxVariables \in Nat
    /\ NoEvent \notin Nat

Directions == {"upload", "download"}
Phases     == {"access", "preread"}

VARIABLES
    vm,          \* the event table of ctx->vm
    life,        \* ctx->vm: "none", "unowned" (without a cleanup handler, and
                 \* not started), "broken" (its start failed), "live" or
                 \* "destroyed"
    ctx,         \* status, the handlers upload_event and download_event, and
                 \* the flags filter and in_progress
    session,     \* its phase, whether its read event is posted, and whether
                 \* the preread timeout is set
    timers,      \* the events whose ngx_event_t is in nginx's timer tree
    pc, frame,   \* where the module is, and which JavaScript frame runs
    caller,      \* which function of the module runs the VM
    exception,   \* the running frame is unwinding an exception
    pending,     \* the local variable of ngx_stream_js_variable()
    in, dir,     \* the rest of the filter's chain, and its direction
    received,    \* the number of buffers that arrived at the filter
    fate,        \* what became of each of them
    entered,     \* the phases whose function was called
    bounds       \* counters of reads and variables, and whether scripts are
                 \* careful: they clear only timers, take off only handlers
                 \* that are set, and send only from filter handlers

ctl   == <<pc, frame, caller, exception, pending>>
chain == <<in, dir, received, fate>>
vars  == <<vm, life, ctx, session, timers, ctl, chain, entered, bounds>>

EventIds == 0 .. MaxEvents - 1
Buffers  == 0 .. MaxBuffers - 1

Init ==
    /\ vm = NewVM /\ life = "none"
    /\ ctx = [status |-> "unset", event |-> [d \in Directions |-> NoEvent],
              filter |-> FALSE, in_progress |-> FALSE]
    /\ session = [phase |-> "access", posted |-> TRUE, read_timer |-> FALSE]
    /\ timers = {}
    /\ pc = "loop" /\ frame = "phase" /\ caller = "phase"
    /\ exception = FALSE /\ pending = FALSE
    /\ in = <<>> /\ dir = "upload" /\ received = 0
    /\ fate = [b \in Buffers |-> "none"]
    /\ entered = {}
    /\ bounds \in [reads : {0}, variables : {0}, careful : BOOLEAN]

Handlers == {ctx.event[d] : d \in Directions} \ {NoEvent}

----------------------------------------------------------------------------
(* ngx_stream_js_cleanup_ctx(), when the pool of the connection is         *)
(* destroyed: the handlers are deleted, and njs_vm_destroy() releases the  *)
(* timers of all waiting events.                                           *)
DropEvent(v, e) == IF e = NoEvent THEN v ELSE DelEvent(v, e)

DropHandlers(v) ==
    DropEvent(DropEvent(v, ctx.event["upload"]), ctx.event["download"])

FreeHandlersOnly ==                                             \* mutant
    /\ session' = [phase |-> "freed", posted |-> FALSE, read_timer |-> FALSE]
    /\ vm' = DropHandlers(vm)
    /\ ctx' = [ctx EXCEPT !.event = [d \in Directions |-> NoEvent]]
    /\ life' = IF life \in {"none", "unowned"} THEN life ELSE "destroyed"
    /\ UNCHANGED timers

Free ==
    /\ session' = [phase |-> "freed", posted |-> FALSE, read_timer |-> FALSE]
    /\ vm' = DropHandlers(vm)
    /\ ctx' = [ctx EXCEPT !.event = [d \in Directions |-> NoEvent]]
    /\ life' = IF life \in {"none", "unowned"} THEN life ELSE "destroyed"
    /\ timers' = timers \ (vm.events_hash \cap vm.host_event)

Kept == UNCHANGED <<vm, life, ctx, session, timers>>

----------------------------------------------------------------------------
(* JavaScript.  *)

InJS == pc = "js" /\ ~exception

JSOnly == UNCHANGED <<life, session, pc, frame, caller, pending, chain,
                      entered, bounds>>

(* njs_set_timer() and ngx_stream_js_set_timer().  *)
SetTimer ==
    /\ InJS
    /\ vm.event_id < MaxEvents
    /\ vm' = AddEvent(vm, TRUE, TRUE)
    /\ timers' = timers \cup {vm.event_id}
    /\ UNCHANGED <<ctx, exception>> /\ JSOnly

(* njs_clear_timeout().  The numbers of the handlers set by s.on() come    *)
(* from the same counter.                                                  *)
ClearTimeout ==
    /\ InJS
    /\ \E e \in vm.events_hash :
          /\ bounds.careful => e \in vm.host_event
          /\ vm' = DelEvent(vm, e)
          /\ timers' = IF Released(vm, e) THEN timers \ {e} ELSE timers
    /\ UNCHANGED <<ctx, exception>> /\ JSOnly

(* ngx_stream_js_ext_on().  *)
On ==
    /\ InJS
    /\ \E d \in Directions :
          \/ /\ ctx.event[d] = NoEvent /\ vm.event_id < MaxEvents
             /\ vm' = AddEvent(vm, FALSE, FALSE)
             /\ ctx' = [ctx EXCEPT !.event[d] = vm.event_id]
             /\ UNCHANGED exception
          \/ /\ ctx.event[d] # NoEvent
             /\ exception' = TRUE
             /\ UNCHANGED <<vm, ctx>>
    /\ UNCHANGED timers /\ JSOnly

OffKeepsEvent ==                                                \* mutant
    /\ InJS
    /\ \E d \in Directions :
          /\ ctx.event[d] # NoEvent
          /\ ctx' = [ctx EXCEPT !.event[d] = NoEvent]
    /\ UNCHANGED <<vm, timers, exception>> /\ JSOnly

(* ngx_stream_js_ext_off().  *)
Off ==
    /\ InJS
    /\ \E d \in Directions :
          /\ ctx.event[d] # NoEvent
          /\ vm' = DelEvent(vm, ctx.event[d])
          /\ ctx' = [ctx EXCEPT !.event[d] = NoEvent]
    /\ UNCHANGED <<timers, exception>> /\ JSOnly

(* Taking off a handler that is not set: njs_vm_del_event() is given a     *)
(* null pointer.                                                           *)
OffUnset ==
    /\ InJS /\ ~bounds.careful
    /\ \E d \in Directions : ctx.event[d] = NoEvent
    /\ pc' = "crash"
    /\ UNCHANGED <<vm, life, ctx, session, timers, frame, caller, exception,
                   pending, chain, entered, bounds>>

(* The codes that a phase tells apart: NGX_OK and NGX_DECLINED let the     *)
(* session go on, NGX_AGAIN and NGX_DONE let it wait, all others end it.   *)
(* A status that is set after the phases is read by nobody.                *)
Codes == IF session.phase \in Phases THEN {"ok", "again", "done", "error"} ELSE {ctx.status}

SetStatusKeepsHandlers ==                                       \* mutant
    /\ InJS
    /\ \E status \in Codes :
          ctx' = [ctx EXCEPT !.status = status]
    /\ vm' = DropHandlers(vm)
    /\ UNCHANGED <<timers, exception>> /\ JSOnly

(* ngx_stream_js_ext_set_status(), for allow(), done(), decline(), deny(): *)
(* the status of the phase is set and both handlers are taken off.         *)
SetStatus ==
    /\ InJS
    /\ \E status \in Codes :
          ctx' = [ctx EXCEPT !.status = status,
                             !.event = [d \in Directions |-> NoEvent]]
    /\ vm' = DropHandlers(vm)
    /\ UNCHANGED <<timers, exception>> /\ JSOnly

(* ngx_stream_js_ext_send() appends to the chain of the running filter     *)
(* call.  Before the filter's function returned it throws; after the call  *)
(* ctx->last_out points to a variable of a function that has returned.     *)
Send ==
    /\ InJS
    /\ IF ~ctx.filter
       THEN exception' = TRUE /\ UNCHANGED pc
       ELSE /\ bounds.careful => caller = "filter"
            /\ pc' = IF caller = "filter" THEN pc ELSE "crash"
            /\ UNCHANGED exception
    /\ UNCHANGED <<vm, life, ctx, session, timers, frame, caller, pending,
                   chain, entered, bounds>>

Throw == InJS /\ exception' = TRUE /\ UNCHANGED <<vm, ctx, timers>> /\ JSOnly

Catch ==
    /\ pc = "js" /\ exception
    /\ exception' = FALSE
    /\ UNCHANGED <<vm, ctx, timers>> /\ JSOnly

----------------------------------------------------------------------------
(* ngx_stream_js_init_vm().  The VM is not cloned, or gets no cleanup      *)
(* handler and is not started, or does not start.  Without a start it has  *)
(* no functions.                                                           *)
InitVMFails == life = "none" /\ life' \in {"none", "unowned", "broken"}
NoFunctions == life = "unowned" /\ UNCHANGED life
InitVM      == life # "unowned" /\ life' = IF life = "none" THEN "live" ELSE life

InPhase == session.phase \in Phases

Idle == pc = "loop" /\ session.phase # "freed"

(* ngx_stream_js_variable(), evaluated for another module of nginx that    *)
(* runs before the handler of a phase or while the session is proxied.     *)
Variable ==
    /\ Idle
    /\ InPhase => session.posted /\ ~ctx.in_progress
    /\ bounds.variables < MaxVariables
    /\ bounds' = [bounds EXCEPT !.variables = @ + 1]
    /\ \/ (InitVMFails \/ NoFunctions) /\ UNCHANGED ctl
       \/ /\ InitVM
          /\ pc' = "js" /\ frame' = "variable" /\ caller' = "variable"
          /\ pending' = Pending(vm)
          /\ UNCHANGED exception
    /\ UNCHANGED <<vm, ctx, session, timers, chain, entered>>

(* Its end.  An error of the variable may make nginx end the session.      *)
VariableEnd ==
    /\ pc = "js" /\ frame = "variable"
    /\ pc' = "loop" /\ exception' = FALSE
    /\ Kept \/ (~exception /\ ~pending /\ Pending(vm) /\ Free)
    /\ UNCHANGED <<frame, caller, pending, chain, entered, bounds>>

----------------------------------------------------------------------------
(* The access and preread phases.                                          *)

NextPhase(phase) == IF phase = "access" THEN "preread" ELSE "content"

(* A phase for which no function is configured is declined.                *)
Unconfigured ==
    /\ Idle /\ InPhase /\ session.posted /\ ~ctx.in_progress
    /\ session' = [session EXCEPT !.phase = NextPhase(@),
                                  !.posted = (session.phase = "access")]
    /\ UNCHANGED <<vm, life, ctx, timers, ctl, chain, entered, bounds>>

(* The phase engine comes to the phase, comes back to it after the read    *)
(* event was posted, or because data arrived.  While the preread timeout   *)
(* is set nginx calls the handler only with new data.                      *)
PhaseCalled(data) ==
    /\ Idle /\ InPhase
    /\ session' = [session EXCEPT !.posted = FALSE]
    /\ IF data
       THEN /\ bounds.reads < MaxReads
            /\ bounds' = [bounds EXCEPT !.reads = @ + 1]
       ELSE session.posted /\ ~session.read_timer /\ UNCHANGED bounds

StillPrereading ==
    /\ Idle /\ InPhase /\ session.posted /\ session.read_timer
    /\ session' = [session EXCEPT !.posted = FALSE]
    /\ UNCHANGED <<vm, life, ctx, timers, ctl, chain, entered, bounds>>

PhaseHandlerAgain(data) ==                                      \* mutant
    /\ PhaseCalled(data)
    /\ InitVM
    /\ pc' = "js"
    /\ entered' = entered \cup {session.phase}
    /\ ctx' = [ctx EXCEPT !.status = "error"]
    /\ frame' = "phase" /\ caller' = "phase"
    /\ UNCHANGED <<vm, timers, exception, pending, chain>>

(* ngx_stream_js_phase_handler(), up to the call of the function, which is *)
(* skipped while the phase is in progress.                                 *)
PhaseHandler(data) ==
    /\ PhaseCalled(data)
    /\ InitVM
    /\ IF ctx.in_progress
       THEN pc' = "post" /\ UNCHANGED <<ctx, entered>>
       ELSE /\ pc' = "js"
            /\ entered' = entered \cup {session.phase}
            /\ ctx' = [ctx EXCEPT !.status = "error"]
    /\ frame' = "phase" /\ caller' = "phase"
    /\ UNCHANGED <<vm, timers, exception, pending, chain>>

(* The script of the VM fails, or the function does not exist.             *)
PhaseUnavailable ==
    /\ Idle /\ InPhase /\ session.posted /\ ~ctx.in_progress
    /\ Free
    /\ UNCHANGED <<ctl, chain, entered, bounds>>

(* The function of the phase returned.                                     *)
PhaseFunctionEnd ==
    /\ pc = "js" /\ frame = "phase"
    /\ exception' = FALSE
    /\ IF exception THEN pc' = "loop" /\ Free ELSE pc' = "post" /\ Kept
    /\ UNCHANGED <<frame, caller, pending, chain, entered, bounds>>

(* The upload handler is called with what was read so far.                 *)
PhasePost ==
    /\ pc = "post"
    /\ LET e == ctx.event["upload"]
       IN  IF e = NoEvent THEN pc' = "return" /\ UNCHANGED vm
           ELSE pc' = "run" /\ vm' = PostEvent(vm, e)
    /\ UNCHANGED <<life, ctx, session, timers, frame, caller, exception,
                   pending, chain, entered, bounds>>

(* The phase waits (NGX_AGAIN for data, NGX_DONE for timers), or ends with *)
(* the status.  A status of NGX_AGAIN or NGX_DONE, of a script's own, lets *)
(* nginx wait too, with nothing in progress: its function is called again. *)
(* Another one than NGX_OK and NGX_DECLINED ends the session.              *)
PhaseReturn ==
    /\ pc = "return"
    /\ pc' = "loop"
    /\ entered' = IF ~Pending(vm) /\ ctx.status \in {"again", "done"}
                  THEN entered \ {session.phase} ELSE entered
    /\ \/ /\ Pending(vm)
          /\ ctx' = [ctx EXCEPT !.in_progress = TRUE]
          /\ session' = [session EXCEPT !.read_timer =
                            session.phase = "preread"
                                /\ ctx.event["upload"] # NoEvent]
          /\ UNCHANGED <<vm, life, timers>>
       \/ /\ ~Pending(vm) /\ ctx.status = "ok"
          /\ ctx' = [ctx EXCEPT !.in_progress = FALSE]
          /\ session' = [phase |-> NextPhase(session.phase),
                         posted |-> session.phase = "access",
                         read_timer |-> FALSE]
          /\ UNCHANGED <<vm, life, timers>>
       \/ /\ ~Pending(vm) /\ ctx.status \in {"again", "done"}
          /\ ctx' = [ctx EXCEPT !.in_progress = FALSE]
          /\ session' = [session EXCEPT !.read_timer =
                            session.phase = "preread" /\ ctx.status = "again"]
          /\ UNCHANGED <<vm, life, timers>>
       \/ ~Pending(vm) /\ ctx.status = "error" /\ Free
    /\ UNCHANGED <<frame, caller, exception, pending, chain, bounds>>

----------------------------------------------------------------------------
(* The filter.                                                             *)

(* ngx_stream_js_body_filter() is given a chain of one or two buffers, up  *)
(* to the call of the function, made until it once returned.               *)
BodyFilter ==
    /\ Idle /\ session.phase = "content"
    /\ dir' \in Directions
    /\ \E n \in 1 .. 2 :
          /\ received + n <= MaxBuffers
          /\ received' = received + n
          /\ in' = [i \in 1 .. n |-> received + i - 1]
    /\ \/ (InitVMFails \/ NoFunctions) /\ pc' = "failed"
       \/ InitVM /\ pc' = IF ctx.filter THEN "filter" ELSE "js"
    /\ frame' = "filter" /\ caller' = "filter"
    /\ UNCHANGED <<vm, ctx, session, timers, exception, pending, fate, entered,
                   bounds>>

(* The filter returns NGX_ERROR, and the proxy ends the session.           *)
FilterFails ==
    /\ pc = "failed"
    /\ pc' = "loop" /\ Free
    /\ UNCHANGED <<frame, caller, exception, pending, chain, entered, bounds>>

FilterFunctionEnd ==
    /\ pc = "js" /\ frame = "filter"
    /\ exception' = FALSE
    /\ IF exception
       THEN pc' = "failed" /\ UNCHANGED ctx
       ELSE pc' = "filter" /\ ctx' = [ctx EXCEPT !.filter = TRUE]
    /\ UNCHANGED <<vm, life, session, timers, frame, caller, pending, chain,
                   entered, bounds>>

FilterBufferPostsOnly ==                                        \* mutant
    /\ pc = "filter" /\ in # <<>>
    /\ LET e == ctx.event[dir]
       IN  IF e = NoEvent
           THEN /\ fate' = [fate EXCEPT ![Head(in)] = "passed"]
                /\ in' = Tail(in)
                /\ UNCHANGED <<vm, pc>>
           ELSE /\ vm' = PostEvent(vm, e)
                /\ in' = Tail(in)
                /\ pc' = "filter"
                /\ UNCHANGED fate
    /\ UNCHANGED <<life, ctx, session, timers, frame, caller, exception,
                   pending, dir, received, entered, bounds>>

FilterBufferPassesToo ==                                        \* mutant
    /\ pc = "filter" /\ in # <<>>
    /\ fate' = [fate EXCEPT ![Head(in)] = "passed"]
    /\ LET e == ctx.event[dir]
       IN  IF e = NoEvent
           THEN in' = Tail(in) /\ UNCHANGED <<vm, pc>>
           ELSE vm' = PostEvent(vm, e) /\ pc' = "run" /\ UNCHANGED in
    /\ UNCHANGED <<life, ctx, session, timers, frame, caller, exception,
                   pending, dir, received, entered, bounds>>

(* The next buffer: given to the handler of its direction, or passed on.   *)
FilterBuffer ==
    /\ pc = "filter" /\ in # <<>>
    /\ LET e == ctx.event[dir]
       IN  IF e = NoEvent
           THEN /\ fate' = [fate EXCEPT ![Head(in)] = "passed"]
                /\ in' = Tail(in)
                /\ UNCHANGED <<vm, pc>>
           ELSE /\ vm' = PostEvent(vm, e)
                /\ pc' = "run"
                /\ UNCHANGED <<in, fate>>
    /\ UNCHANGED <<life, ctx, session, timers, frame, caller, exception,
                   pending, dir, received, entered, bounds>>

FilterReturn ==
    /\ pc = "filter" /\ in = <<>>
    /\ pc' = "loop"
    /\ UNCHANGED <<frame, caller, exception, pending, chain, entered, bounds>>
    /\ Kept

----------------------------------------------------------------------------
(* Events.                                                                 *)

(* ngx_stream_js_timer_handler() and ngx_stream_js_handle_event(), up to   *)
(* the first callback.                                                     *)
TimerHandler ==
    /\ pc = "loop"
    /\ \E e \in timers : timers' = timers \ {e} /\ vm' = PostEvent(vm, e)
    /\ pc' = "run" /\ caller' = "timer"
    /\ UNCHANGED <<life, ctx, session, frame, exception, pending, chain,
                   entered, bounds>>

(* One iteration of the loop of njs_vm_handle_events().  *)
CallEvent ==
    /\ pc = "run" /\ Posted(vm)
    /\ LET e == Head(vm.posted_events)
       IN  /\ vm' = TakeEvent(vm)
           /\ timers' = IF e \in vm.once /\ Released(vm, e)
                        THEN timers \ {e} ELSE timers
    /\ fate' = IF caller = "filter"
               THEN [fate EXCEPT ![Head(in)] = "called"] ELSE fate
    /\ pc' = "js" /\ frame' = "callback"
    /\ UNCHANGED <<life, ctx, session, caller, exception, pending, in, dir,
                   received, entered, bounds>>

(* A callback ends; an exception ends njs_vm_run() and the session.        *)
CallbackEnd ==
    /\ pc = "js" /\ frame = "callback"
    /\ exception' = FALSE
    /\ IF exception
       THEN pc' = "loop" /\ Free
       ELSE pc' = "run" /\ Kept
    /\ UNCHANGED <<frame, caller, pending, chain, entered, bounds>>

RunDoneUnposted ==                                              \* mutant
    /\ pc = "run" /\ ~Posted(vm)
    /\ pc' = CASE caller = "timer"  -> "loop"
               [] caller = "phase"  -> "return"
               [] caller = "filter" -> "filter"
    /\ in' = IF caller = "filter" THEN Tail(in) ELSE in
    /\ UNCHANGED <<vm, life, ctx, session, timers, frame, caller, exception,
                   pending, dir, received, fate, entered, bounds>>

(* njs_vm_run() returned NJS_OK: the timer's handler posts the read event  *)
(* of the connection, the phase returns, the filter goes to the next       *)
(* buffer.                                                                 *)
RunDone ==
    /\ pc = "run" /\ ~Posted(vm)
    /\ pc' = CASE caller = "timer"  -> "loop"
               [] caller = "phase"  -> "return"
               [] caller = "filter" -> "filter"
    /\ session' = IF caller = "timer" THEN [session EXCEPT !.posted = TRUE]
                  ELSE session
    /\ in' = IF caller = "filter" THEN Tail(in) ELSE in
    /\ UNCHANGED <<vm, life, ctx, timers, frame, caller, exception, pending,
                   dir, received, fate, entered, bounds>>

(* The proxy ends, or its read event runs; the preread timeout passes.     *)
ProxyRead ==
    /\ Idle /\ session.phase = "content" /\ session.posted
    /\ session' = [session EXCEPT !.posted = FALSE]
    /\ UNCHANGED <<vm, life, ctx, timers, ctl, chain, entered, bounds>>

SessionEnds ==
    /\ Idle /\ (session.phase = "content" \/ session.read_timer)
    /\ Free
    /\ UNCHANGED <<ctl, chain, entered, bounds>>

----------------------------------------------------------------------------
JavaScript == SetTimer \/ ClearTimeout \/ On \/ Off \/ OffUnset \/ SetStatus
                \/ Send \/ Throw \/ Catch

EndFrame == VariableEnd \/ PhaseFunctionEnd \/ FilterFunctionEnd \/ CallbackEnd

Module == PhasePost \/ PhaseReturn \/ FilterBuffer \/ FilterReturn
            \/ FilterFails \/ CallEvent \/ RunDone

Environment == Variable \/ Unconfigured \/ PhaseUnavailable \/ PhaseHandler(TRUE)
                 \/ BodyFilter \/ ProxyRead

Next == JavaScript \/ EndFrame \/ Module \/ Environment \/ PhaseHandler(FALSE)
          \/ StillPrereading \/ TimerHandler \/ SessionEnds

Spec == Init /\ [][Next]_vars

(* Frames end, the module runs on, timers expire (the preread timeout      *)
(* too), and nginx comes back to a session whose read event is posted.     *)
FairSpec ==
    /\ Spec
    /\ WF_vars(EndFrame) /\ WF_vars(Module)
    /\ WF_vars(PhaseHandler(FALSE)) /\ WF_vars(StillPrereading)
    /\ WF_vars(TimerHandler) /\ WF_vars(SessionEnds)

----------------------------------------------------------------------------
(* Properties.  *)

(* Between two events of nginx, a waiting event of the VM is a handler set *)
(* by s.on() or has a timer in nginx's tree.  Any other would keep         *)
(* njs_vm_pending() true and the phase in progress for ever.  And a phase  *)
(* in progress waits for data or a timer, or its return from waiting is    *)
(* under way.                                                              *)
NoLostWakeup ==
    /\ Idle => vm.events_hash \subseteq timers \cup Handlers
    /\ Idle /\ InPhase /\ ctx.in_progress =>
           Pending(vm) \/ session.posted \/ session.read_timer

(* However the session ends, no timer is left in nginx's tree whose        *)
(* ngx_event_t lies in the destroyed pool, and no handler is left: a timer *)
(* belongs to a waiting event at any time before, so that deleting the     *)
(* event or destroying the VM finds it.                                    *)
NothingDangles ==
    /\ bounds.careful /\ session.phase = "freed" =>
           timers = {} /\ life # "live" /\ pc = "loop" /\ Handlers = {}
    /\ bounds.careful /\ pc = "loop" => timers \subseteq vm.events_hash \cap vm.host_event

(* The function of a phase is called once, however often nginx comes back  *)
(* to the phase while it is in progress, unless the script itself let the  *)
(* phase return NGX_AGAIN or NGX_DONE.                                     *)
PhaseCalledOnce ==
    [][pc = "loop" /\ pc' = "js" /\ frame' = "phase" =>
           session.phase \notin entered]_vars

(* A phase that allows the session to go on leaves no handler behind that  *)
(* the next phase or the filter would call in its place.                   *)
PhaseEndsClean ==
    [][bounds.careful /\ pc = "return" /\ session'.phase \notin {session.phase, "freed"} =>
           Handlers = {}]_vars

(* When a call of the filter returns to a living session, every buffer has *)
(* been passed on or given to a handler, in spite of handlers that set and *)
(* take off handlers between two buffers of one chain.                     *)
BuffersConsumed ==
    bounds.careful /\ Idle => \A b \in 0 .. received - 1 : fate[b] # "none"

(* No buffer is both passed on and given to a handler, or given twice, and *)
(* none overtakes another.                                                 *)
BuffersInOrder ==
    [][\A b \in Buffers : fate'[b] # fate[b] =>
           fate[b] = "none" /\ \A a \in 0 .. b - 1 : fate[a] # "none"]_vars

(* A phase that waits for timers only is resumed after the last one: it    *)
(* ends, or waits for data.                                                *)
TimersOnly == bounds.careful /\ InPhase /\ ctx.in_progress /\ Handlers = {}

PhaseResumes == TimersOnly ~> (~InPhase \/ ~ctx.in_progress \/ Handlers # {})

=============================================================================
