-------------------------------- MODULE Http --------------------------------
(***************************************************************************)
(* One request handled by ngx_http_js_module: the VM cloned for it, the    *)
(* js_set variables evaluated and the js_content function called in it,    *)
(* its timers, its subrequests, and its end.                               *)
(*                                                                         *)
(* nginx is one thread: between two returns to its event loop (pc =        *)
(* "loop") nothing else runs, but timers, subrequests, the client and the  *)
(* queue of posted requests come back to the module in any order.  An      *)
(* internal redirect starts the request again in another location, with    *)
(* neither context nor VM: those that it had live on without it.  What     *)
(* nginx itself does is external: it is modelled from the calls the module *)
(* makes and the callbacks it registers.                                   *)
(***************************************************************************)
EXTENDS VMEvents, FiniteSets, SequencesExt

CONSTANTS MaxEvents,     \* bound on the timers and subrequests with a callback
          MaxDetached,   \* bound on the subrequests without one
          MaxVariables,  \* bound on the evaluations of js_set variables
          MaxRedirects   \* bound on the internal redirects (r->uri_changes)

ASSUME HttpAssumption ==
    /\ MaxEvents \in Nat /\ MaxDetached \in Nat /\ MaxVariables \in Nat
    /\ MaxRedirects \in Nat

VARIABLES
    vm,          \* the event table of ctx->vm
    life,        \* ctx->vm: "none", "unowned" (without a cleanup handler, and
                 \* not started), "starting" (its global code runs),
                 \* "broken" (which failed), "live" or "destroyed"
    ctx,         \* the module's context: is there one attached to the
                 \* request, the first event of its VM, its status, and
                 \* whether redirect_uri is set
    lost,        \* the events with timers in the VMs that the request had
                 \* before it was redirected
    req,         \* the request: its phase, its write_event_handler, whether
                 \* it is posted, whether a send timeout is set, how often
                 \* it was redirected, the statuses of finalizations that
                 \* wait for a redirect to return, and (history) whether
                 \* nginx redirected it on its own while events waited
    timers,      \* the events whose ngx_event_t is in nginx's timer tree
    subs,        \* state of the subrequest of each event that has one
    detached,    \* the number of subrequests without a callback, running
    pc, frame,   \* where the module is, and which JavaScript frame runs
    exception,   \* the running frame is unwinding an exception
    pending,     \* the local variable of ngx_http_js_variable()
    variables,   \* the number of variables evaluated
    called       \* the events whose callback was called

ctl  == <<pc, frame, exception, pending, variables>>
host == <<vm, life, ctx, lost, req, timers, subs, detached>>
vars == <<host, ctl, called>>

EventIds == 0 .. MaxEvents - 1

NoContext(base) == [attached |-> FALSE, base |-> base, status |-> "unset", redirect |-> FALSE]

(* The event table of a VM that is yet to be cloned; numbers of events go  *)
(* on from one VM of the request to the next, to tell them apart.          *)
NextVM == [NewVM EXCEPT !.event_id = vm.event_id]

Init ==
    /\ vm = NewVM
    /\ life = "none"
    /\ ctx = NoContext(0)
    /\ lost = {}
    /\ req = [phase |-> "early", handler |-> "core", posted |-> FALSE, send_timer |-> FALSE,
              redirects |-> 0, finals |-> <<>>, taken |-> FALSE]
    /\ timers = {}
    /\ subs = [e \in EventIds |-> "none"]
    /\ detached = 0
    /\ pc = "loop" /\ frame = "none" /\ exception = FALSE
    /\ pending = FALSE /\ variables = 0
    /\ called = {}

Running == {e \in EventIds : subs[e] # "none"}

----------------------------------------------------------------------------
(* What nginx does when the module, or nginx itself, finalizes or          *)
(* redirects the request.  r is the request as the caller leaves it.       *)

(* Releasing the request's pool runs ngx_http_js_cleanup_ctx() of each VM  *)
(* it had, and njs_vm_destroy() releases the host event of every waiting   *)
(* event: ngx_http_js_clear_timer() takes it out of the timer tree.        *)
FreeKeepsTimers ==                                              \* mutant
    /\ req' = [req EXCEPT !.phase = "freed", !.handler = "core",
                          !.posted = FALSE, !.send_timer = FALSE, !.finals = <<>>]
    /\ life' = IF life \in {"none", "unowned"} THEN life ELSE "destroyed"
    /\ vm' = NextVM /\ ctx' = NoContext(vm.event_id) /\ lost' = {}
    /\ subs' = [e \in EventIds |-> "none"] /\ detached' = 0
    /\ UNCHANGED timers

Free ==
    /\ req' = [req EXCEPT !.phase = "freed", !.handler = "core",
                          !.posted = FALSE, !.send_timer = FALSE, !.finals = <<>>]
    /\ life' = IF life \in {"none", "unowned"} THEN life ELSE "destroyed"
    /\ timers' = timers \ (lost \cup (vm.events_hash \cap vm.host_event))
    /\ vm' = NextVM /\ ctx' = NoContext(vm.event_id) /\ lost' = {}
    /\ subs' = [e \in EventIds |-> "none"] /\ detached' = 0

Only(r) == req' = r /\ UNCHANGED <<vm, life, ctx, lost, timers, subs, detached>>

(* ngx_http_finalize_request(r, NGX_ERROR) or with a timeout: nginx posts  *)
(* the request for its own termination.                                    *)
Terminate(r) ==
    Only([r EXCEPT !.phase = "terminating", !.handler = "core",
                   !.posted = TRUE, !.send_timer = FALSE])

(* The response is finished; the request lives as long as a subrequest, or *)
(* a finalization that is still to come, does.                             *)
Close(r) ==
    IF Running = {} /\ detached = 0 /\ r.finals = <<>> THEN Free
    ELSE Only([r EXCEPT !.phase = "finalized", !.handler = "core", !.send_timer = FALSE])

(* An internal redirect: nginx forgets the contexts of all modules, and    *)
(* the phases of another location start.                                   *)
Redirect(r) ==
    /\ r.redirects < MaxRedirects
    /\ req' = [r EXCEPT !.phase = "early", !.handler = "core", !.redirects = @ + 1]
    /\ vm' = NextVM /\ ctx' = NoContext(vm.event_id) /\ life' = "none"
    /\ lost' = lost \cup (vm.events_hash \cap vm.host_event)
    /\ UNCHANGED <<timers, subs, detached>>

(* nginx redirects without being asked by the module: for an index, a      *)
(* try_files or an error_page, whatever waits in the VM.                   *)
RedirectItself(r) == Redirect([r EXCEPT !.taken = @ \/ Waiting(vm)])

(* A status of 300 or more: nginx makes the response.                      *)
SpecialResponse(r) ==
    RedirectItself([r EXCEPT !.send_timer = FALSE]) \/ Close(r)

Finalize(r, status) ==
    CASE status = "error"                -> Terminate(r)
      [] status = "special"              -> SpecialResponse(r)
      [] status \in {"answered", "done"} -> Close(r)

(* ngx_http_js_content_finalize().  The phases of the other location run   *)
(* before ngx_http_internal_redirect() returns; NGX_DONE has no effect     *)
(* then, but return() or finish() may have replaced it.  nginx may also    *)
(* refuse to redirect, which is an error like others.                      *)
ContentFinalize(r) ==
    \/ /\ ctx.redirect
       /\ Redirect(IF ctx.status = "done" THEN r
                   ELSE [r EXCEPT !.finals = Append(@, ctx.status)])
    \/ Finalize(r, IF ctx.redirect /\ ctx.status = "done" THEN "special" ELSE ctx.status)

----------------------------------------------------------------------------
(* JavaScript, run in the VM of the request.                               *)

(* The global code runs before there is an object for the request          *)
(* (njs_vm_start() and njs_vm_external_create() of ngx_http_js_init_vm()). *)
InJS     == pc = "js" /\ ~exception
WithHttp == InJS /\ life = "live"

(* njs_set_timer() and ngx_http_js_set_timer().  *)
SetTimer ==
    /\ InJS
    /\ vm.event_id < MaxEvents
    /\ vm' = AddEvent(vm, TRUE, TRUE)
    /\ timers' = timers \cup {vm.event_id}
    /\ UNCHANGED <<life, ctx, lost, req, subs, detached, ctl, called>>

(* njs_clear_timeout() of a waiting event: also of a subrequest's, which   *)
(* has no destructor.                                                      *)
ClearTimeout ==
    /\ InJS
    /\ \E e \in vm.events_hash :
          /\ vm' = DelEvent(vm, e)
          /\ timers' = IF Released(vm, e) THEN timers \ {e} ELSE timers
    /\ UNCHANGED <<life, ctx, lost, req, subs, detached, ctl, called>>

SubrequestKeepsEvent ==                                         \* mutant
    /\ WithHttp
    /\ vm.event_id < MaxEvents
    /\ \/ /\ vm' = AddEvent(vm, TRUE, FALSE)
          /\ subs' = [subs EXCEPT ![vm.event_id] = "running"]
          /\ exception' \in BOOLEAN
       \/ /\ vm' = AddEvent(vm, TRUE, FALSE)
          /\ exception' = TRUE
          /\ UNCHANGED subs
    /\ UNCHANGED <<life, ctx, lost, req, timers, detached, pc, frame, pending,
                   variables, called>>

(* ngx_http_js_ext_subrequest() with a callback.  The event is added first *)
(* and deleted again when nginx refuses the subrequest; memory may also    *)
(* run out when the subrequest has already been created.                   *)
Subrequest ==
    /\ WithHttp
    /\ vm.event_id < MaxEvents
    /\ \/ /\ vm' = AddEvent(vm, TRUE, FALSE)
          /\ subs' = [subs EXCEPT ![vm.event_id] = "running"]
          /\ exception' \in BOOLEAN
       \/ /\ vm' = DelEvent(AddEvent(vm, TRUE, FALSE), vm.event_id)
          /\ exception' = TRUE
          /\ UNCHANGED subs
    /\ UNCHANGED <<life, ctx, lost, req, timers, detached, pc, frame, pending,
                   variables, called>>

SubrequestDetached ==
    /\ WithHttp
    /\ detached < MaxDetached
    /\ detached' = detached + 1
    /\ UNCHANGED <<vm, life, ctx, lost, req, timers, subs, ctl, called>>

(* ngx_http_js_ext_return() and ngx_http_js_ext_finish(): the response is  *)
(* sent, or only the status is kept for nginx to make one.  When sending   *)
(* fails the status stays NGX_ERROR, also when the exception is caught.    *)
ReturnStatus ==
    /\ WithHttp
    /\ \/ /\ ctx' = [ctx EXCEPT !.status = "answered"] \/ ctx' = [ctx EXCEPT !.status = "special"]
          /\ UNCHANGED exception
       \/ ctx' = [ctx EXCEPT !.status = "error"] /\ exception' = TRUE
    /\ UNCHANGED <<vm, life, lost, req, timers, subs, detached, pc, frame, pending,
                   variables, called>>

(* ngx_http_js_ext_internal_redirect().  *)
InternalRedirect ==
    /\ WithHttp
    /\ ctx' = [ctx EXCEPT !.redirect = TRUE, !.status = "done"]
    /\ UNCHANGED <<vm, life, lost, req, timers, subs, detached, ctl, called>>

Throw ==
    /\ InJS
    /\ exception' = TRUE
    /\ UNCHANGED <<vm, pc, frame, pending, variables, host, called>>

Catch ==
    /\ pc = "js" /\ exception
    /\ exception' = FALSE
    /\ UNCHANGED <<vm, pc, frame, pending, variables, host, called>>

----------------------------------------------------------------------------
(* The handlers of the module.                                             *)

(* nginx runs the posted requests before it goes back to its event loop;   *)
(* while ngx_http_js_content_finalize() is redirecting it does neither.    *)
Advancing == pc = "loop" /\ ~req.posted
Returned  == pc = "loop" /\ req.finals = <<>>
Idle      == Advancing /\ Returned

Early == req.phase \in {"early", "body"}

(* A function is called; a handler returns an error, or just returns.      *)
Enter(f, p) == pc' = "js" /\ frame' = f /\ exception' = FALSE /\ pending' = p
Fail(f)     == pc' = "error" /\ frame' = f /\ exception' = FALSE /\ pending' = FALSE
Back        == pc' = "loop" /\ frame' = "none" /\ exception' = FALSE /\ pending' = FALSE

(* The function of the handler is looked up and called, or not found.      *)
Call(f) ==
    \/ /\ f = "variable" /\ UNCHANGED <<ctx, req>>
       /\ Back \/ (life # "unowned" /\ Enter(f, Pending(vm)))
    \/ /\ f = "content" /\ life # "unowned"
       /\ ctx' = [ctx EXCEPT !.status = "special"]
       /\ req' = [req EXCEPT !.phase = "content"]
       /\ Enter(f, FALSE)
    \/ f = "content" /\ Fail(f) /\ UNCHANGED <<ctx, req>>

(* ngx_http_js_init_vm() gives the request a context and clones the VM     *)
(* once: if the clone fails the next call tries again, but a VM that could *)
(* not be given a cleanup handler, or whose global code failed, stays.     *)
InitVM(f) ==
    \/ life # "none" /\ Call(f) /\ UNCHANGED life
    \/ /\ life = "none"
       /\ ctx' = [ctx EXCEPT !.attached = TRUE] /\ UNCHANGED req
       /\ \/ life' = "starting" /\ Enter(f, FALSE)
          \/ life' \in {"none", "unowned"} /\ Fail(f)

(* njs_vm_start() returned.                                                *)
StartEnd ==
    /\ pc = "js" /\ life = "starting"
    /\ \/ ~exception /\ life' = "live" /\ Call(frame)
       \/ exception /\ life' = "broken" /\ Fail(frame) /\ UNCHANGED <<ctx, req>>
    /\ UNCHANGED <<vm, lost, timers, subs, detached, variables, called>>

(* What follows when a handler returns an error: a variable's may be       *)
(* ignored.                                                                *)
HandlerFails ==
    /\ pc = "error"
    /\ SpecialResponse(req) \/ (frame = "variable" /\ UNCHANGED host)
    /\ Back
    /\ UNCHANGED <<variables, called>>

(* ngx_http_js_variable(), evaluated before the content phase.  *)
Variable ==
    /\ Advancing /\ Early /\ variables < MaxVariables
    /\ variables' = variables + 1
    /\ InitVM("variable")
    /\ UNCHANGED <<vm, lost, timers, subs, detached, called>>

(* The end of ngx_http_js_variable(): an exception makes the variable not  *)
(* found; an operation left pending makes it an error.                     *)
VariableEnd ==
    /\ pc = "js" /\ frame = "variable" /\ life # "starting"
    /\ IF ~exception /\ ~pending /\ Pending(vm) THEN Fail(frame) ELSE Back
    /\ UNCHANGED <<host, variables, called>>

(* ngx_http_js_content_handler() asks for the body.  *)
ContentHandler ==
    /\ Advancing /\ req.phase = "early" /\ req.handler = "core"
    /\ req' = [req EXCEPT !.phase = "body"]
    /\ UNCHANGED <<vm, life, ctx, lost, timers, subs, detached, ctl, called>>

(* ngx_http_js_content_event_handler(), up to the call of the function.    *)
ContentEventHandler ==
    /\ Advancing /\ req.phase = "body" /\ req.handler = "core"
    /\ InitVM("content")
    /\ UNCHANGED <<vm, lost, timers, subs, detached, variables, called>>

(* ngx_http_read_client_request_body() fails.                              *)
ContentUnavailable ==
    /\ Advancing /\ req.phase = "body" /\ req.handler = "core"
    /\ SpecialResponse(req)
    /\ UNCHANGED <<ctl, called>>

ContentEndUnawaited ==                                          \* mutant
    /\ pc = "js" /\ frame = "content" /\ life # "starting"
    /\ IF exception THEN Fail(frame) /\ UNCHANGED host
       ELSE Back /\ ContentFinalize(req)
    /\ UNCHANGED <<variables, called>>

(* The function of js_content returned.                                    *)
ContentEnd ==
    /\ pc = "js" /\ frame = "content" /\ life # "starting"
    /\ \/ exception /\ Fail(frame) /\ UNCHANGED host
       \/ ~exception /\ Pending(vm) /\ Back /\ Only([req EXCEPT !.handler = "js"])
       \/ ~exception /\ ~Pending(vm) /\ Back /\ ContentFinalize(req)
    /\ UNCHANGED <<variables, called>>

(* ngx_http_js_content_write_event_handler(), with the state of the        *)
(* client's socket.                                                        *)
ContentWriteEventHandler(r, socket) ==
    IF ~Pending(vm) THEN ContentFinalize(r)
    ELSE IF socket \in {"timedout", "error"} THEN Terminate(r)
    ELSE Only([r EXCEPT !.send_timer = (socket = "blocked")])

(* The redirect of ngx_http_js_content_finalize() returned, and the        *)
(* request is finalized once more, with the status: wherever it is now, it *)
(* gets a write_event_handler that does nothing.                           *)
Unwind ==
    /\ pc = "loop" /\ req.finals # <<>>
    /\ LET status == Last(req.finals)
           r == [req EXCEPT !.finals = Front(@)]
       IN  \/ status = "error" /\ Terminate(r)
           \/ status = "special" /\ RedirectItself([r EXCEPT !.send_timer = FALSE])
           \/ /\ status # "error"
              /\ IF req.phase = "finalized" THEN Close(r)
                 ELSE Only([r EXCEPT !.handler = "empty",
                               !.phase = IF @ = "terminating" THEN "finalized" ELSE @])
    /\ UNCHANGED <<ctl, called>>

----------------------------------------------------------------------------
(* Events.                                                                 *)

(* ngx_http_js_handle_event(), up to the first callback.  The context may  *)
(* be missing, which the code does not look at, or be the one of another   *)
(* VM than the event's: what follows is not modelled.                      *)
Present(e) == ctx.attached /\ e >= ctx.base

HandleEvent(e) ==
    /\ vm' = IF Present(e) THEN PostEvent(vm, e) ELSE vm
    /\ pc' = IF Present(e) THEN "run" ELSE "astray"

(* nginx's timer expires and ngx_http_js_timer_handler() is called.        *)
TimerHandler ==
    /\ Idle
    /\ \E e \in timers : timers' = timers \ {e} /\ HandleEvent(e)
    /\ UNCHANGED <<life, ctx, lost, req, subs, detached, frame, exception, pending,
                   variables, called>>

SubrequestDoneAgain ==                                          \* mutant
    /\ Returned /\ req.phase # "terminating"
    /\ \E e \in EventIds :
          /\ subs[e] # "none"
          /\ subs' = [subs EXCEPT ![e] = "done"]
          /\ HandleEvent(e) /\ UNCHANGED req
    /\ UNCHANGED <<life, ctx, lost, timers, detached, frame, exception, pending,
                   variables, called>>

(* ngx_http_js_subrequest_done().  nginx calls it each time it finalizes   *)
(* the subrequest, which may be several times; it does nothing when the    *)
(* subrequest is not complete, or was done before.                         *)
SubrequestDone ==
    /\ Returned /\ req.phase # "terminating"
    /\ \E e \in EventIds :
          /\ subs[e] = "running"
          /\ subs' = [subs EXCEPT ![e] = "done"]
          /\ IF ctx.attached
             THEN HandleEvent(e) /\ UNCHANGED req
             ELSE /\ req' = [req EXCEPT !.phase = "terminating", !.handler = "core",
                                        !.posted = TRUE, !.send_timer = FALSE]
                  /\ UNCHANGED <<vm, pc>>
    /\ UNCHANGED <<life, ctx, lost, timers, detached, frame, exception, pending,
                   variables, called>>

(* A subrequest ends with an error that takes the whole request with it.   *)
SubrequestFails ==
    /\ Returned /\ req.phase \notin {"terminating", "freed"}
    /\ detached > 0 \/ \E e \in EventIds : subs[e] = "running"
    /\ Terminate(req)
    /\ UNCHANGED <<ctl, called>>

(* nginx gives up its reference to a subrequest, the last one of which     *)
(* keeps a finalized request.                                              *)
SubrequestGone ==
    /\ Returned /\ req.phase # "terminating"
    /\ LET kept == req.phase # "finalized" \/ req.handler = "empty"
       IN  \/ \E e \in EventIds :
                 /\ subs[e] = "done"
                 /\ IF ~kept /\ Running = {e} /\ detached = 0
                    THEN Free
                    ELSE /\ subs' = [subs EXCEPT ![e] = "none"]
                         /\ UNCHANGED <<vm, life, ctx, lost, req, timers, detached>>
           \/ /\ detached > 0
              /\ IF ~kept /\ Running = {} /\ detached = 1
                 THEN Free
                 ELSE /\ detached' = detached - 1
                      /\ UNCHANGED <<vm, life, ctx, lost, req, timers, subs>>
    /\ UNCHANGED <<ctl, called>>

(* One iteration of the loop of njs_vm_handle_events(), run by             *)
(* ngx_http_js_handle_event().                                             *)
CallEvent ==
    /\ pc = "run" /\ Posted(vm)
    /\ LET e == Head(vm.posted_events)
       IN  /\ vm' = TakeEvent(vm)
           /\ timers' = IF Released(vm, e) THEN timers \ {e} ELSE timers
           /\ called' = called \cup {e}
    /\ Enter("callback", FALSE)
    /\ UNCHANGED <<life, ctx, lost, req, subs, detached, variables>>

(* A callback ends.  An exception ends njs_vm_run(), and the request.      *)
CallbackEnd ==
    /\ pc = "js" /\ frame = "callback"
    /\ \/ exception /\ Terminate(req) /\ Back
       \/ /\ ~exception /\ pc' = "run" /\ frame' = "none"
          /\ UNCHANGED <<host, exception, pending>>
    /\ UNCHANGED <<variables, called>>

RunDoneUnposted ==                                              \* mutant
    /\ pc = "run" /\ ~Posted(vm)
    /\ Back
    /\ UNCHANGED <<host, variables, called>>

(* njs_vm_run() returns NJS_OK and the request is posted.                  *)
RunDone ==
    /\ pc = "run" /\ ~Posted(vm)
    /\ Back
    /\ Only([req EXCEPT !.posted = TRUE])
    /\ UNCHANGED <<variables, called>>

----------------------------------------------------------------------------
(* nginx comes back to the request.                                        *)

(* ngx_http_run_posted_requests() calls write_event_handler.               *)
RunPosted ==
    /\ Returned /\ req.posted
    /\ LET r == [req EXCEPT !.posted = FALSE]
       IN  IF req.phase = "terminating" THEN Free
           ELSE IF req.handler = "js"
           THEN \E socket \in {"ready", "blocked", "error"} : ContentWriteEventHandler(r, socket)
           ELSE Only(r)
    /\ UNCHANGED <<ctl, called>>

(* The client's socket becomes writable, or the send timeout passes.       *)
WriteEvent ==
    /\ Idle /\ req.handler = "js"
    /\ \E socket \in {"ready", "blocked", "timedout", "error"} :
          /\ socket = "timedout" => req.send_timer
          /\ ContentWriteEventHandler(req, socket)
    /\ UNCHANGED <<ctl, called>>

(* Another handler of nginx's finishes the response, or the request never  *)
(* reaches the content phase.                                              *)
OtherLocationEnds ==
    /\ Advancing /\ req.phase = "early"
    /\ Close(req)
    /\ UNCHANGED <<ctl, called>>

(* The index, the try_files or the error_page of a location.               *)
OtherLocationRedirects ==
    /\ Advancing /\ req.phase = "early"
    /\ RedirectItself(req)
    /\ UNCHANGED <<ctl, called>>

----------------------------------------------------------------------------
JavaScript == SetTimer \/ ClearTimeout \/ Subrequest \/ SubrequestDetached
                \/ ReturnStatus \/ InternalRedirect \/ Throw \/ Catch

EndFrame == StartEnd \/ VariableEnd \/ ContentEnd \/ CallbackEnd

Module == CallEvent \/ RunDone \/ HandlerFails \/ Unwind

Nginx == ContentHandler \/ ContentEventHandler \/ RunPosted

Environment == Variable \/ ContentUnavailable \/ SubrequestFails \/ WriteEvent
                 \/ OtherLocationRedirects

Next == JavaScript \/ EndFrame \/ Module \/ Nginx \/ Environment
          \/ TimerHandler \/ SubrequestDone \/ SubrequestGone
          \/ OtherLocationEnds

Spec == Init /\ [][Next]_vars

(* Frames end, the module and nginx's posted requests run on, timers       *)
(* expire, subrequests and other locations finish.  The client need not    *)
(* read.                                                                   *)
FairSpec ==
    /\ Spec
    /\ WF_vars(EndFrame) /\ WF_vars(Module) /\ WF_vars(Nginx)
    /\ WF_vars(TimerHandler) /\ WF_vars(SubrequestDone)
    /\ WF_vars(SubrequestGone) /\ WF_vars(OtherLocationEnds)

----------------------------------------------------------------------------
(* Properties.  *)

(* Between two events of nginx, a waiting event of the VM has a source     *)
(* that will post it: a timer in nginx's tree or a running subrequest.     *)
(* Without one njs_vm_pending() would stay true and the request hang.  And *)
(* a request parked in the module's write event handler waits for one, or  *)
(* is posted to be finalized.                                              *)
NoLostWakeup ==
    /\ pc = "loop" /\ req.phase \notin {"terminating", "freed"} =>
           \A e \in vm.events_hash : e \in timers \/ subs[e] = "running"
    /\ Idle /\ req.handler = "js" => Pending(vm)

(* No timer of a request is left in nginx's tree when the pool with its    *)
(* ngx_event_t, its contexts and its VMs is destroyed, however it ended: a *)
(* timer belongs to a waiting event at any time before, of the VM or of    *)
(* one that a redirect left, so that deleting the event or destroying the  *)
(* VM finds it.                                                            *)
NothingDangles ==
    /\ req.phase = "freed" => timers = {} /\ life # "live" /\ pc = "loop"
    /\ req.phase # "freed" /\ pc = "loop" =>
           timers \subseteq (vm.events_hash \cap vm.host_event) \cup lost

(* A callback is called at most once, although nginx may report the end of *)
(* a subrequest several times and a script may clear any event.            *)
CalledOnce ==
    [][pc = "run" /\ pc' = "js" => Head(vm.posted_events) \notin called]_vars

(* ngx_http_js_handle_event() finds the context a timer was set in, and no *)
(* handler reads a null one, as long as the module itself asks for the     *)
(* redirects: r.internalRedirect() waits until nothing is pending.  Only a *)
(* redirect that nginx makes on its own while events wait (index,          *)
(* try_files, error_page) leaves timers behind whose handlers run without  *)
(* their context; nothing in the code prevents that.                       *)
ContextPresent ==
    req.taken \/ /\ \A e \in timers : Present(e)
                 /\ pc = "astray" => ctx.attached

(* Every request ends and its memory is released, whatever JavaScript set  *)
(* up, threw or cleared and whenever its client went away: unless an event *)
(* lost its context (see ContextPresent), or a script called return() or   *)
(* finish() after internalRedirect(), so that the request was finalized    *)
(* over the head of the location that it was redirected to.                *)
RequestEnds ==
    (req.phase = "body") ~>
        (req.phase = "freed" \/ pc = "astray" \/ req.handler = "empty")

=============================================================================
