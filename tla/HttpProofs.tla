------------------------------ MODULE HttpProofs ------------------------------
(***************************************************************************)
(* Proofs about module Http: for any number of timers, subrequests and     *)
(* variables of a request.                                                 *)
(***************************************************************************)
EXTENDS Http, EventProofs

----------------------------------------------------------------------------
(* The inductive invariant.  *)

Phases == {"early", "body", "content", "finalized", "terminating", "freed"}

Statuses == {"answered", "error", "special"}

Lives  == {"none", "unowned", "starting", "broken", "live", "destroyed"}
Frames == {"none", "content", "variable", "callback"}

Requests ==
    [phase : Phases, handler : {"core", "js", "empty"}, posted : BOOLEAN, send_timer : BOOLEAN,
     redirects : Nat, finals : Seq(Statuses), taken : BOOLEAN]

TypeOK ==
    /\ Sound(vm)
    /\ life \in Lives
    /\ ctx \in [attached : BOOLEAN, base : Nat, redirect : BOOLEAN,
                status : Statuses \cup {"unset", "done"}]
    /\ lost \subseteq Nat
    /\ req \in Requests
    /\ subs \in [EventIds -> {"none", "running", "done"}]
    /\ detached \in Nat
    /\ pc \in {"loop", "js", "run", "error", "astray"}
    /\ frame \in Frames
    /\ called \subseteq Nat

Subrequests == {e \in EventIds : subs[e] = "running"}

(* The request is about to be released, or was.                            *)
Over == req.phase \in {"terminating", "freed"} /\ req.finals = <<>>

(* Every event was given a number, those of the VM after those of the VMs  *)
(* before it; it is called once, and the host knows the timers only, which *)
(* are not subrequests.                                                    *)
EventsKnown ==
    /\ ctx.base <= vm.event_id
    /\ \A e \in vm.events_hash \cup vm.posted : ctx.base <= e /\ e \in vm.once
    /\ \A e \in Subrequests : ctx.base <= e => e \in vm.once
    /\ \A e \in vm.events_hash \cup vm.posted \cup called \cup Subrequests :
          e < vm.event_id
    /\ \A e \in lost : e < ctx.base
    /\ vm.host_event \subseteq vm.events_hash
    /\ vm.host_event \cap Subrequests = {}

(* A timer in the tree belongs to a waiting event, of this VM or another,  *)
(* and is not posted yet; nor is a running subrequest.                     *)
TimersOwned == timers \subseteq (vm.events_hash \cap vm.host_event) \cup lost

NotYetPosted == vm.posted \cap (timers \cup Subrequests) = {}

(* A called event has nothing left that could post it again.               *)
NotCalledYet ==
    called \cap (vm.events_hash \cup vm.posted \cup Subrequests) = {}

(* In the middle of a handler too, a waiting event has a source or is      *)
(* posted, and nothing is posted but while njs_vm_handle_events() runs.    *)
Awaited ==
    /\ pc # "astray" /\ ~Over =>
          vm.events_hash \subseteq timers \cup Subrequests \cup vm.posted
    /\ ~Over /\ (pc \in {"loop", "error"} \/ (pc = "js" /\ frame # "callback")) =>
          vm.posted = {}

(* Which phases the handlers of the module run in.                         *)
PhasesOfFrames ==
    /\ Over => pc = "loop"
    /\ pc \in {"js", "error"} /\ frame = "variable" => Early
    /\ pc = "js" /\ frame = "content" =>
          req.phase = IF life = "starting" THEN "body" ELSE "content"
    /\ life = "starting" => pc = "js" /\ frame \in {"variable", "content"}
    /\ pc = "run" \/ (pc = "js" /\ frame = "callback") => req.finals = <<>>
    /\ req.handler = "js" => req.phase = "content"
    /\ req.phase = "content" => ctx.status # "unset"
    /\ req.phase = "terminating" => req.posted

(* What is left of a request whose memory was released.                    *)
FreedIsGone ==
    req.phase = "freed" =>
        /\ timers = {} /\ life # "live" /\ ~req.posted /\ req.finals = <<>>
        /\ detached = 0 /\ \A e \in EventIds : subs[e] = "none"

(* Without a context there is no VM and the module does not run.           *)
Detached ==
    ~ctx.attached =>
        /\ pc \in {"loop", "astray"} /\ req.phase # "content"
        /\ vm.events_hash = {} /\ vm.posted = {}
        /\ life = "none" \/ req.phase = "freed"

Parked == Idle /\ req.handler = "js" => Pending(vm)

IInv ==
    /\ TypeOK /\ EventsKnown /\ TimersOwned /\ NotYetPosted /\ NotCalledYet
    /\ Awaited /\ PhasesOfFrames /\ FreedIsGone /\ Detached /\ Parked
    /\ ContextPresent

----------------------------------------------------------------------------
(* How a request ends, or starts again.  *)

(* The module returns to nginx.                                            *)
Ending == called' = called /\ pc' = "loop" /\ frame' \in Frames

(* No callback of the request is running, and none is posted.              *)
Settled == pc # "astray" /\ ~Over /\ vm.posted = {}

LEMMA InitInv == Init => IInv
<1> SUFFICES ASSUME Init PROVE IInv
  OBVIOUS
<1>1. /\ Sound(vm) /\ vm.events_hash = {} /\ vm.posted = {} /\ vm.host_event = {}
      /\ vm.event_id = 0 /\ Subrequests = {} /\ called = {} /\ timers = {} /\ lost = {}
  BY NewSound DEF Init, NewVM, Subrequests
<1>2. TypeOK
  BY <1>1 DEF Init, TypeOK, Phases, Requests, Lives, Frames, NoContext, Statuses
<1> QED BY <1>1, <1>2 DEF Init, IInv, EventsKnown, TimersOwned, NotYetPosted, NoContext,
       NotCalledYet, Awaited, PhasesOfFrames, FreedIsGone, Detached, Parked,
       ContextPresent, Over, Early

(* The table of a VM that is yet to be cloned.                             *)
LEMMA NextSound ==
    ASSUME Sound(vm)
    PROVE  /\ Sound(NextVM) /\ NextVM.event_id = vm.event_id
           /\ NextVM.events_hash = {} /\ NextVM.posted = {} /\ NextVM.host_event = {}
<1>1. vm.event_id \in Nat
  BY DEF Sound, VMType
<1>2. /\ NextVM \in VMType /\ NextVM.event_id = vm.event_id
      /\ NextVM.events_hash = {} /\ NextVM.posted = {} /\ NextVM.host_event = {}
      /\ NextVM.posted_events = NewVM.posted_events /\ NextVM.posted = NewVM.posted
  <2>1. /\ NewVM \in VMType /\ NewVM.events_hash = {} /\ NewVM.posted = {}
        /\ NewVM.host_event = {}
    BY NewSound DEF Sound, NewVM
  <2> QED BY <1>1, <2>1 DEF NextVM, VMType
<1> QED BY <1>2, NewSound DEF Sound

(* What the parts of the invariant say about the numbers of events, and    *)
(* about where the module's code runs.                                     *)
LEMMA NextNumber ==
    ASSUME IInv
    PROVE  LET all == vm.events_hash \cup vm.posted \cup called \cup Subrequests \cup lost
           IN  /\ vm.event_id \in Nat /\ vm.event_id < vm.event_id + 1
               /\ ctx.base \in Nat /\ ctx.base <= vm.event_id
               /\ \A e \in all : e \in Nat /\ e # vm.event_id /\ e < vm.event_id + 1
<1> DEFINE all == vm.events_hash \cup vm.posted \cup called \cup Subrequests \cup lost
<1>1. all \subseteq Nat /\ vm.event_id \in Nat /\ ctx.base \in Nat
  <2>1. Subrequests \subseteq Nat
    BY HttpAssumption DEF Subrequests, EventIds
  <2>2. /\ vm.events_hash \subseteq Nat /\ vm.posted \subseteq Nat
        /\ called \subseteq Nat /\ vm.event_id \in Nat
        /\ lost \subseteq Nat /\ ctx.base \in Nat
    BY DEF IInv, TypeOK, Sound, VMType
  <2> QED BY <2>1, <2>2
<1>2. ctx.base <= vm.event_id
  BY DEF IInv, EventsKnown
<1>3. \A e \in all : e < vm.event_id
  <2>1. \A e \in lost : e < vm.event_id
    BY <1>1, <1>2 DEF IInv, EventsKnown
  <2> QED BY <2>1 DEF IInv, EventsKnown
<1> HIDE DEF all
<1>4. \A e \in all : e \in Nat /\ e # vm.event_id /\ e < vm.event_id + 1
  BY <1>1, <1>3
<1> QED BY <1>1, <1>2, <1>4 DEF all

(* The timers of the VMs that the request had are not those of its VM.     *)
LEMMA LostApart ==
    ASSUME IInv
    PROVE  /\ timers \subseteq Nat /\ lost \cap vm.events_hash = {}
           /\ \A e \in Nat : ctx.base <= e => e \notin lost
<1>1. \A e \in Nat : ctx.base <= e => e \notin lost
  BY NextNumber DEF IInv, EventsKnown
<1> QED BY <1>1 DEF IInv, EventsKnown, TimersOwned, TypeOK, Sound, VMType

(* The module's code runs with a context, and while the request lives.     *)
LEMMA Inside ==
    ASSUME IInv, pc \in {"js", "run", "error"}
    PROVE  ctx.attached /\ ~Over /\ req.phase # "freed"
BY DEF IInv, Detached, PhasesOfFrames, Over, FreedIsGone

LEMMA FreeInv == IInv /\ Free /\ Ending => IInv'
<1> SUFFICES ASSUME IInv, Free, Ending PROVE IInv'
  OBVIOUS
<1> USE DEF IInv, Free, Ending
<1>1. /\ Sound(vm') /\ vm'.event_id = vm.event_id /\ vm'.events_hash = {}
      /\ vm'.posted = {} /\ vm'.host_event = {} /\ vm.event_id \in Nat
  BY NextSound DEF TypeOK, Sound, VMType
<1>2. TypeOK'
  <2>1. req' \in Requests
    <3>1. req \in Requests /\ <<>> \in Seq(Statuses)
      BY DEF TypeOK
    <3>2. req' = [req EXCEPT !.phase = "freed", !.handler = "core",
                             !.posted = FALSE, !.send_timer = FALSE, !.finals = <<>>]
      OBVIOUS
    <3> QED BY <3>1, <3>2 DEF Requests, Phases
  <2>2. ctx' \in [attached : BOOLEAN, base : Nat, redirect : BOOLEAN,
                  status : Statuses \cup {"unset", "done"}]
    BY <1>1 DEF NoContext
  <2>3. life' \in Lives /\ lost' \subseteq Nat /\ detached' \in Nat
        /\ subs' \in [EventIds -> {"none", "running", "done"}] /\ called' \subseteq Nat
    BY DEF TypeOK, Lives
  <2> QED BY <1>1, <2>1, <2>2, <2>3 DEF TypeOK
<1>3. Subrequests' = {} /\ timers' = {} /\ Over' /\ req'.phase = "freed"
      /\ req'.handler = "core" /\ ~req'.posted /\ req'.finals = <<>>
      /\ req'.taken = req.taken /\ ctx'.base = vm.event_id /\ ~ctx'.attached
  BY DEF TypeOK, Requests, Subrequests, TimersOwned, Over, NoContext
<1>4. EventsKnown' /\ TimersOwned' /\ NotYetPosted' /\ NotCalledYet' /\ Awaited'
  BY <1>1, <1>3 DEF EventsKnown, TimersOwned, NotYetPosted, NotCalledYet, Awaited
<1>5. life' # "starting" /\ life' # "live" /\ detached' = 0
      /\ \A e \in EventIds : subs'[e] = "none"
  BY DEF PhasesOfFrames
<1>6. PhasesOfFrames' /\ FreedIsGone' /\ Detached' /\ Parked' /\ ContextPresent'
  BY <1>1, <1>3, <1>5 DEF PhasesOfFrames, FreedIsGone, Detached, Parked, ContextPresent,
     Over, Early, Idle, Advancing
<1> QED BY <1>2, <1>4, <1>6

(* The request changes, and nothing else.                                  *)
LEMMA OnlyInv ==
    ASSUME IInv, Settled, Ending, NEW r \in Requests, Only(r),
           life # "starting", r.taken = req.taken,
           r.phase \notin {"terminating", "freed"},
           r.phase = "content" => req.phase = "content",
           r.handler = "js" => r.phase = "content" /\ (r.posted \/ Pending(vm))
    PROVE  IInv'
<1> USE DEF IInv, Settled, Ending, Only
<1>1. TypeOK' /\ Subrequests' = Subrequests /\ ~Over'
  BY DEF TypeOK, Subrequests, Over
<1>2. EventsKnown' /\ TimersOwned' /\ NotYetPosted' /\ NotCalledYet' /\ Awaited'
  BY <1>1 DEF EventsKnown, TimersOwned, NotYetPosted, NotCalledYet, Awaited
<1>3. PhasesOfFrames' /\ FreedIsGone'
  BY <1>1 DEF PhasesOfFrames, FreedIsGone
<1>4. Detached' /\ Parked' /\ ContextPresent'
  BY DEF Detached, Parked, ContextPresent, Present, Idle, Advancing, Returned, Over, FreedIsGone
<1> QED BY <1>1, <1>2, <1>3, <1>4

LEMMA TerminateInv ==
    ASSUME IInv, Ending, NEW r \in Requests, Terminate(r), r.taken = req.taken,
           life # "starting", req.phase # "freed", r.finals = <<>> \/ Settled
    PROVE  IInv'
<1> USE DEF IInv, Ending, Terminate, Only
<1>1. /\ req'.phase = "terminating" /\ req'.handler = "core" /\ req'.posted
      /\ req'.taken = req.taken /\ req'.finals = r.finals /\ req' \in Requests
  BY DEF Requests, Phases
<1>2. TypeOK' /\ Subrequests' = Subrequests
  BY <1>1 DEF TypeOK, Subrequests
<1>3. EventsKnown' /\ TimersOwned' /\ NotYetPosted' /\ NotCalledYet'
  BY <1>2 DEF EventsKnown, TimersOwned, NotYetPosted, NotCalledYet
<1>4. Awaited'
  BY <1>1, <1>2 DEF Awaited, Settled, Over
<1>5. PhasesOfFrames' /\ FreedIsGone' /\ Parked'
  BY <1>1 DEF PhasesOfFrames, FreedIsGone, Parked, Over, Early, Idle, Advancing
<1>6. Detached'
  BY <1>1 DEF Detached
<1>7. ContextPresent'
  BY <1>1 DEF ContextPresent, Present
<1> QED BY <1>2, <1>3, <1>4, <1>5, <1>6, <1>7

LEMMA CloseInv ==
    ASSUME IInv, Settled, Ending, NEW r \in Requests, Close(r), r.taken = req.taken,
           life # "starting"
    PROVE  IInv'
<1>1. CASE Free
  BY <1>1, FreeInv
<1>2. CASE Only([r EXCEPT !.phase = "finalized", !.handler = "core", !.send_timer = FALSE])
  BY <1>2, OnlyInv DEF Requests, Phases
<1> QED BY <1>1, <1>2 DEF Close

(* The context is given up when nothing waits, or r tells of it.           *)
LEMMA RedirectInv ==
    ASSUME IInv, pc # "astray", Ending, NEW r \in Requests, Redirect(r),
           ~r.taken => ~req.taken /\ vm.events_hash = {}
    PROVE  IInv'
<1> USE DEF IInv, Ending, Redirect
<1>1. /\ Sound(vm') /\ vm'.event_id = vm.event_id /\ vm'.events_hash = {}
      /\ vm'.posted = {} /\ vm'.host_event = {} /\ vm.event_id \in Nat
  BY NextSound DEF TypeOK, Sound, VMType
<1>2. /\ req'.phase = "early" /\ req'.handler = "core" /\ req'.taken = r.taken
      /\ req' \in Requests /\ ctx'.base = vm.event_id /\ ~ctx'.attached
      /\ ctx'.status = "unset" /\ life' = "none" /\ ~ctx'.redirect
  <2>1. req' = [r EXCEPT !.phase = "early", !.handler = "core", !.redirects = r.redirects + 1]
    OBVIOUS
  <2>2. /\ req'.phase = "early" /\ req'.handler = "core" /\ req'.taken = r.taken
        /\ req' \in Requests
    <3>1. r.redirects + 1 \in Nat
      BY DEF Requests
    <3> QED BY <2>1, <3>1 DEF Requests, Phases
  <2>3. ctx' = NoContext(vm.event_id) /\ life' = "none"
    OBVIOUS
  <2> QED BY <2>2, <2>3 DEF NoContext
<1>3. lost' \subseteq Nat /\ \A e \in lost' : e < vm.event_id
  BY DEF TypeOK, Sound, VMType, EventsKnown
<1>4. TypeOK' /\ Subrequests' = Subrequests /\ ~Over'
  BY <1>1, <1>2, <1>3 DEF TypeOK, Subrequests, Over, Lives, NoContext
<1>5. TimersOwned' /\ NotYetPosted' /\ NotCalledYet' /\ Awaited'
  BY <1>1, <1>4 DEF TimersOwned, NotYetPosted, NotCalledYet, Awaited
<1>6. EventsKnown'
  <2>1. Subrequests \subseteq Nat
    BY HttpAssumption DEF Subrequests, EventIds
  <2> QED BY <1>1, <1>2, <1>3, <1>4, <2>1 DEF EventsKnown, TypeOK
<1>7. PhasesOfFrames' /\ FreedIsGone' /\ Detached' /\ Parked'
  BY <1>1, <1>2, <1>4 DEF PhasesOfFrames, FreedIsGone, Detached, Parked, Early
<1>8. ContextPresent'
  <2>1. CASE r.taken
    BY <1>2, <2>1 DEF ContextPresent
  <2>2. CASE ~r.taken
    <3>1. \A e \in timers : e >= ctx.base /\ e \in lost
      BY <2>2 DEF ContextPresent, Present, TimersOwned
    <3>2. timers = {}
      BY <3>1 DEF EventsKnown, TypeOK
    <3> QED BY <3>2 DEF ContextPresent
  <2> QED BY <2>1, <2>2
<1> QED BY <1>4, <1>5, <1>6, <1>7, <1>8

LEMMA RedirectItselfInv ==
    ASSUME IInv, pc # "astray", Ending, NEW r \in Requests, RedirectItself(r),
           r.taken = req.taken
    PROVE  IInv'
<1> DEFINE q == [r EXCEPT !.taken = r.taken \/ Waiting(vm)]
<1>1. q \in Requests /\ q.taken = (req.taken \/ Waiting(vm))
  BY DEF Requests, Waiting
<1>2. Redirect(q)
  BY DEF RedirectItself
<1>3. ~q.taken => ~req.taken /\ vm.events_hash = {}
  BY <1>1 DEF Waiting
<1> HIDE DEF q
<1> QED BY <1>1, <1>2, <1>3, RedirectInv

LEMMA SpecialResponseInv ==
    ASSUME IInv, Settled, Ending, NEW r \in Requests, SpecialResponse(r), r.taken = req.taken,
           life # "starting"
    PROVE  IInv'
<1>1. CASE Close(r)
  BY <1>1, CloseInv
<1>2. CASE RedirectItself([r EXCEPT !.send_timer = FALSE])
  <2>1. [r EXCEPT !.send_timer = FALSE] \in Requests
        /\ [r EXCEPT !.send_timer = FALSE].taken = req.taken
    BY DEF Requests
  <2> QED BY <1>2, <2>1, RedirectItselfInv DEF Settled
<1> QED BY <1>1, <1>2 DEF SpecialResponse

LEMMA FinalizeInv ==
    ASSUME IInv, Settled, Ending, NEW r \in Requests, NEW status \in Statuses \cup {"done"},
           Finalize(r, status), r.taken = req.taken, life # "starting"
    PROVE  IInv'
<1>1. CASE status = "error"
  <2>1. req.phase # "freed"
    BY DEF Settled, Over, IInv, FreedIsGone
  <2> QED BY <1>1, <2>1, TerminateInv DEF Finalize
<1>2. CASE status = "special"
  BY <1>2, SpecialResponseInv DEF Finalize
<1>3. CASE status \in {"answered", "done"}
  BY <1>3, CloseInv DEF Finalize
<1> QED BY <1>1, <1>2, <1>3 DEF Statuses

LEMMA ContentFinalizeInv ==
    ASSUME IInv, Settled, Ending, NEW r \in Requests, ContentFinalize(r), r.taken = req.taken,
           life # "starting", ctx.status # "unset", ~Pending(vm)
    PROVE  IInv'
<1>1. vm.events_hash = {} /\ ctx.status \in Statuses \cup {"done"}
  BY PendingSound DEF IInv, TypeOK
<1> DEFINE q == IF ctx.status = "done" THEN r ELSE [r EXCEPT !.finals = Append(r.finals, ctx.status)]
           s == IF ctx.redirect /\ ctx.status = "done" THEN "special" ELSE ctx.status
<1>2. CASE Redirect(q)
  <2>1. q \in Requests /\ q.taken = req.taken
    BY <1>1 DEF Requests
  <2> QED BY <1>1, <1>2, <2>1, RedirectInv DEF Settled
<1>3. CASE Finalize(r, s)
  <2>1. s \in Statuses \cup {"done"}
    BY <1>1 DEF Statuses
  <2> QED BY <1>3, <2>1, FinalizeInv
<1> QED BY <1>2, <1>3 DEF ContentFinalize

----------------------------------------------------------------------------
(* JavaScript.  *)

LEMMA SetTimerInv == IInv /\ SetTimer => IInv'
<1> SUFFICES ASSUME IInv, SetTimer PROVE IInv'
  OBVIOUS
<1> USE DEF IInv, SetTimer, InJS, ctl
<1>1. /\ Sound(vm') /\ vm'.event_id = vm.event_id + 1
      /\ vm'.events_hash = vm.events_hash \cup {vm.event_id}
      /\ vm'.posted = vm.posted
      /\ vm'.once = vm.once \cup {vm.event_id}
      /\ vm'.host_event = vm.host_event \cup {vm.event_id}
  <2>1. Sound(vm) /\ vm' = AddEvent(vm, TRUE, TRUE)
    BY DEF TypeOK
  <2> QED BY <2>1, AddTimer
<1>2. vm.event_id \in Nat /\ Subrequests' = Subrequests /\ Over' = Over
  BY DEF TypeOK, Sound, VMType, Subrequests, Over
<1>3. TypeOK'
  BY <1>1 DEF TypeOK
<1>4. EventsKnown' /\ TimersOwned'
  <2>1. TimersOwned'
    BY <1>1 DEF TimersOwned
  <2>2. ctx' = ctx /\ lost' = lost /\ called' = called
    OBVIOUS
  <2>3. /\ vm.event_id \notin Subrequests /\ ctx.base <= vm.event_id
        /\ ctx.base <= vm.event_id + 1 /\ vm.event_id < vm.event_id + 1
        /\ \A e \in vm.events_hash \cup vm.posted \cup called \cup Subrequests :
              e < vm.event_id + 1
    BY NextNumber
  <2>4. EventsKnown
    OBVIOUS
  <2> QED BY ONLY <1>1, <1>2, <2>1, <2>2, <2>3, <2>4 DEF EventsKnown
<1>5. NotYetPosted' /\ NotCalledYet' /\ Awaited'
  <2>1. vm.event_id \notin vm.posted \cup called \cup Subrequests
    BY NextNumber
  <2>2. /\ timers' = timers \cup {vm.event_id} /\ called' = called
        /\ pc' = pc /\ frame' = frame
    OBVIOUS
  <2>3. NotYetPosted /\ NotCalledYet /\ Awaited
    OBVIOUS
  <2> QED BY ONLY <1>1, <1>2, <2>1, <2>2, <2>3 DEF NotYetPosted, NotCalledYet, Awaited
<1>6. PhasesOfFrames' /\ FreedIsGone' /\ Detached' /\ Parked' /\ ContextPresent'
  <2>1. ctx.attached /\ vm.event_id >= ctx.base /\ ~Over /\ req.phase # "freed"
    BY Inside, NextNumber
  <2> QED BY <1>2, <2>1 DEF PhasesOfFrames, FreedIsGone, Detached, Parked,
             ContextPresent, Present, Early, Idle, Advancing
<1> QED BY <1>3, <1>4, <1>5, <1>6

LEMMA ClearTimeoutInv == IInv /\ ClearTimeout => IInv'
<1> SUFFICES ASSUME IInv, ClearTimeout PROVE IInv'
  OBVIOUS
<1> USE DEF IInv, ClearTimeout, InJS, ctl
<1>0. PICK e \in vm.events_hash :
         /\ vm' = DelEvent(vm, e)
         /\ timers' = IF Released(vm, e) THEN timers \ {e} ELSE timers
  OBVIOUS
<1>1. /\ Sound(vm') /\ vm'.event_id = vm.event_id
      /\ vm'.events_hash = vm.events_hash \ {e}
      /\ vm'.posted = vm.posted \ {e} /\ vm'.once = vm.once
      /\ vm'.host_event = vm.host_event \ {e}
  BY <1>0, DelSound DEF TypeOK
<1>2. Subrequests' = Subrequests /\ Over' = Over /\ timers' = timers \ {e}
  <2>1. e \notin lost
    BY LostApart
  <2> QED BY <1>0, <2>1 DEF Subrequests, Over, Released, TimersOwned
<1>3. TypeOK'
  BY <1>1 DEF TypeOK
<1>4. EventsKnown' /\ TimersOwned'
  BY <1>1, <1>2 DEF EventsKnown, TimersOwned
<1>5. NotYetPosted' /\ NotCalledYet' /\ Awaited'
  BY <1>1, <1>2 DEF NotYetPosted, NotCalledYet, Awaited
<1>6. PhasesOfFrames' /\ FreedIsGone' /\ Detached' /\ Parked' /\ ContextPresent'
  BY <1>2 DEF PhasesOfFrames, FreedIsGone, Detached, Parked, ContextPresent,
     Present, Over, Early, Idle, Advancing
<1> QED BY <1>3, <1>4, <1>5, <1>6

LEMMA SubrequestInv == IInv /\ Subrequest => IInv'
<1> SUFFICES ASSUME IInv, Subrequest PROVE IInv'
  OBVIOUS
<1> USE DEF IInv, Subrequest, WithHttp, InJS
<1> DEFINE a == AddEvent(vm, TRUE, FALSE)
           n == vm.event_id
<1>1. /\ Sound(a) /\ a.event_id = n + 1
      /\ a.events_hash = vm.events_hash \cup {n} /\ a.posted = vm.posted
      /\ a.once = vm.once \cup {n} /\ a.host_event = vm.host_event
  BY AddOnce DEF TypeOK
<1>2. n \in Nat /\ n \in EventIds /\ Over' = Over
  BY HttpAssumption DEF TypeOK, Sound, VMType, EventIds, Over
<1> HIDE DEF a
<1>3. PhasesOfFrames' /\ FreedIsGone' /\ Detached' /\ Parked' /\ ContextPresent'
  BY <1>2 DEF PhasesOfFrames, FreedIsGone, Detached, Parked, ContextPresent,
     Present, Over, Early, Idle, Advancing
<1>4. CASE vm' = a /\ subs' = [subs EXCEPT ![n] = "running"] /\ exception' \in BOOLEAN
  <2>1. Subrequests' = Subrequests \cup {n}
    BY <1>2, <1>4 DEF Subrequests, TypeOK
  <2>2. TypeOK'
    BY <1>1, <1>4 DEF TypeOK
  <2>3. EventsKnown' /\ TimersOwned'
    <3>1. TimersOwned'
      BY <1>1, <1>4 DEF TimersOwned
    <3>2. ctx' = ctx /\ lost' = lost /\ called' = called
      OBVIOUS
    <3> QED BY <1>1, <1>4, <2>1, <3>1, <3>2, NextNumber DEF EventsKnown
  <2>4. NotYetPosted' /\ NotCalledYet' /\ Awaited'
    BY <1>1, <1>2, <1>4, <2>1 DEF EventsKnown, NotYetPosted, NotCalledYet,
       Awaited, TimersOwned
  <2> QED BY <1>3, <2>2, <2>3, <2>4
<1>5. CASE vm' = DelEvent(a, n) /\ exception' = TRUE /\ UNCHANGED subs
  <2>1. /\ Sound(vm') /\ vm'.event_id = n + 1
        /\ vm'.events_hash = vm.events_hash /\ vm'.posted = vm.posted
        /\ vm'.once = vm.once \cup {n} /\ vm'.host_event = vm.host_event
    <3>1. n \notin vm.events_hash \cup vm.posted \cup vm.host_event
      BY NextNumber DEF EventsKnown
    <3>2. /\ Sound(vm') /\ vm'.event_id = a.event_id
          /\ vm'.events_hash = a.events_hash \ {n} /\ vm'.posted = a.posted \ {n}
          /\ vm'.once = a.once /\ vm'.host_event = a.host_event \ {n}
      BY <1>1, <1>5, DelSound
    <3> QED BY <1>1, <3>1, <3>2
  <2>2. Subrequests' = Subrequests
    BY <1>5 DEF Subrequests
  <2>3. TypeOK'
    BY <2>1, <1>5 DEF TypeOK
  <2>4. EventsKnown' /\ TimersOwned'
    <3>1. TimersOwned'
      BY <2>1 DEF TimersOwned
    <3>2. ctx' = ctx /\ lost' = lost /\ called' = called
      OBVIOUS
    <3> QED BY <2>1, <2>2, <3>1, <3>2, NextNumber DEF EventsKnown
  <2>5. NotYetPosted' /\ NotCalledYet' /\ Awaited'
    BY <2>1, <2>2, <1>2 DEF NotYetPosted, NotCalledYet, Awaited
  <2> QED BY <1>3, <2>3, <2>4, <2>5
<1> QED BY <1>4, <1>5 DEF a

(* The functions that leave the events alone.                              *)
LEMMA OtherJavaScriptInv ==
    IInv /\ (SubrequestDetached \/ ReturnStatus \/ InternalRedirect \/ Throw \/ Catch)
        => IInv'
<1> SUFFICES ASSUME IInv, SubrequestDetached \/ ReturnStatus \/ InternalRedirect
                            \/ Throw \/ Catch
             PROVE  IInv'
  OBVIOUS
<1> USE DEF IInv, WithHttp, InJS, ctl, host
<1>1. /\ UNCHANGED <<vm, life, lost, req, timers, subs, pc, frame, called>>
      /\ pc = "js" /\ ctx'.attached = ctx.attached /\ ctx'.base = ctx.base
      /\ ctx'.status = ctx.status \/ ctx'.status # "unset"
      /\ TypeOK'
  <2>1. CASE SubrequestDetached
    BY <2>1 DEF TypeOK, SubrequestDetached
  <2>2. CASE ReturnStatus
    BY <2>2 DEF TypeOK, ReturnStatus, Statuses
  <2>3. CASE InternalRedirect
    BY <2>3 DEF TypeOK, InternalRedirect
  <2>4. CASE Throw \/ Catch
    BY <2>4 DEF TypeOK, Throw, Catch
  <2> QED BY <2>1, <2>2, <2>3, <2>4
<1>2. Subrequests' = Subrequests /\ Over' = Over
  BY <1>1 DEF Subrequests, Over
<1>3. EventsKnown' /\ TimersOwned' /\ NotYetPosted' /\ NotCalledYet' /\ Awaited'
  BY <1>1, <1>2 DEF EventsKnown, TimersOwned, NotYetPosted, NotCalledYet, Awaited
<1>4. PhasesOfFrames' /\ FreedIsGone' /\ Detached' /\ Parked' /\ ContextPresent'
  BY <1>1 DEF PhasesOfFrames, FreedIsGone, Detached, Parked, ContextPresent, Present,
     Over, Early, Idle, Advancing
<1> QED BY <1>1, <1>3, <1>4

----------------------------------------------------------------------------
(* The handlers of the module, and nginx.  *)

LEMMA SettledLoop ==
    ASSUME IInv, ~Over, pc \in {"loop", "error"} \/ (pc = "js" /\ frame # "callback")
    PROVE  Settled
BY DEF IInv, Awaited, Settled

(* A function is called, with a VM that has been set up.                   *)
LEMMA CallInv ==
    ASSUME IInv, Settled, NEW f \in {"variable", "content"}, Call(f),
           UNCHANGED <<vm, lost, timers, subs, detached, called>>,
           ctx.attached, Early, f = "content" => req.phase = "body",
           life' \in Lives \ {"starting"}
    PROVE  IInv'
<1> USE DEF IInv, Settled, Call, Enter, Fail, Back
<1>1. /\ req' \in Requests /\ req'.handler = req.handler /\ req'.posted = req.posted
      /\ req'.finals = req.finals /\ req'.taken = req.taken
      /\ req'.phase = req.phase \/ req'.phase = "content"
      /\ ctx'.attached /\ ctx'.base = ctx.base
  BY DEF TypeOK, Requests, Phases
<1>2. TypeOK' /\ Subrequests' = Subrequests /\ ~Over'
  BY <1>1 DEF TypeOK, Subrequests, Over, Early, Frames, Statuses
<1>3. EventsKnown' /\ TimersOwned' /\ NotYetPosted' /\ NotCalledYet' /\ Awaited'
  BY <1>1, <1>2 DEF EventsKnown, TimersOwned, NotYetPosted, NotCalledYet, Awaited
<1>4. PhasesOfFrames' /\ FreedIsGone'
  BY <1>1, <1>2 DEF PhasesOfFrames, FreedIsGone, Early, TypeOK, Requests
<1>5. Detached' /\ Parked' /\ ContextPresent'
  BY <1>1 DEF Detached, Parked, ContextPresent, Present, Early, PhasesOfFrames, Idle, Advancing
<1> QED BY <1>2, <1>3, <1>4, <1>5

LEMMA InitVMInv ==
    ASSUME IInv, NEW f \in {"variable", "content"}, InitVM(f), Advancing, Early,
           f = "content" => req.phase = "body",
           UNCHANGED <<vm, lost, timers, subs, detached, called>>
    PROVE  IInv'
<1>1. Settled /\ pc = "loop" /\ life # "starting"
  BY SettledLoop DEF Advancing, Early, Over, IInv, PhasesOfFrames
<1>2. CASE life # "none" /\ Call(f) /\ UNCHANGED life
  <2>1. ctx.attached /\ life' \in Lives \ {"starting"}
    BY <1>1, <1>2 DEF IInv, TypeOK, Detached, Early
  <2> QED BY <1>1, <1>2, <2>1, CallInv
<1>3. CASE /\ life = "none"
           /\ ctx' = [ctx EXCEPT !.attached = TRUE] /\ UNCHANGED req
           /\ \/ life' = "starting" /\ Enter(f, FALSE)
              \/ life' \in {"none", "unowned"} /\ Fail(f)
  <2> USE DEF IInv, Settled, Enter, Fail
  <2>1. ctx'.attached /\ ctx'.base = ctx.base /\ ctx'.status = ctx.status
    BY <1>3 DEF TypeOK
  <2>2. TypeOK' /\ Subrequests' = Subrequests /\ ~Over'
    BY <1>1, <1>3 DEF TypeOK, Subrequests, Over, Frames, Lives
  <2>3. EventsKnown' /\ TimersOwned' /\ NotYetPosted' /\ NotCalledYet' /\ Awaited'
    BY <1>1, <1>3, <2>1, <2>2 DEF EventsKnown, TimersOwned, NotYetPosted, NotCalledYet, Awaited
  <2>4. PhasesOfFrames' /\ FreedIsGone'
    BY <1>1, <1>3, <2>1, <2>2 DEF PhasesOfFrames, FreedIsGone, Early
  <2>5. Detached' /\ Parked' /\ ContextPresent'
    BY <1>1, <1>3, <2>1 DEF Detached, Parked, ContextPresent, Present, Idle, Advancing
  <2> QED BY <2>2, <2>3, <2>4, <2>5
<1> QED BY <1>2, <1>3 DEF InitVM

LEMMA VariableInv == IInv /\ Variable => IInv'
BY InitVMInv DEF Variable

LEMMA ContentEventHandlerInv == IInv /\ ContentEventHandler => IInv'
BY InitVMInv DEF ContentEventHandler, Early

LEMMA StartEndInv == IInv /\ StartEnd => IInv'
<1> SUFFICES ASSUME IInv, StartEnd PROVE IInv'
  OBVIOUS
<1>1. /\ frame \in {"variable", "content"} /\ Early /\ ctx.attached /\ ~Over
      /\ frame = "content" => req.phase = "body"
  BY DEF IInv, PhasesOfFrames, Detached, Early, StartEnd, Over
<1>2. Settled
  BY <1>1, SettledLoop DEF StartEnd
<1>3. CASE ~exception /\ life' = "live" /\ Call(frame)
  BY <1>1, <1>2, <1>3, CallInv DEF StartEnd, Lives
<1>4. CASE exception /\ life' = "broken" /\ Fail(frame) /\ UNCHANGED <<ctx, req>>
  <2> USE DEF IInv, StartEnd, Settled, Fail
  <2>1. TypeOK' /\ Subrequests' = Subrequests /\ ~Over'
    BY <1>1, <1>4 DEF TypeOK, Subrequests, Over, Lives, Frames
  <2>2. EventsKnown' /\ TimersOwned' /\ NotYetPosted' /\ NotCalledYet' /\ Awaited'
    BY <1>2, <1>4, <2>1 DEF EventsKnown, TimersOwned, NotYetPosted, NotCalledYet, Awaited
  <2>3. PhasesOfFrames' /\ FreedIsGone'
    BY <1>1, <1>4, <2>1 DEF PhasesOfFrames, FreedIsGone, Early
  <2>4. Detached' /\ Parked' /\ ContextPresent'
    BY <1>1, <1>4 DEF Detached, Parked, ContextPresent, Present, Idle, Advancing
  <2> QED BY <2>1, <2>2, <2>3, <2>4
<1> QED BY <1>3, <1>4 DEF StartEnd

(* Steps that leave the module with the request as it is, or finalized.    *)
LEMMA HandlerFailsInv == IInv /\ HandlerFails => IInv'
<1> SUFFICES ASSUME IInv, HandlerFails PROVE IInv'
  OBVIOUS
<1>1. ~Over /\ Ending /\ life # "starting" /\ req \in Requests
  BY DEF HandlerFails, Back, Ending, Frames, IInv, PhasesOfFrames, TypeOK
<1>2. Settled
  BY <1>1, SettledLoop DEF HandlerFails
<1>3. CASE SpecialResponse(req)
  BY <1>1, <1>2, <1>3, SpecialResponseInv
<1>4. CASE frame = "variable" /\ UNCHANGED host
  <2>1. Only(req) /\ Early /\ req.handler # "js"
    BY <1>4 DEF host, Only, IInv, PhasesOfFrames, HandlerFails, Early
  <2> QED BY <1>1, <1>2, <2>1, OnlyInv DEF Early
<1> QED BY <1>3, <1>4 DEF HandlerFails

LEMMA VariableEndInv == IInv /\ VariableEnd => IInv'
<1> SUFFICES ASSUME IInv, VariableEnd PROVE IInv'
  OBVIOUS
<1>1. /\ Early /\ ~Over /\ req \in Requests /\ life # "starting" /\ Only(req)
      /\ req.handler # "js" /\ ctx.attached /\ called' = called
  BY DEF IInv, PhasesOfFrames, Early, Over, VariableEnd, TypeOK, host, Only, Detached
<1>2. Settled
  BY <1>1, SettledLoop DEF VariableEnd
<1>3. CASE Back
  <2>1. Ending
    BY <1>1, <1>3 DEF Ending, Back, Frames
  <2> QED BY <1>1, <1>2, <2>1, OnlyInv DEF Early
<1>4. CASE Fail(frame)
  <2> USE DEF IInv, Settled, Fail, Only
  <2>1. TypeOK' /\ Subrequests' = Subrequests /\ ~Over' /\ pc' = "error"
        /\ frame' = "variable"
    BY <1>1, <1>4 DEF TypeOK, Subrequests, Over, VariableEnd
  <2>2. EventsKnown' /\ TimersOwned' /\ NotYetPosted' /\ NotCalledYet' /\ Awaited'
    BY <1>1, <1>2, <2>1 DEF EventsKnown, TimersOwned, NotYetPosted, NotCalledYet, Awaited
  <2>3. PhasesOfFrames' /\ FreedIsGone' /\ Detached' /\ Parked' /\ ContextPresent'
    BY <1>1, <2>1 DEF PhasesOfFrames, FreedIsGone, Detached, Parked,
       ContextPresent, Present, Early, Idle, Advancing
  <2> QED BY <2>1, <2>2, <2>3
<1> QED BY <1>3, <1>4 DEF VariableEnd

LEMMA ContentHandlerInv == IInv /\ ContentHandler => IInv'
<1> SUFFICES ASSUME IInv, ContentHandler PROVE IInv'
  OBVIOUS
<1> DEFINE r == [req EXCEPT !.phase = "body"]
<1>1. /\ ~Over /\ Ending /\ life # "starting" /\ pc = "loop" /\ Only(r)
      /\ r \in Requests /\ r.taken = req.taken /\ r.phase = "body" /\ r.handler # "js"
  BY DEF ContentHandler, Advancing, Over, Ending, ctl, IInv, PhasesOfFrames, TypeOK,
     Requests, Phases, Only
<1> HIDE DEF r
<1> QED BY <1>1, SettledLoop, OnlyInv

LEMMA ContentUnavailableInv == IInv /\ ContentUnavailable => IInv'
<1> SUFFICES ASSUME IInv, ContentUnavailable PROVE IInv'
  OBVIOUS
<1>1. ~Over /\ pc = "loop" /\ Ending /\ req \in Requests /\ life # "starting"
  BY DEF ContentUnavailable, Over, Advancing, Ending, ctl, IInv, TypeOK, PhasesOfFrames
<1> QED BY <1>1, SettledLoop, SpecialResponseInv DEF ContentUnavailable

LEMMA ContentEndInv == IInv /\ ContentEnd => IInv'
<1> SUFFICES ASSUME IInv, ContentEnd PROVE IInv'
  OBVIOUS
<1>1. /\ req.phase = "content" /\ ~Over /\ req \in Requests /\ life # "starting"
      /\ ctx.status # "unset" /\ ctx.attached
  BY DEF IInv, PhasesOfFrames, Over, Detached, ContentEnd, TypeOK
<1>2. Settled
  BY <1>1, SettledLoop DEF ContentEnd
<1>3. CASE exception /\ Fail(frame) /\ UNCHANGED host
  <2> USE DEF IInv, Settled, Fail, host
  <2>1. TypeOK' /\ Subrequests' = Subrequests /\ ~Over' /\ pc' = "error"
        /\ frame' = "content" /\ called' = called
    BY <1>1, <1>3 DEF TypeOK, Subrequests, Over, ContentEnd
  <2>2. EventsKnown' /\ TimersOwned' /\ NotYetPosted' /\ NotCalledYet' /\ Awaited'
    BY <1>2, <1>3, <2>1 DEF EventsKnown, TimersOwned, NotYetPosted, NotCalledYet, Awaited
  <2>3. PhasesOfFrames' /\ FreedIsGone' /\ Detached' /\ Parked' /\ ContextPresent'
    BY <1>1, <1>3, <2>1 DEF PhasesOfFrames, FreedIsGone, Detached, Parked,
       ContextPresent, Present, Early, Idle, Advancing
  <2> QED BY <2>1, <2>2, <2>3
<1>4. CASE Back /\ Pending(vm) /\ Only([req EXCEPT !.handler = "js"])
  <2> DEFINE r == [req EXCEPT !.handler = "js"]
  <2>1. /\ Ending /\ r \in Requests /\ r.taken = req.taken /\ r.phase = "content"
    BY <1>1, <1>4 DEF Ending, Back, Frames, Requests, ContentEnd
  <2>2. Only(r)
    BY <1>4
  <2> HIDE DEF r
  <2> QED BY <1>1, <1>2, <1>4, <2>1, <2>2, OnlyInv
<1>5. CASE Back /\ ~Pending(vm) /\ ContentFinalize(req)
  <2>1. Ending
    BY <1>5 DEF Ending, Back, Frames, ContentEnd
  <2> QED BY <1>1, <1>2, <1>5, <2>1, ContentFinalizeInv
<1> QED BY <1>3, <1>4, <1>5 DEF ContentEnd

(* nginx comes back to the module's write event handler.                   *)
LEMMA WriteHandlerInv ==
    ASSUME IInv, Ending, pc = "loop", req.handler = "js", req.finals = <<>>,
           NEW p \in BOOLEAN, NEW socket,
           ContentWriteEventHandler([req EXCEPT !.posted = p], socket)
    PROVE  IInv'
<1> DEFINE r == [req EXCEPT !.posted = p]
<1>1. /\ req.phase = "content" /\ ~Over /\ ctx.status # "unset" /\ life # "starting"
      /\ r \in Requests /\ r.taken = req.taken /\ r.phase = "content" /\ r.finals = <<>>
  BY DEF IInv, PhasesOfFrames, Over, TypeOK, Requests
<1>2. Settled
  BY <1>1, SettledLoop
<1>3. CASE ~Pending(vm) /\ ContentFinalize(r)
  <2> HIDE DEF r
  <2> QED BY <1>1, <1>2, <1>3, ContentFinalizeInv
<1>4. CASE Terminate(r)
  <2> HIDE DEF r
  <2> QED BY <1>1, <1>4, TerminateInv
<1>5. CASE Pending(vm) /\ Only([r EXCEPT !.send_timer = (socket = "blocked")])
  <2> DEFINE q == [r EXCEPT !.send_timer = (socket = "blocked")]
  <2>1. q \in Requests /\ q.taken = req.taken /\ q.phase = "content"
    BY <1>1 DEF Requests
  <2>2. Only(q)
    BY <1>5
  <2> HIDE DEF r, q
  <2> QED BY <1>1, <1>2, <1>5, <2>1, <2>2, OnlyInv
<1> QED BY <1>3, <1>4, <1>5 DEF ContentWriteEventHandler

LEMMA WriteEventInv == IInv /\ WriteEvent => IInv'
<1> SUFFICES ASSUME IInv, WriteEvent PROVE IInv'
  OBVIOUS
<1>1. Ending /\ pc = "loop" /\ req.handler = "js" /\ req.finals = <<>>
  BY DEF WriteEvent, Idle, Advancing, Returned, Ending, ctl, IInv, TypeOK
<1>2. req = [req EXCEPT !.posted = req.posted] /\ req.posted \in BOOLEAN
  BY DEF IInv, TypeOK, Requests
<1> QED BY <1>1, <1>2, WriteHandlerInv DEF WriteEvent

LEMMA RunPostedInv == IInv /\ RunPosted => IInv'
<1> SUFFICES ASSUME IInv, RunPosted PROVE IInv'
  OBVIOUS
<1> DEFINE r == [req EXCEPT !.posted = FALSE]
<1>1. Ending /\ pc = "loop" /\ req.posted /\ req.finals = <<>> /\ life # "starting"
  BY DEF RunPosted, Returned, Ending, ctl, IInv, TypeOK, PhasesOfFrames
<1>2. CASE Free
  BY <1>1, <1>2, FreeInv
<1>3. CASE /\ req.handler = "js"
           /\ \E socket \in {"ready", "blocked", "error"} : ContentWriteEventHandler(r, socket)
  BY <1>1, <1>3, WriteHandlerInv
<1>4. CASE req.phase # "terminating" /\ req.handler # "js" /\ Only(r)
  <2>1. /\ r \in Requests /\ r.taken = req.taken /\ r.phase = req.phase
        /\ r.handler = req.handler /\ req.phase # "freed"
    BY <1>1 DEF IInv, TypeOK, Requests, FreedIsGone
  <2>2. ~Over
    BY <1>4, <2>1 DEF Over
  <2>3. Only(r)
    BY <1>4
  <2> HIDE DEF r
  <2> QED BY <1>1, <1>4, <2>1, <2>2, <2>3, SettledLoop, OnlyInv
<1> QED BY <1>2, <1>3, <1>4 DEF RunPosted

(* The request is finalized behind its redirect.                           *)
LEMMA UnwindInv == IInv /\ Unwind => IInv'
<1> SUFFICES ASSUME IInv, Unwind PROVE IInv'
  OBVIOUS
<1> DEFINE r == [req EXCEPT !.finals = Front(req.finals)]
<1>1. /\ Ending /\ pc = "loop" /\ ~Over /\ life # "starting" /\ req.phase # "freed"
  BY DEF Unwind, Ending, ctl, IInv, TypeOK, PhasesOfFrames, Over, FreedIsGone
<1>2. Settled
  BY <1>1, SettledLoop
<1>3. /\ r \in Requests /\ r.taken = req.taken /\ r.phase = req.phase
      /\ r.handler = req.handler /\ r.posted = req.posted
  <2>1. req \in Requests /\ req.finals \in Seq(Statuses) /\ req.finals # <<>>
    BY DEF Unwind, IInv, TypeOK, Requests
  <2>2. Front(req.finals) \in Seq(Statuses)
    BY <2>1 DEF Front
  <2> QED BY <2>1, <2>2 DEF Requests
<1>4. CASE Terminate(r)
  <2> HIDE DEF r
  <2> QED BY <1>1, <1>2, <1>3, <1>4, TerminateInv
<1>5. CASE RedirectItself([r EXCEPT !.send_timer = FALSE])
  <2> DEFINE q == [r EXCEPT !.send_timer = FALSE]
  <2> HIDE DEF r
  <2>1. q \in Requests /\ q.taken = req.taken
    BY <1>3 DEF Requests
  <2>2. RedirectItself(q)
    BY <1>5
  <2> HIDE DEF q
  <2> QED BY <1>1, <1>2, <2>1, <2>2, RedirectItselfInv
<1>6. CASE Close(r)
  <2> HIDE DEF r
  <2> QED BY <1>1, <1>2, <1>3, <1>6, CloseInv
<1>7. CASE Only([r EXCEPT !.handler = "empty",
                          !.phase = IF r.phase = "terminating" THEN "finalized" ELSE r.phase])
  <2> DEFINE q == [r EXCEPT !.handler = "empty",
                            !.phase = IF r.phase = "terminating" THEN "finalized" ELSE r.phase]
  <2> HIDE DEF r
  <2>1. /\ q \in Requests /\ q.taken = req.taken /\ q.handler = "empty"
        /\ q.phase \notin {"terminating", "freed"}
        /\ q.phase = "content" => req.phase = "content"
    BY <1>1, <1>3 DEF Requests, Phases
  <2>2. Only(q)
    BY <1>7
  <2> HIDE DEF q
  <2> QED BY <1>1, <1>2, <2>1, <2>2, OnlyInv
<1> QED BY <1>4, <1>5, <1>6, <1>7 DEF Unwind

LEMMA OtherLocationInv == IInv /\ (OtherLocationEnds \/ OtherLocationRedirects) => IInv'
<1> SUFFICES ASSUME IInv, OtherLocationEnds \/ OtherLocationRedirects PROVE IInv'
  OBVIOUS
<1>1. ~Over /\ pc = "loop" /\ Ending /\ req \in Requests /\ life # "starting"
  BY DEF OtherLocationEnds, OtherLocationRedirects, Over, Advancing, Ending, ctl, IInv,
     TypeOK, PhasesOfFrames
<1>2. Settled
  BY <1>1, SettledLoop
<1> QED BY <1>1, <1>2, CloseInv, RedirectItselfInv DEF OtherLocationEnds, OtherLocationRedirects

----------------------------------------------------------------------------
(* Events.  *)

LEMMA TimerHandlerInv == IInv /\ TimerHandler => IInv'
<1> SUFFICES ASSUME IInv, TimerHandler PROVE IInv'
  OBVIOUS
<1> USE DEF IInv, TimerHandler
<1>1. PICK e \in timers : timers' = timers \ {e} /\ HandleEvent(e)
  OBVIOUS
<1>2. /\ pc = "loop" /\ ~Over /\ ~req.posted /\ req.finals = <<>> /\ life # "starting"
  BY DEF FreedIsGone, PhasesOfFrames, Over, Idle, Advancing, Returned
<1>3. Subrequests' = Subrequests /\ ~Over'
  BY <1>2 DEF Subrequests, Over
<1>4. CASE Present(e)
  <2>1. vm' = PostEvent(vm, e) /\ pc' = "run"
    BY <1>1, <1>4 DEF HandleEvent
  <2>2. /\ e \in vm.events_hash /\ e \in vm.host_event /\ e \in Nat
        /\ e \notin Subrequests /\ e \notin called
    <3>1. e \notin lost
      BY <1>4, LostApart, NextNumber DEF Present
    <3> QED BY <3>1 DEF TimersOwned, EventsKnown, NotCalledYet, TypeOK, Sound, VMType
  <2>3. /\ Sound(vm') /\ vm'.event_id = vm.event_id
        /\ vm'.events_hash = vm.events_hash /\ vm'.posted = vm.posted \cup {e}
        /\ vm'.once = vm.once /\ vm'.host_event = vm.host_event
    BY <2>1, <2>2, PostSound DEF TypeOK
  <2>4. TypeOK'
    BY <2>1, <2>3 DEF TypeOK
  <2>5. EventsKnown'
    BY <1>3, <2>1, <2>2, <2>3 DEF EventsKnown
  <2>6. TimersOwned' /\ NotYetPosted' /\ NotCalledYet' /\ Awaited'
    BY <1>1, <1>2, <1>3, <2>1, <2>2, <2>3 DEF TimersOwned, NotYetPosted, NotCalledYet, Awaited
  <2>7. PhasesOfFrames' /\ FreedIsGone' /\ Detached' /\ Parked' /\ ContextPresent'
    BY <1>1, <1>2, <1>4, <2>1 DEF PhasesOfFrames, FreedIsGone, Detached, Parked,
       ContextPresent, Present, Over, Early, Idle, Advancing
  <2> QED BY <2>4, <2>5, <2>6, <2>7
<1>5. CASE ~Present(e)
  <2>1. vm' = vm /\ pc' = "astray" /\ req.taken
    BY <1>1, <1>2, <1>5 DEF HandleEvent, ContextPresent
  <2>2. TypeOK'
    BY <2>1 DEF TypeOK
  <2>3. EventsKnown' /\ TimersOwned' /\ NotYetPosted' /\ NotCalledYet' /\ Awaited'
    BY <1>1, <1>2, <1>3, <2>1 DEF EventsKnown, TimersOwned, NotYetPosted,
       NotCalledYet, Awaited
  <2>4. PhasesOfFrames' /\ FreedIsGone' /\ Detached' /\ Parked' /\ ContextPresent'
    BY <1>2, <2>1 DEF PhasesOfFrames, FreedIsGone, Detached, Parked,
       ContextPresent, Over, Early, Idle, Advancing
  <2> QED BY <2>2, <2>3, <2>4
<1> QED BY <1>4, <1>5

LEMMA SubrequestDoneInv == IInv /\ SubrequestDone => IInv'
<1> SUFFICES ASSUME IInv, SubrequestDone PROVE IInv'
  OBVIOUS
<1> USE DEF IInv, SubrequestDone
<1>1. PICK e \in EventIds :
         /\ subs[e] = "running"
         /\ subs' = [subs EXCEPT ![e] = "done"]
         /\ IF ctx.attached
            THEN HandleEvent(e) /\ UNCHANGED req
            ELSE /\ req' = [req EXCEPT !.phase = "terminating", !.handler = "core",
                                       !.posted = TRUE, !.send_timer = FALSE]
                 /\ UNCHANGED <<vm, pc>>
  OBVIOUS
<1>2. /\ e \in Subrequests /\ e \in Nat /\ e < vm.event_id
      /\ e \notin vm.host_event /\ e \notin vm.posted /\ e \notin called
      /\ ~Over /\ pc = "loop" /\ req.finals = <<>> /\ life # "starting"
      /\ Subrequests' = Subrequests \ {e}
  BY <1>1, HttpAssumption DEF Subrequests, EventIds, EventsKnown, Returned,
     NotYetPosted, NotCalledYet, FreedIsGone, Over, TypeOK, PhasesOfFrames
<1>3. CASE Present(e)
  <2>1. vm' = PostEvent(vm, e) /\ pc' = "run" /\ req' = req /\ ctx.attached
    BY <1>1, <1>3 DEF HandleEvent, Present
  <2>2. e \notin timers /\ e \in vm.once /\ ctx.base <= e
    <3>1. ctx.base <= e /\ e \notin lost
      BY <1>2, <1>3, LostApart, NextNumber DEF Present
    <3> QED BY <1>2, <3>1 DEF EventsKnown, TimersOwned
  <2>3. /\ Sound(vm') /\ vm'.event_id = vm.event_id
        /\ vm'.events_hash = vm.events_hash /\ vm'.posted = vm.posted \cup {e}
        /\ vm'.once = vm.once /\ vm'.host_event = vm.host_event
    BY <1>2, <2>1, PostSound DEF TypeOK
  <2>4. TypeOK'
    BY <1>1, <2>1, <2>3 DEF TypeOK
  <2>5. EventsKnown' /\ TimersOwned'
    BY <1>2, <2>1, <2>2, <2>3 DEF EventsKnown, TimersOwned
  <2>6. NotYetPosted' /\ NotCalledYet' /\ Awaited'
    BY <1>2, <2>1, <2>2, <2>3 DEF NotYetPosted, NotCalledYet, Awaited, Over
  <2>7. PhasesOfFrames' /\ FreedIsGone' /\ Detached' /\ Parked' /\ ContextPresent'
    BY <1>2, <2>1 DEF PhasesOfFrames, FreedIsGone, Detached, Parked,
       ContextPresent, Present, Over, Early, Idle, Advancing
  <2> QED BY <2>4, <2>5, <2>6, <2>7
<1>4. CASE ctx.attached /\ ~Present(e)
  <2>1. vm' = vm /\ pc' = "astray" /\ req' = req
    BY <1>1, <1>4 DEF HandleEvent
  <2>2. TypeOK'
    BY <1>1, <2>1 DEF TypeOK
  <2>3. EventsKnown' /\ TimersOwned' /\ NotYetPosted' /\ NotCalledYet' /\ Awaited'
    BY <1>2, <2>1 DEF EventsKnown, TimersOwned, NotYetPosted, NotCalledYet, Awaited, Over
  <2>4. PhasesOfFrames' /\ FreedIsGone' /\ Detached' /\ Parked' /\ ContextPresent'
    BY <1>2, <1>4, <2>1 DEF PhasesOfFrames, FreedIsGone, Detached, Parked,
       ContextPresent, Present, Over, Early, Idle, Advancing
  <2> QED BY <2>2, <2>3, <2>4
<1>5. CASE ~ctx.attached
  <2>1. /\ vm' = vm /\ pc' = pc /\ req'.phase = "terminating" /\ req' \in Requests
        /\ req'.handler = "core" /\ req'.posted /\ Over'
        /\ req'.taken = req.taken /\ req'.finals = <<>>
    <3>1. /\ req' = [req EXCEPT !.phase = "terminating", !.handler = "core",
                                 !.posted = TRUE, !.send_timer = FALSE]
          /\ vm' = vm /\ pc' = pc /\ req \in Requests
      BY <1>1, <1>5 DEF TypeOK
    <3> QED BY <1>2, <3>1 DEF Over, Requests, Phases
  <2>2. TypeOK'
    BY <1>1, <2>1 DEF TypeOK
  <2>3. EventsKnown' /\ TimersOwned' /\ NotYetPosted' /\ NotCalledYet' /\ Awaited'
    BY <1>2, <2>1 DEF EventsKnown, TimersOwned, NotYetPosted, NotCalledYet, Awaited
  <2>4. PhasesOfFrames' /\ FreedIsGone' /\ Detached' /\ Parked' /\ ContextPresent'
    BY <1>2, <2>1 DEF PhasesOfFrames, FreedIsGone, Detached, Parked,
       ContextPresent, Present, Over, Early, Idle, Advancing
  <2> QED BY <2>2, <2>3, <2>4
<1> QED BY <1>3, <1>4, <1>5 DEF Present

LEMMA SubrequestFailsInv == IInv /\ SubrequestFails => IInv'
<1> SUFFICES ASSUME IInv, SubrequestFails PROVE IInv'
  OBVIOUS
<1>1. Ending /\ req \in Requests /\ req.finals = <<>> /\ life # "starting"
  BY DEF SubrequestFails, Returned, Ending, ctl, IInv, TypeOK, PhasesOfFrames
<1> QED BY <1>1, TerminateInv DEF SubrequestFails

LEMMA SubrequestGoneInv == IInv /\ SubrequestGone => IInv'
<1> SUFFICES ASSUME IInv, SubrequestGone PROVE IInv'
  OBVIOUS
<1>1. Ending /\ pc = "loop"
  BY DEF SubrequestGone, Returned, Ending, ctl, IInv, TypeOK
<1>2. CASE Free
  BY <1>1, <1>2, FreeInv
<1>3. CASE /\ \/ /\ detached' = detached
                 /\ \E e \in EventIds : subs[e] = "done"
                                        /\ subs' = [subs EXCEPT ![e] = "none"]
              \/ detached > 0 /\ detached' = detached - 1 /\ subs' = subs
           /\ UNCHANGED <<vm, life, ctx, lost, req, timers>>
  <2> USE DEF IInv, Ending
  <2>1. Subrequests' = Subrequests
    BY <1>3 DEF Subrequests, TypeOK
  <2>2. TypeOK'
    BY <1>1, <1>3 DEF TypeOK
  <2>3. EventsKnown' /\ TimersOwned' /\ NotYetPosted' /\ NotCalledYet' /\ Awaited'
    BY <1>1, <1>3, <2>1 DEF EventsKnown, TimersOwned, NotYetPosted,
       NotCalledYet, Awaited, Over
  <2>4. FreedIsGone'
    BY <1>3 DEF FreedIsGone
  <2>5. PhasesOfFrames' /\ Detached' /\ Parked' /\ ContextPresent'
    BY <1>1, <1>3 DEF PhasesOfFrames, Detached, Parked, ContextPresent, Present, Over,
       Early, Idle, Advancing, Returned
  <2> QED BY <2>2, <2>3, <2>4, <2>5
<1> QED BY <1>2, <1>3 DEF SubrequestGone

LEMMA CallEventInv == IInv /\ CallEvent => IInv'
<1> SUFFICES ASSUME IInv, CallEvent PROVE IInv'
  OBVIOUS
<1> USE DEF IInv, CallEvent, Enter
<1> DEFINE e == Head(vm.posted_events)
<1>1. /\ Sound(vm) /\ Posted(vm) /\ vm' = TakeEvent(vm)
      /\ timers' = (IF Released(vm, e) THEN timers \ {e} ELSE timers)
      /\ called' = called \cup {e}
  BY DEF TypeOK
<1> HIDE DEF e
<1>2. /\ Sound(vm') /\ e \in vm.posted /\ e \in Nat /\ e \in vm.once
      /\ vm'.event_id = vm.event_id
      /\ vm'.events_hash = vm.events_hash \ {e}
      /\ vm'.posted = vm.posted \ {e} /\ vm'.once = vm.once
      /\ vm'.host_event = vm.host_event \ {e}
  <2>1. e \in vm.posted
    BY <1>1, TakeSound DEF e
  <2>2. e \in vm.once
    BY <2>1 DEF EventsKnown
  <2> QED BY <1>1, <2>2, TakeSound DEF e
<1>3. /\ Subrequests' = Subrequests /\ ~Over /\ ~Over' /\ e \notin Subrequests
      /\ timers' = timers \ {e}
  BY <1>1, <1>2 DEF Subrequests, Over, PhasesOfFrames, NotYetPosted, Released
<1>4. TypeOK'
  BY <1>1, <1>2 DEF TypeOK, Frames
<1>5. EventsKnown'
  BY <1>1, <1>2, <1>3 DEF EventsKnown
<1>6. TimersOwned' /\ NotYetPosted' /\ NotCalledYet' /\ Awaited'
  BY <1>1, <1>2, <1>3 DEF TimersOwned, NotYetPosted, NotCalledYet, Awaited
<1>7. PhasesOfFrames' /\ FreedIsGone' /\ Detached' /\ Parked' /\ ContextPresent'
  BY <1>2, <1>3 DEF PhasesOfFrames, FreedIsGone, Detached, Parked, ContextPresent,
     Present, Over, Early, Idle, Advancing
<1> QED BY <1>4, <1>5, <1>6, <1>7

LEMMA CallbackEndInv == IInv /\ CallbackEnd => IInv'
<1> SUFFICES ASSUME IInv, CallbackEnd PROVE IInv'
  OBVIOUS
<1>1. CASE Terminate(req) /\ Back
  <2>1. Ending /\ req \in Requests /\ req.finals = <<>> /\ life # "starting"
    BY <1>1 DEF CallbackEnd, Back, Ending, Frames, IInv, TypeOK, PhasesOfFrames
  <2>2. req.phase # "freed"
    BY Inside DEF CallbackEnd
  <2> QED BY <1>1, <2>1, <2>2, TerminateInv
<1>2. CASE pc' = "run" /\ frame' = "none" /\ UNCHANGED <<host, exception, pending>>
  <2> USE DEF IInv, CallbackEnd, host
  <2>1. TypeOK' /\ Subrequests' = Subrequests /\ Over' = Over
    BY <1>2 DEF TypeOK, Subrequests, Over, Frames
  <2>2. EventsKnown' /\ TimersOwned' /\ NotYetPosted' /\ NotCalledYet' /\ Awaited'
    BY <1>2, <2>1 DEF EventsKnown, TimersOwned, NotYetPosted, NotCalledYet, Awaited
  <2>3. PhasesOfFrames' /\ FreedIsGone' /\ Detached' /\ Parked' /\ ContextPresent'
    BY <1>2, <2>1 DEF PhasesOfFrames, FreedIsGone, Detached, Parked, ContextPresent,
       Present, Over, Early, Idle, Advancing
  <2> QED BY <2>1, <2>2, <2>3
<1> QED BY <1>1, <1>2 DEF CallbackEnd

LEMMA RunDoneInv == IInv /\ RunDone => IInv'
<1> SUFFICES ASSUME IInv, RunDone PROVE IInv'
  OBVIOUS
<1> DEFINE r == [req EXCEPT !.posted = TRUE]
<1>1. /\ pc = "run" /\ Ending /\ Only(r) /\ vm.posted = {} /\ life # "starting" /\ ~Over
  BY PendingSound DEF RunDone, Back, Ending, Frames, IInv, TypeOK, PhasesOfFrames
<1>2. /\ r \in Requests /\ r.taken = req.taken /\ r.phase = req.phase /\ r.posted
      /\ r.handler = req.handler
  BY DEF IInv, TypeOK, Requests
<1>3. /\ req.phase \notin {"terminating", "freed"} /\ Settled
      /\ r.handler = "js" => r.phase = "content"
  BY <1>1, <1>2 DEF IInv, PhasesOfFrames, Over, Settled
<1> HIDE DEF r
<1> QED BY <1>1, <1>2, <1>3, OnlyInv

----------------------------------------------------------------------------
(* The theorems.  *)

LEMMA StepInv == IInv /\ [Next]_vars => IInv'
<1> SUFFICES ASSUME IInv, [Next]_vars PROVE IInv'
  OBVIOUS
<1>1. CASE JavaScript
  BY <1>1, SetTimerInv, ClearTimeoutInv, SubrequestInv, OtherJavaScriptInv
     DEF JavaScript
<1>2. CASE EndFrame
  BY <1>2, StartEndInv, VariableEndInv, ContentEndInv, CallbackEndInv DEF EndFrame
<1>3. CASE Module
  BY <1>3, CallEventInv, RunDoneInv, HandlerFailsInv, UnwindInv DEF Module
<1>4. CASE Nginx
  BY <1>4, ContentHandlerInv, ContentEventHandlerInv, RunPostedInv DEF Nginx
<1>5. CASE Environment
  BY <1>5, VariableInv, ContentUnavailableInv, SubrequestFailsInv, WriteEventInv,
     OtherLocationInv DEF Environment
<1>6. CASE TimerHandler \/ SubrequestDone \/ SubrequestGone \/ OtherLocationEnds
  BY <1>6, TimerHandlerInv, SubrequestDoneInv, SubrequestGoneInv,
     OtherLocationInv
<1>7. CASE UNCHANGED vars
  BY <1>7 DEF vars, host, ctl, IInv, TypeOK, EventsKnown, TimersOwned, NotYetPosted,
     NotCalledYet, Awaited, PhasesOfFrames, FreedIsGone, Detached, Parked,
     ContextPresent, Present, Over, Early, Idle, Advancing, Returned, Subrequests
<1> QED BY <1>1, <1>2, <1>3, <1>4, <1>5, <1>6, <1>7 DEF Next

(* The invariant holds however timers, subrequests, the client and the     *)
(* functions of the script follow each other.                              *)
THEOREM Invariance == Spec => []IInv
<1>1. IInv /\ [Next]_vars => IInv'
  BY StepInv
<1> QED BY <1>1, InitInv, PTL DEF Spec

(* No wakeup of a request is lost: what its VM waits for is in nginx's     *)
(* timer tree or is a running subrequest, and a request parked in          *)
(* ngx_http_js_content_write_event_handler() waits for something.          *)
THEOREM NoLostWakeupTheorem == Spec => []NoLostWakeup
<1>1. IInv => NoLostWakeup
  BY HttpAssumption DEF IInv, NoLostWakeup, Awaited, Parked, Over, Subrequests,
     EventsKnown, TypeOK
<1> QED BY <1>1, Invariance, PTL

(* ngx_http_js_cleanup_ctx() leaves no timer in the tree of nginx.         *)
THEOREM NothingDanglesTheorem == Spec => []NothingDangles
<1>1. IInv => NothingDangles
  BY DEF IInv, NothingDangles, FreedIsGone, PhasesOfFrames, TimersOwned, Over
<1> QED BY <1>1, Invariance, PTL

(* ngx_http_js_handle_event() reads through a null pointer, and a timer    *)
(* misses its context, only after nginx redirected the request on its own  *)
(* while events were waiting.                                              *)
THEOREM ContextPresentTheorem == Spec => []ContextPresent
<1>1. IInv => ContextPresent
  BY DEF IInv
<1> QED BY <1>1, Invariance, PTL

(* njs_vm_handle_events() calls no callback twice.                         *)
THEOREM CalledOnceTheorem == Spec => CalledOnce
<1>1. IInv /\ [Next]_vars =>
         [pc = "run" /\ pc' = "js" => Head(vm.posted_events) \notin called]_vars
  <2> SUFFICES ASSUME IInv, [Next]_vars, pc = "run", pc' = "js"
               PROVE  Head(vm.posted_events) \notin called
    OBVIOUS
  <2>1. CallEvent
    <3>1. ~JavaScript /\ ~EndFrame
      BY DEF JavaScript, SetTimer, ClearTimeout, Subrequest, SubrequestDetached, ReturnStatus,
         InternalRedirect, Throw, Catch, WithHttp, InJS, EndFrame, StartEnd, VariableEnd,
         ContentEnd, CallbackEnd
    <3>2. ~RunDone /\ ~HandlerFails /\ ~Unwind
      BY DEF RunDone, HandlerFails, Unwind, Back
    <3>3. ~Nginx /\ ~Environment
      BY DEF Nginx, ContentHandler, ContentEventHandler, RunPosted, Environment, Variable,
         ContentUnavailable, SubrequestFails, WriteEvent, OtherLocationRedirects,
         Idle, Advancing, Returned
    <3>4. ~TimerHandler /\ ~SubrequestDone /\ ~SubrequestGone /\ ~OtherLocationEnds
      BY DEF TimerHandler, SubrequestDone, SubrequestGone, OtherLocationEnds, Idle,
         Advancing, Returned
    <3>5. ~UNCHANGED vars
      BY DEF vars, ctl
    <3> QED BY <3>1, <3>2, <3>3, <3>4, <3>5 DEF Next, Module
  <2>2. Head(vm.posted_events) \in vm.posted
    BY <2>1, HeadElems DEF CallEvent, Posted, IInv, TypeOK, Sound, VMType
  <2> QED BY <2>2 DEF IInv, NotCalledYet
<1> QED BY <1>1, Invariance, PTL DEF Spec, CalledOnce

=============================================================================
