----------------------------- MODULE StreamProofs -----------------------------
(***************************************************************************)
(* Proofs about module Stream: for any number of timers, handlers, buffers *)
(* and variables of a session.                                             *)
(***************************************************************************)
EXTENDS Stream, EventProofs

----------------------------------------------------------------------------
(* The inductive invariant.  *)

TypeOK ==
    /\ Sound(vm)
    /\ life \in {"none", "unowned", "broken", "live", "destroyed"}
    /\ ctx \in [status : {"unset", "error", "ok", "again", "done"},
                event : [Directions -> Nat \cup {NoEvent}],
                filter : BOOLEAN, in_progress : BOOLEAN]
    /\ session \in [phase : Phases \cup {"content", "freed"},
                    posted : BOOLEAN, read_timer : BOOLEAN]
    /\ pc \in {"loop", "js", "post", "run", "return", "filter", "failed", "crash"}
    /\ frame \in {"phase", "variable", "filter", "callback"}
    /\ caller \in {"phase", "variable", "filter", "timer"}
    /\ dir \in Directions
    /\ in \in Seq(Nat) /\ received \in Nat
    /\ fate \in [Buffers -> {"none", "passed", "called"}]
    /\ entered \subseteq Phases
    /\ bounds \in [reads : Nat, variables : Nat, careful : BOOLEAN]

(* An event is a timer, which is called once, or a handler, which may be   *)
(* called again and again; a handler serves one direction.  Scripts that   *)
(* clear timers only leave every handler in the table.                     *)
EventsKnown ==
    /\ \A e \in vm.events_hash \cup Handlers : e < vm.event_id
    /\ vm.host_event \subseteq vm.events_hash \cap vm.once
    /\ vm.events_hash \subseteq vm.host_event \cup Handlers
    /\ vm.once \cap Handlers = {}
    /\ ctx.event["upload"] = ctx.event["download"] => Handlers = {}
    /\ bounds.careful => Handlers \subseteq vm.events_hash
    /\ \A e \in vm.once : e < vm.event_id

TimersOwned == timers \subseteq vm.host_event

(* njs_vm_run() is always left with an empty queue, and is given one event *)
(* at a time.                                                              *)
OneAtATime ==
    /\ pc # "run" => vm.posted = {}
    /\ \A e, f \in vm.posted : e = f

(* In the middle of a handler too, a timer that the VM waits for is in the *)
(* tree of nginx or is posted.                                             *)
Awaited == session.phase # "freed" => vm.host_event \subseteq timers \cup vm.posted

(* Which function of the module runs, and in which phases.                 *)
PhasesOfCallers ==
    /\ pc \notin {"loop", "crash"} =>
          /\ session.phase # "freed"
          /\ caller = "phase"    => InPhase
          /\ caller = "filter"   => session.phase = "content"
          /\ caller = "variable" => (InPhase => ~ctx.in_progress)
    /\ pc = "js" /\ frame # "callback" => caller = frame
    /\ pc = "run" \/ (pc = "js" /\ frame = "callback") => caller # "variable"
    /\ pc \in {"post", "return"}   => caller = "phase"
    /\ pc \in {"filter", "failed"} => caller = "filter"

(* A phase whose function was called is in progress, but for the handler   *)
(* that is about to decide so.                                             *)
InProgress ==
    /\ session.phase = "access" => "preread" \notin entered
    /\ InPhase /\ session.phase \in entered =>
          ctx.in_progress \/ (pc # "loop" /\ caller = "phase")
    /\ pc = "loop" /\ InPhase /\ ctx.in_progress =>
          Pending(vm) \/ session.posted \/ session.read_timer

FreedIsGone ==
    session.phase = "freed" =>
        timers = {} /\ life # "live" /\ pc = "loop" /\ Handlers = {}

(* The first buffer of the chain that the filter still has to serve.       *)
First == received - Len(in)

(* The chain is a piece of the stream, and empty but while it is served.   *)
Chain ==
    /\ received <= MaxBuffers /\ Len(in) <= received
    /\ \A i \in 1 .. Len(in) : in[i] = First + i - 1
    /\ session.phase # "freed" /\ in # <<>> => pc # "loop" /\ caller = "filter"
    /\ pc = "run" /\ caller = "filter" => in # <<>>
    /\ pc = "js" /\ frame = "callback" /\ caller = "filter" => in # <<>>

(* What became of the buffers: those before First are served, those after  *)
(* it are not, and First itself is once its handler was called.            *)
Served ==
    /\ caller = "filter"
    /\ (pc = "js" /\ frame = "callback") \/ (pc = "run" /\ vm.posted = {})

Fates ==
    /\ \A b \in Buffers : b < First => fate[b] # "none"
    /\ \A b \in Buffers : b > First => fate[b] = "none"
    /\ pc # "crash" /\ session.phase # "freed" =>
          \A b \in Buffers : b = First => (fate[b] # "none" <=> Served)

IInv ==
    /\ TypeOK /\ EventsKnown /\ TimersOwned /\ OneAtATime /\ Awaited
    /\ PhasesOfCallers /\ InProgress /\ FreedIsGone /\ Chain /\ Fates

----------------------------------------------------------------------------
(* The handlers and the chain.  *)

LEMMA TwoHandlers ==
    ASSUME TypeOK
    PROVE  /\ Handlers = {ctx.event["upload"], ctx.event["download"]} \ {NoEvent}
           /\ Handlers \subseteq Nat
<1>1. ctx.event \in [Directions -> Nat \cup {NoEvent}]
  BY DEF TypeOK
<1>2. Handlers = {ctx.event["upload"], ctx.event["download"]} \ {NoEvent}
  BY DEF Handlers, Directions
<1> QED BY <1>1, <1>2 DEF Directions

(* Deleting one handler, if it is set.                                     *)
LEMMA DropOne ==
    ASSUME NEW v, Sound(v), NEW x \in Nat \cup {NoEvent}, NEW d, d = DropEvent(v, x)
    PROVE  /\ Sound(d)
           /\ d.event_id = v.event_id
           /\ d.events_hash = v.events_hash \ {x}
           /\ d.posted = v.posted \ {x}
           /\ d.once = v.once
           /\ d.host_event = v.host_event \ {x}
<1>1. CASE x = NoEvent
  BY <1>1, StreamAssumption DEF DropEvent, Sound, VMType
<1>2. CASE x # NoEvent
  BY <1>2, DelSound DEF DropEvent
<1> QED BY <1>1, <1>2

LEMMA DropSound ==
    ASSUME TypeOK, NEW d, d = DropHandlers(vm)
    PROVE  /\ Sound(d)
           /\ d.event_id = vm.event_id
           /\ d.events_hash = vm.events_hash \ Handlers
           /\ d.posted = vm.posted \ Handlers
           /\ d.once = vm.once
           /\ d.host_event = vm.host_event \ Handlers
<1> DEFINE up == ctx.event["upload"]
           down == ctx.event["download"]
           a == DropEvent(vm, up)
<1>1. up \in Nat \cup {NoEvent} /\ down \in Nat \cup {NoEvent} /\ Sound(vm)
  BY DEF TypeOK, Directions
<1>2. /\ Sound(a) /\ a.event_id = vm.event_id
      /\ a.events_hash = vm.events_hash \ {up} /\ a.posted = vm.posted \ {up}
      /\ a.once = vm.once /\ a.host_event = vm.host_event \ {up}
  <2>1. a = DropEvent(vm, up)
    OBVIOUS
  <2> HIDE DEF a, up, down
  <2> QED BY <1>1, <2>1, DropOne
<1>3. d = DropEvent(a, down)
  BY DEF DropHandlers
<1>4. /\ vm.events_hash \subseteq Nat /\ vm.posted \subseteq Nat
      /\ vm.host_event \subseteq Nat
  BY DEF TypeOK, Sound, VMType
<1>5. Handlers = {up, down} \ {NoEvent}
  BY TwoHandlers
<1> HIDE DEF a, up, down
<1>6. /\ Sound(d) /\ d.event_id = a.event_id
      /\ d.events_hash = a.events_hash \ {down} /\ d.posted = a.posted \ {down}
      /\ d.once = a.once /\ d.host_event = a.host_event \ {down}
  BY <1>1, <1>2, <1>3, DropOne
<1> QED BY <1>2, <1>4, <1>5, <1>6, StreamAssumption

(* The next number is not the number of an event yet.                      *)
LEMMA NextNumber ==
    ASSUME IInv
    PROVE  LET all == vm.events_hash \cup Handlers \cup vm.once
           IN  /\ vm.event_id \in Nat /\ vm.event_id < vm.event_id + 1
               /\ \A e \in all : e \in Nat /\ e # vm.event_id /\ e < vm.event_id + 1
<1> DEFINE all == vm.events_hash \cup Handlers \cup vm.once
<1>1. all \subseteq Nat /\ vm.event_id \in Nat
  BY TwoHandlers DEF IInv, TypeOK, Sound, VMType
<1>2. \A e \in all : e < vm.event_id
  BY DEF IInv, EventsKnown
<1> HIDE DEF all
<1>3. \A e \in all : e \in Nat /\ e # vm.event_id /\ e < vm.event_id + 1
  BY <1>1, <1>2
<1> QED BY <1>1, <1>3 DEF all

----------------------------------------------------------------------------
(* Steps that leave parts of the state alone.  *)

(* Where the module is, and what it knows of the session.                  *)
Control == UNCHANGED <<session, pc, frame, caller, entered>>

LEMMA ControlKept ==
    ASSUME IInv, Control, ctx'.in_progress = ctx.in_progress
    PROVE  /\ PhasesOfCallers'
           /\ pc # "loop" => InProgress'
BY DEF IInv, Control, PhasesOfCallers, InProgress, InPhase

LEMMA StreamKept ==
    ASSUME IInv, UNCHANGED chain, Control, vm'.posted = vm.posted
    PROVE  Chain' /\ Fates'
BY DEF IInv, chain, Control, Chain, Fates, First, Served

----------------------------------------------------------------------------
(* How a session ends.  *)

Ending ==
    /\ pc # "run" /\ pc' = "loop"
    /\ UNCHANGED <<frame, caller, chain, entered, bounds>>

LEMMA InitInv == Init => IInv
<1> SUFFICES ASSUME Init PROVE IInv
  OBVIOUS
<1>1. /\ Sound(vm) /\ vm.events_hash = {} /\ vm.posted = {} /\ vm.host_event = {}
      /\ vm.once = {}
  BY NewSound DEF Init, NewVM
<1>2. ctx.event = [d \in Directions |-> NoEvent] /\ Handlers = {}
  BY DEF Init, Handlers
<1>3. TypeOK
  BY <1>1 DEF Init, TypeOK, Phases, Directions
<1>4. in = <<>> /\ Len(in) = 0 /\ received = 0 /\ First = 0
  <2>1. in = <<>> /\ received = 0
    BY DEF Init
  <2>2. in \in Seq(Nat) /\ Len(in) = 0
    BY <2>1
  <2>3. First = 0 - 0
    BY <2>1, <2>2 DEF First
  <2> QED BY <2>1, <2>2, <2>3
<1>5. Chain
  BY <1>4, StreamAssumption DEF Init, Chain
<1>6. Fates
  BY <1>4, StreamAssumption DEF Init, Fates, Buffers, Served
<1> QED BY <1>1, <1>2, <1>3, <1>5, <1>6 DEF Init, IInv, EventsKnown, TimersOwned,
       OneAtATime, Awaited, PhasesOfCallers, InProgress, FreedIsGone, InPhase, Phases

LEMMA FreeInv == IInv /\ Free /\ Ending => IInv'
<1> SUFFICES ASSUME IInv, Free, Ending PROVE IInv'
  OBVIOUS
<1> USE DEF IInv, Free, Ending, chain
<1>1. /\ Sound(vm') /\ vm'.event_id = vm.event_id
      /\ vm'.events_hash = vm.events_hash \ Handlers
      /\ vm'.posted = vm.posted \ Handlers /\ vm'.once = vm.once
      /\ vm'.host_event = vm.host_event \ Handlers
  BY DropSound
<1>2. /\ ctx'.event = [d \in Directions |-> NoEvent] /\ Handlers' = {}
      /\ session'.phase = "freed" /\ timers' = {}
      /\ life' \in {"none", "unowned", "broken", "live", "destroyed"} /\ life' # "live"
  BY DEF TypeOK, Handlers, TimersOwned, EventsKnown
<1>3. TypeOK'
  BY <1>1, <1>2 DEF TypeOK, Phases
<1>4. EventsKnown' /\ TimersOwned' /\ OneAtATime' /\ Awaited'
  BY <1>1, <1>2 DEF EventsKnown, TimersOwned, OneAtATime, Awaited
<1>5. PhasesOfCallers' /\ InProgress' /\ FreedIsGone'
  BY <1>2 DEF PhasesOfCallers, InProgress, FreedIsGone, InPhase, Phases
<1>6. Chain' /\ Fates'
  BY <1>2 DEF Chain, Fates, First
<1> QED BY <1>3, <1>4, <1>5, <1>6

----------------------------------------------------------------------------
(* JavaScript.  *)

LEMMA SetTimerInv == IInv /\ SetTimer => IInv'
<1> SUFFICES ASSUME IInv, SetTimer PROVE IInv'
  OBVIOUS
<1> USE DEF IInv, SetTimer, InJS, JSOnly
<1>1. /\ Sound(vm') /\ vm'.event_id = vm.event_id + 1
      /\ vm'.events_hash = vm.events_hash \cup {vm.event_id}
      /\ vm'.posted = vm.posted
      /\ vm'.once = vm.once \cup {vm.event_id}
      /\ vm'.host_event = vm.host_event \cup {vm.event_id}
  <2>1. Sound(vm) /\ vm' = AddEvent(vm, TRUE, TRUE)
    BY DEF TypeOK
  <2> QED BY <2>1, AddTimer
<1>2. Handlers' = Handlers
  BY DEF Handlers
<1>3. TypeOK'
  <2>1. UNCHANGED <<life, ctx, session, pc, frame, caller, in, dir, received,
                    fate, entered, bounds>>
    BY DEF chain
  <2> QED BY <1>1, <2>1 DEF TypeOK
<1>4. EventsKnown' /\ TimersOwned' /\ OneAtATime' /\ Awaited'
  BY <1>1, <1>2, NextNumber DEF EventsKnown, TimersOwned, OneAtATime, Awaited
<1>5. PhasesOfCallers' /\ InProgress' /\ Chain' /\ Fates'
  BY <1>1, ControlKept, StreamKept DEF Control
<1>6. FreedIsGone'
  BY DEF FreedIsGone
<1> QED BY <1>3, <1>4, <1>5, <1>6

LEMMA ClearTimeoutInv == IInv /\ ClearTimeout => IInv'
<1> SUFFICES ASSUME IInv, ClearTimeout PROVE IInv'
  OBVIOUS
<1> USE DEF IInv, ClearTimeout, InJS, JSOnly
<1>0. PICK e \in vm.events_hash :
         /\ bounds.careful => e \in vm.host_event
         /\ vm' = DelEvent(vm, e)
         /\ timers' = IF Released(vm, e) THEN timers \ {e} ELSE timers
  OBVIOUS
<1>1. /\ Sound(vm') /\ vm'.event_id = vm.event_id
      /\ vm'.events_hash = vm.events_hash \ {e}
      /\ vm'.posted = vm.posted \ {e} /\ vm'.once = vm.once
      /\ vm'.host_event = vm.host_event \ {e}
  BY <1>0, DelSound DEF TypeOK
<1>2. Handlers' = Handlers /\ timers' = timers \ {e} /\ vm'.posted = vm.posted
  BY <1>0, <1>1 DEF Handlers, Released, TimersOwned, OneAtATime
<1>3. TypeOK'
  BY <1>1 DEF TypeOK, chain
<1>4. EventsKnown' /\ TimersOwned' /\ OneAtATime' /\ Awaited'
  BY <1>0, <1>1, <1>2 DEF EventsKnown, TimersOwned, OneAtATime, Awaited
<1>5. PhasesOfCallers' /\ InProgress' /\ Chain' /\ Fates'
  BY <1>2, ControlKept, StreamKept DEF Control
<1>6. FreedIsGone'
  BY DEF FreedIsGone
<1> QED BY <1>3, <1>4, <1>5, <1>6

LEMMA OnInv == IInv /\ On => IInv'
<1> SUFFICES ASSUME IInv, On PROVE IInv'
  OBVIOUS
<1> USE DEF IInv, On, InJS, JSOnly
<1>1. CASE UNCHANGED <<vm, ctx>> /\ exception' = TRUE
  <2>1. TypeOK' /\ Handlers' = Handlers
    BY <1>1 DEF TypeOK, Handlers, chain
  <2>2. EventsKnown' /\ TimersOwned' /\ OneAtATime' /\ Awaited' /\ FreedIsGone'
    BY <1>1, <2>1 DEF EventsKnown, TimersOwned, OneAtATime, Awaited, FreedIsGone
  <2>3. PhasesOfCallers' /\ InProgress' /\ Chain' /\ Fates'
    BY <1>1, ControlKept, StreamKept DEF Control
  <2> QED BY <2>1, <2>2, <2>3
<1>2. CASE \E d \in Directions :
              /\ ctx.event[d] = NoEvent
              /\ vm' = AddEvent(vm, FALSE, FALSE)
              /\ ctx' = [ctx EXCEPT !.event[d] = vm.event_id]
  <2>0. PICK d \in Directions :
              /\ ctx.event[d] = NoEvent
              /\ vm' = AddEvent(vm, FALSE, FALSE)
              /\ ctx' = [ctx EXCEPT !.event[d] = vm.event_id]
    BY <1>2
  <2>1. /\ Sound(vm') /\ vm'.event_id = vm.event_id + 1
        /\ vm'.events_hash = vm.events_hash \cup {vm.event_id}
        /\ vm'.posted = vm.posted /\ vm'.once = vm.once
        /\ vm'.host_event = vm.host_event
    <3>1. Sound(vm) /\ vm' = AddEvent(vm, FALSE, FALSE)
      BY <2>0 DEF TypeOK
    <3> QED BY <3>1, AddRepeated
  <2>2. vm.event_id \in Nat /\ vm.event_id # NoEvent
    BY StreamAssumption DEF TypeOK, Sound, VMType
  <2>3. TypeOK'
    <3>1. ctx' \in [status : {"unset", "error", "ok", "again", "done"},
                    event : [Directions -> Nat \cup {NoEvent}],
                    filter : BOOLEAN, in_progress : BOOLEAN]
      BY <2>0, <2>2 DEF TypeOK
    <3>2. UNCHANGED <<life, session, pc, frame, caller, in, dir, received, fate,
                      entered, bounds>>
      BY DEF chain
    <3> QED BY <2>1, <3>1, <3>2 DEF TypeOK
  <2>4. /\ Handlers' = Handlers \cup {vm.event_id}
        /\ ctx'.event["upload"] # ctx'.event["download"]
    <3>1. /\ Handlers  = {ctx.event["upload"], ctx.event["download"]} \ {NoEvent}
          /\ Handlers' = {ctx'.event["upload"], ctx'.event["download"]} \ {NoEvent}
      BY DEF Handlers, Directions
    <3>2. vm.event_id \notin Handlers
      BY NextNumber
    <3>3. /\ ctx'.event[d] = vm.event_id
          /\ \A o \in Directions \ {d} : ctx'.event[o] = ctx.event[o]
      BY <2>0 DEF TypeOK
    <3> QED BY <2>0, <2>2, <3>1, <3>2, <3>3 DEF Directions
  <2>5. EventsKnown' /\ TimersOwned' /\ OneAtATime' /\ Awaited'
    BY <2>1, <2>4, NextNumber DEF EventsKnown, TimersOwned, OneAtATime, Awaited
  <2>6. PhasesOfCallers' /\ InProgress' /\ Chain' /\ Fates'
    <3>1. ctx'.in_progress = ctx.in_progress
      BY <2>0 DEF TypeOK
    <3> QED BY <2>1, <3>1, ControlKept, StreamKept DEF Control
  <2>7. FreedIsGone'
    BY DEF FreedIsGone
  <2> QED BY <2>3, <2>5, <2>6, <2>7
<1> QED BY <1>1, <1>2

LEMMA OffInv == IInv /\ Off => IInv'
<1> SUFFICES ASSUME IInv, Off PROVE IInv'
  OBVIOUS
<1> USE DEF IInv, Off, InJS, JSOnly
<1>0. PICK d \in Directions :
         /\ ctx.event[d] # NoEvent
         /\ vm' = DelEvent(vm, ctx.event[d])
         /\ ctx' = [ctx EXCEPT !.event[d] = NoEvent]
  OBVIOUS
<1> DEFINE e == ctx.event[d]
<1>1. /\ Sound(vm') /\ vm'.event_id = vm.event_id
      /\ vm'.events_hash = vm.events_hash \ {e}
      /\ vm'.posted = vm.posted \ {e} /\ vm'.once = vm.once
      /\ vm'.host_event = vm.host_event \ {e}
  BY <1>0, DelSound DEF TypeOK
<1>2. TypeOK'
  BY <1>0, <1>1 DEF TypeOK, chain
<1>3. Handlers' = Handlers \ {e} /\ e \in Handlers /\ vm'.posted = vm.posted
      /\ (ctx'.event["upload"] = ctx'.event["download"] => Handlers' = {})
  <2>1. /\ Handlers  = {ctx.event["upload"], ctx.event["download"]} \ {NoEvent}
        /\ Handlers' = {ctx'.event["upload"], ctx'.event["download"]} \ {NoEvent}
    BY DEF Handlers, Directions
  <2>2. /\ ctx'.event[d] = NoEvent
        /\ \A o \in Directions \ {d} : ctx'.event[o] = ctx.event[o]
    BY <1>0 DEF TypeOK
  <2>3. ctx.event["upload"] # ctx.event["download"]
    BY <1>0, <2>1 DEF EventsKnown, Directions
  <2>4. vm'.posted = vm.posted
    BY <1>1 DEF OneAtATime
  <2> QED BY <1>0, <2>1, <2>2, <2>3, <2>4 DEF Directions
<1>4. EventsKnown' /\ TimersOwned' /\ OneAtATime' /\ Awaited'
  <2> HIDE DEF e
  <2> QED BY <1>1, <1>3 DEF EventsKnown, TimersOwned, OneAtATime, Awaited
<1>5. PhasesOfCallers' /\ InProgress' /\ Chain' /\ Fates'
  <2>1. ctx'.in_progress = ctx.in_progress
    BY <1>0 DEF TypeOK
  <2> QED BY <1>3, <2>1, ControlKept, StreamKept DEF Control
<1>6. FreedIsGone'
  BY <1>3 DEF FreedIsGone
<1> QED BY <1>2, <1>4, <1>5, <1>6

LEMMA SetStatusInv == IInv /\ SetStatus => IInv'
<1> SUFFICES ASSUME IInv, SetStatus PROVE IInv'
  OBVIOUS
<1> USE DEF IInv, SetStatus, InJS, JSOnly
<1>1. /\ Sound(vm') /\ vm'.event_id = vm.event_id
      /\ vm'.events_hash = vm.events_hash \ Handlers
      /\ vm'.posted = vm.posted \ Handlers /\ vm'.once = vm.once
      /\ vm'.host_event = vm.host_event \ Handlers
  BY DropSound
<1>2. /\ ctx'.event = [d \in Directions |-> NoEvent] /\ Handlers' = {}
      /\ vm'.posted = vm.posted /\ ctx'.in_progress = ctx.in_progress
  BY <1>1 DEF TypeOK, Handlers, OneAtATime
<1>3. TypeOK'
  <2>1. ctx' \in [status : {"unset", "error", "ok", "again", "done"},
                   event : [Directions -> Nat \cup {NoEvent}],
                   filter : BOOLEAN, in_progress : BOOLEAN]
    <3>1. PICK s \in Codes :
             ctx' = [ctx EXCEPT !.status = s,
                                !.event = [d \in Directions |-> NoEvent]]
      OBVIOUS
    <3>2. [d \in Directions |-> NoEvent] \in [Directions -> Nat \cup {NoEvent}]
      OBVIOUS
    <3>3. s \in {"unset", "error", "ok", "again", "done"}
      BY <3>1 DEF Codes, TypeOK
    <3> QED BY <3>1, <3>2, <3>3 DEF TypeOK
  <2>2. UNCHANGED <<life, session, pc, frame, caller, in, dir, received, fate,
                    entered, bounds>>
    BY DEF chain
  <2> QED BY <1>1, <2>1, <2>2 DEF TypeOK
<1>4. EventsKnown' /\ TimersOwned' /\ OneAtATime' /\ Awaited'
  BY <1>1, <1>2 DEF EventsKnown, TimersOwned, OneAtATime, Awaited
<1>5. PhasesOfCallers' /\ InProgress' /\ Chain' /\ Fates'
  BY <1>2, ControlKept, StreamKept DEF Control
<1>6. FreedIsGone'
  BY <1>2 DEF FreedIsGone
<1> QED BY <1>3, <1>4, <1>5, <1>6

(* The functions that leave the events and the handlers alone; two of them *)
(* may go through a null or a dangling pointer.                            *)
LEMMA OtherJavaScriptInv == IInv /\ (OffUnset \/ Send \/ Throw \/ Catch) => IInv'
<1> SUFFICES ASSUME IInv, OffUnset \/ Send \/ Throw \/ Catch PROVE IInv'
  OBVIOUS
<1> USE DEF IInv, OffUnset, Send, Throw, Catch, InJS, JSOnly, chain
<1>1. /\ pc = "js" /\ pc' \in {"js", "crash"}
      /\ UNCHANGED <<vm, life, ctx, session, timers, frame, caller, in, dir,
                     received, fate, entered, bounds>>
  OBVIOUS
<1>2. TypeOK' /\ Handlers' = Handlers
  BY <1>1 DEF TypeOK, Handlers
<1>3. EventsKnown' /\ TimersOwned' /\ OneAtATime' /\ Awaited'
  BY <1>1, <1>2 DEF EventsKnown, TimersOwned, OneAtATime, Awaited
<1>4. PhasesOfCallers' /\ InProgress' /\ FreedIsGone'
  BY <1>1 DEF PhasesOfCallers, InProgress, FreedIsGone, InPhase
<1>5. Chain' /\ Fates'
  BY <1>1 DEF Chain, Fates, First, Served
<1> QED BY <1>2, <1>3, <1>4, <1>5

----------------------------------------------------------------------------
(* More steps that leave parts of the state alone.  *)

LEMMA EventsKept ==
    ASSUME IInv, UNCHANGED <<vm, timers>>, ctx'.event = ctx.event,
           bounds'.careful = bounds.careful, session.phase # "freed", pc # "run"
    PROVE  EventsKnown' /\ TimersOwned' /\ OneAtATime' /\ Awaited'
<1>1. Handlers' = Handlers
  BY DEF Handlers
<1> QED BY <1>1 DEF IInv, EventsKnown, TimersOwned, OneAtATime, Awaited

(* No call of the filter is under way.                                     *)
LEMMA StreamElsewhere ==
    ASSUME IInv, UNCHANGED chain, session.phase # "freed", pc # "crash",
           caller # "filter" \/ pc = "loop", caller' # "filter" \/ pc' = "loop"
    PROVE  Chain' /\ Fates'
<1>1. in' = <<>> /\ in = <<>> /\ received' = received /\ fate' = fate
  BY DEF IInv, Chain, chain
<1>2. ~Served /\ ~Served'
  BY DEF Served
<1>3. First' = First /\ Len(in') = Len(in)
  BY <1>1 DEF First
<1>4. Chain'
  BY <1>1, <1>3 DEF IInv, Chain
<1>5. Fates'
  BY <1>1, <1>2, <1>3 DEF IInv, Fates
<1> QED BY <1>4, <1>5

(* The first buffer of the chain, and the rest.                            *)
LEMMA ChainHead ==
    ASSUME IInv, in # <<>>
    PROVE  /\ Head(in) = First /\ First \in Buffers
           /\ Tail(in) \in Seq(Nat) /\ Len(Tail(in)) <= received
           /\ received - Len(Tail(in)) = First + 1
           /\ \A i \in 1 .. Len(Tail(in)) : Tail(in)[i] = First + 1 + i - 1
<1>1. /\ in \in Seq(Nat) /\ received \in Nat /\ received <= MaxBuffers
      /\ Len(in) <= received /\ \A i \in 1 .. Len(in) : in[i] = First + i - 1
      /\ MaxBuffers \in Nat
  BY StreamAssumption DEF IInv, TypeOK, Chain
<1>2. Len(in) \in Nat /\ Len(in) > 0 /\ First \in Nat /\ First < received
  BY <1>1 DEF First
<1>3. Head(in) = in[1] /\ in[1] = First
  BY <1>1, <1>2
<1>4. Tail(in) \in Seq(Nat) /\ Len(Tail(in)) = Len(in) - 1
  BY <1>1
<1>5. \A i \in 1 .. Len(in) - 1 : Tail(in)[i] = in[i + 1]
  BY <1>1
<1>6. \A i \in 1 .. Len(in) - 1 : in[i + 1] = First + 1 + i - 1
  BY <1>1, <1>2
<1>7. received - Len(Tail(in)) = First + 1 /\ Len(Tail(in)) <= received
  BY <1>1, <1>2, <1>4 DEF First
<1> QED BY <1>1, <1>2, <1>3, <1>4, <1>5, <1>6, <1>7 DEF Buffers

(* Counting what the bounds count.                                         *)
LEMMA Counted ==
    ASSUME TypeOK
    PROVE  LET b == [bounds EXCEPT !.reads = @ + 1]
               c == [bounds EXCEPT !.variables = @ + 1]
               type == [reads : Nat, variables : Nat, careful : BOOLEAN]
           IN  /\ b \in type /\ b.careful = bounds.careful
               /\ c \in type /\ c.careful = bounds.careful
<1> DEFINE r == bounds.reads + 1
           v == bounds.variables + 1
<1>1. /\ bounds \in [reads : Nat, variables : Nat, careful : BOOLEAN]
      /\ r \in Nat /\ v \in Nat
  BY DEF TypeOK
<1> HIDE DEF r, v
<1>2. /\ [bounds EXCEPT !.reads = r] \in [reads : Nat, variables : Nat, careful : BOOLEAN]
      /\ [bounds EXCEPT !.variables = v] \in [reads : Nat, variables : Nat, careful : BOOLEAN]
      /\ [bounds EXCEPT !.reads = r].careful = bounds.careful
      /\ [bounds EXCEPT !.variables = v].careful = bounds.careful
  BY <1>1
<1> QED BY <1>2 DEF r, v

(* Posting an event to a VM that has nothing to do.                        *)
LEMMA PostInv ==
    ASSUME IInv, NEW e \in Nat, vm' = PostEvent(vm, e), vm.posted = {},
           UNCHANGED bounds, ctx'.event = ctx.event, pc' = "run",
           timers' \subseteq timers, timers \subseteq timers' \cup {e}
    PROVE  /\ Sound(vm') /\ vm'.posted = {e}
           /\ EventsKnown' /\ TimersOwned' /\ OneAtATime'
           /\ (session.phase # "freed" => Awaited')
<1>1. /\ Sound(vm') /\ vm'.event_id = vm.event_id
      /\ vm'.events_hash = vm.events_hash /\ vm'.posted = vm.posted \cup {e}
      /\ vm'.once = vm.once /\ vm'.host_event = vm.host_event
  <2>1. Sound(vm)
    BY DEF IInv, TypeOK
  <2> QED BY <2>1, PostSound
<1>2. Handlers' = Handlers /\ vm'.posted = {e}
  BY <1>1 DEF Handlers
<1>3. EventsKnown'
  BY <1>1, <1>2 DEF IInv, EventsKnown
<1>4. TimersOwned' /\ OneAtATime'
  BY <1>1, <1>2 DEF IInv, TimersOwned, OneAtATime
<1>5. session.phase # "freed" => Awaited'
  BY <1>1, <1>2 DEF IInv, Awaited
<1> QED BY <1>1, <1>2, <1>3, <1>4, <1>5

----------------------------------------------------------------------------
(* Variables and phases.  *)

LEMMA VariableInv == IInv /\ Variable => IInv'
<1> SUFFICES ASSUME IInv, Variable PROVE IInv'
  OBVIOUS
<1> USE DEF IInv, Variable, Idle, ctl, InitVM, InitVMFails, NoFunctions
<1>1. TypeOK' /\ bounds'.careful = bounds.careful /\ InPhase' = InPhase
  <2>1. /\ bounds' \in [reads : Nat, variables : Nat, careful : BOOLEAN]
        /\ bounds'.careful = bounds.careful
    BY Counted
  <2>2. UNCHANGED <<vm, ctx, session, in, dir, received, fate, entered>>
    BY DEF chain
  <2>3. /\ life' \in {"none", "unowned", "broken", "live", "destroyed"}
        /\ pc' \in {"loop", "js"} /\ frame' \in {frame, "variable"}
        /\ caller' \in {caller, "variable"}
    BY DEF TypeOK
  <2> QED BY <2>1, <2>2, <2>3 DEF TypeOK, InPhase
<1>2. EventsKnown' /\ TimersOwned' /\ OneAtATime' /\ Awaited'
  BY <1>1, EventsKept
<1>3. PhasesOfCallers' /\ FreedIsGone'
  BY <1>1 DEF PhasesOfCallers, FreedIsGone
<1>4. InProgress'
  BY <1>1 DEF InProgress
<1>5. Chain' /\ Fates'
  BY StreamElsewhere
<1> QED BY <1>1, <1>2, <1>3, <1>4, <1>5

LEMMA VariableEndInv == IInv /\ VariableEnd => IInv'
<1> SUFFICES ASSUME IInv, VariableEnd PROVE IInv'
  OBVIOUS
<1> USE DEF VariableEnd
<1>1. CASE Free
  BY <1>1, FreeInv DEF Ending
<1>2. CASE Kept
  <2> USE <1>2 DEF Kept, IInv
  <2>1. TypeOK' /\ caller = "variable" /\ session.phase # "freed"
    BY DEF TypeOK, PhasesOfCallers, chain
  <2>2. EventsKnown' /\ TimersOwned' /\ OneAtATime' /\ Awaited'
    BY <2>1, EventsKept
  <2>3. PhasesOfCallers' /\ InProgress' /\ FreedIsGone'
    BY <2>1 DEF PhasesOfCallers, FreedIsGone, InProgress, InPhase
  <2>4. Chain' /\ Fates'
    BY <2>1, StreamElsewhere
  <2> QED BY <2>1, <2>2, <2>3, <2>4
<1> QED BY <1>1, <1>2

(* A phase without function is passed; a posted read event of nginx finds  *)
(* nothing to do.                                                          *)
LEMMA PassedInv == IInv /\ (Unconfigured \/ StillPrereading \/ ProxyRead) => IInv'
<1> SUFFICES ASSUME IInv, Unconfigured \/ StillPrereading \/ ProxyRead PROVE IInv'
  OBVIOUS
<1> USE DEF IInv, Unconfigured, StillPrereading, ProxyRead, Idle, ctl
<1>1. /\ session' \in [phase : Phases \cup {"content", "freed"},
                       posted : BOOLEAN, read_timer : BOOLEAN]
      /\ session'.phase # "freed" /\ session'.read_timer = session.read_timer
      /\ \/ session'.phase = session.phase
         \/ session'.phase = NextPhase(session.phase) /\ InPhase /\ ~ctx.in_progress
  BY DEF TypeOK, NextPhase, InPhase, Phases
<1>2. TypeOK'
  BY <1>1 DEF TypeOK, chain
<1>3. EventsKnown' /\ TimersOwned' /\ OneAtATime' /\ Awaited'
  BY EventsKept
<1>4. PhasesOfCallers' /\ FreedIsGone'
  BY <1>1 DEF PhasesOfCallers, FreedIsGone
<1>5. InProgress'
  BY <1>1 DEF InProgress, InPhase, Phases, NextPhase, Pending, Waiting, Posted
<1>6. Chain' /\ Fates'
  BY StreamElsewhere
<1> QED BY <1>2, <1>3, <1>4, <1>5, <1>6

LEMMA PhaseHandlerInv ==
    ASSUME IInv, NEW data \in BOOLEAN, PhaseHandler(data)
    PROVE  IInv'
<1> USE DEF IInv, PhaseHandler, PhaseCalled, Idle, InitVM
<1>0. /\ bounds' \in [reads : Nat, variables : Nat, careful : BOOLEAN]
      /\ bounds'.careful = bounds.careful
  BY Counted DEF TypeOK
<1>1. /\ session'.phase = session.phase /\ InPhase' = InPhase
      /\ bounds'.careful = bounds.careful
      /\ ctx'.event = ctx.event /\ ctx'.in_progress = ctx.in_progress
  BY <1>0 DEF TypeOK, InPhase
<1>2. TypeOK'
  <2>1. session' \in [phase : Phases \cup {"content", "freed"},
                      posted : BOOLEAN, read_timer : BOOLEAN]
    BY DEF TypeOK
  <2>2. life' \in {"none", "unowned", "broken", "live", "destroyed"} /\ pc' \in {"post", "js"}
    BY DEF TypeOK
  <2>3. /\ ctx' \in [status : {"unset", "error", "ok", "again", "done"},
                     event : [Directions -> Nat \cup {NoEvent}],
                     filter : BOOLEAN, in_progress : BOOLEAN]
        /\ entered' \subseteq Phases
    <3>1. CASE ctx.in_progress
      BY <3>1 DEF TypeOK
    <3>2. CASE ctx' = [ctx EXCEPT !.status = "error"]
               /\ entered' = entered \cup {session.phase}
      BY <3>2 DEF TypeOK, InPhase
    <3> QED BY <3>1, <3>2
  <2>4. UNCHANGED <<vm, in, dir, received, fate>> /\ frame' = "phase"
        /\ caller' = "phase"
    BY DEF chain
  <2> QED BY <1>0, <2>1, <2>2, <2>3, <2>4 DEF TypeOK
<1>3. EventsKnown' /\ TimersOwned' /\ OneAtATime' /\ Awaited'
  BY <1>1, EventsKept
<1>4. PhasesOfCallers' /\ FreedIsGone'
  BY <1>1 DEF PhasesOfCallers, FreedIsGone
<1>5. InProgress'
  BY <1>1 DEF InProgress
<1>6. Chain' /\ Fates'
  BY StreamElsewhere
<1> QED BY <1>2, <1>3, <1>4, <1>5, <1>6

LEMMA EndsInv == IInv /\ (PhaseUnavailable \/ SessionEnds \/ FilterFails) => IInv'
BY FreeInv DEF PhaseUnavailable, SessionEnds, FilterFails, Ending, Idle, ctl

LEMMA PhaseFunctionEndInv == IInv /\ PhaseFunctionEnd => IInv'
<1> SUFFICES ASSUME IInv, PhaseFunctionEnd PROVE IInv'
  OBVIOUS
<1> USE DEF PhaseFunctionEnd
<1>1. CASE exception
  BY <1>1, FreeInv DEF Ending
<1>2. CASE ~exception
  <2> USE <1>2 DEF Kept, IInv
  <2>1. TypeOK' /\ caller = "phase" /\ session.phase # "freed" /\ pc' = "post"
    BY DEF TypeOK, PhasesOfCallers, chain
  <2>2. EventsKnown' /\ TimersOwned' /\ OneAtATime' /\ Awaited'
    BY <2>1, EventsKept
  <2>3. PhasesOfCallers' /\ InProgress' /\ FreedIsGone'
    BY <2>1 DEF PhasesOfCallers, FreedIsGone, InProgress, InPhase
  <2>4. Chain' /\ Fates'
    BY <2>1, StreamElsewhere
  <2> QED BY <2>1, <2>2, <2>3, <2>4
<1> QED BY <1>1, <1>2

LEMMA PhasePostInv == IInv /\ PhasePost => IInv'
<1> SUFFICES ASSUME IInv, PhasePost PROVE IInv'
  OBVIOUS
<1> USE DEF IInv, PhasePost
<1> DEFINE e == ctx.event["upload"]
<1>1. /\ caller = "phase" /\ session.phase # "freed" /\ vm.posted = {}
      /\ e \in Nat \cup {NoEvent} /\ pc' # "loop"
  BY DEF PhasesOfCallers, OneAtATime, TypeOK, Directions
<1>2. PhasesOfCallers' /\ InProgress' /\ FreedIsGone'
  BY <1>1 DEF PhasesOfCallers, FreedIsGone, InProgress, InPhase
<1>3. Chain' /\ Fates'
  BY <1>1, StreamElsewhere
<1>4. CASE e = NoEvent
  <2>1. TypeOK'
    BY <1>4 DEF TypeOK, chain
  <2>2. EventsKnown' /\ TimersOwned' /\ OneAtATime' /\ Awaited'
    BY <1>1, <1>4, EventsKept
  <2> QED BY <1>2, <1>3, <2>1, <2>2
<1>5. CASE e # NoEvent
  <2>1. Sound(vm') /\ EventsKnown' /\ TimersOwned' /\ OneAtATime' /\ Awaited'
    BY <1>1, <1>5, PostInv
  <2>2. TypeOK'
    BY <1>5, <2>1 DEF TypeOK, chain
  <2> QED BY <1>2, <1>3, <2>1, <2>2
<1> QED BY <1>4, <1>5

LEMMA PhaseReturnInv == IInv /\ PhaseReturn => IInv'
<1> SUFFICES ASSUME IInv, PhaseReturn PROVE IInv'
  OBVIOUS
<1> USE DEF PhaseReturn
<1>1. CASE Free /\ UNCHANGED entered
  BY <1>1, FreeInv DEF Ending
<1>2. caller = "phase" /\ InPhase /\ session.phase # "freed"
  BY DEF IInv, PhasesOfCallers
<1>3. CASE /\ Pending(vm)
           /\ ctx' = [ctx EXCEPT !.in_progress = TRUE]
           /\ session' = [session EXCEPT !.read_timer =
                            session.phase = "preread"
                                /\ ctx.event["upload"] # NoEvent]
           /\ UNCHANGED <<vm, life, timers, entered>>
  <2> USE DEF IInv
  <2>1. TypeOK' /\ session'.phase = session.phase /\ ctx'.event = ctx.event
        /\ ctx'.in_progress
    BY <1>3 DEF TypeOK, chain
  <2>2. EventsKnown' /\ TimersOwned' /\ OneAtATime' /\ Awaited'
    BY <1>2, <1>3, <2>1, EventsKept
  <2>3. PhasesOfCallers' /\ FreedIsGone'
    BY <1>2, <2>1 DEF PhasesOfCallers, FreedIsGone
  <2>4. InProgress'
    BY <1>2, <1>3, <2>1 DEF InProgress, InPhase, Pending, Waiting, Posted
  <2>5. Chain' /\ Fates'
    BY <1>2, StreamElsewhere
  <2> QED BY <2>1, <2>2, <2>3, <2>4, <2>5
<1>4. CASE /\ ctx' = [ctx EXCEPT !.in_progress = FALSE]
           /\ session' = [phase |-> NextPhase(session.phase),
                          posted |-> session.phase = "access",
                          read_timer |-> FALSE]
           /\ UNCHANGED <<vm, life, timers, entered>>
  <2> USE DEF IInv
  <2>1. TypeOK' /\ session'.phase = NextPhase(session.phase)
        /\ ctx'.event = ctx.event /\ ~ctx'.in_progress
    <3>1. /\ session' \in [phase : Phases \cup {"content", "freed"},
                          posted : BOOLEAN, read_timer : BOOLEAN]
          /\ ctx' \in [status : {"unset", "error", "ok", "again", "done"},
                      event : [Directions -> Nat \cup {NoEvent}],
                      filter : BOOLEAN, in_progress : BOOLEAN]
      BY <1>4 DEF TypeOK, NextPhase, Phases
    <3>2. entered' \subseteq Phases /\ UNCHANGED <<vm, life, timers>>
      BY <1>4 DEF TypeOK
    <3>3. UNCHANGED <<frame, caller, in, dir, received, fate, bounds>> /\ pc' = "loop"
      BY DEF chain
    <3>4. TypeOK'
      BY <3>1, <3>2, <3>3 DEF TypeOK
    <3> QED BY <1>4, <3>4 DEF TypeOK, NextPhase, Phases
  <2>2. EventsKnown' /\ TimersOwned' /\ OneAtATime' /\ Awaited'
    BY <1>2, <1>4, <2>1, EventsKept
  <2>3. PhasesOfCallers' /\ FreedIsGone'
    BY <1>2, <2>1 DEF PhasesOfCallers, FreedIsGone, NextPhase
  <2>4. InProgress'
    BY <1>2, <1>4, <2>1 DEF InProgress, InPhase, NextPhase, Phases
  <2>5. Chain' /\ Fates'
    BY <1>2, StreamElsewhere
  <2> QED BY <2>1, <2>2, <2>3, <2>4, <2>5
<1>5. CASE /\ ctx' = [ctx EXCEPT !.in_progress = FALSE]
           /\ session' = [session EXCEPT !.read_timer =
                            session.phase = "preread" /\ ctx.status = "again"]
           /\ entered' = entered \ {session.phase}
           /\ UNCHANGED <<vm, life, timers>>
  <2> USE DEF IInv
  <2>1. TypeOK' /\ session'.phase = session.phase /\ ctx'.event = ctx.event
        /\ ~ctx'.in_progress
    <3>1. /\ session' \in [phase : Phases \cup {"content", "freed"},
                          posted : BOOLEAN, read_timer : BOOLEAN]
          /\ ctx' \in [status : {"unset", "error", "ok", "again", "done"},
                      event : [Directions -> Nat \cup {NoEvent}],
                      filter : BOOLEAN, in_progress : BOOLEAN]
      BY <1>5 DEF TypeOK
    <3>2. entered' \subseteq Phases /\ UNCHANGED <<vm, life, timers>>
      BY <1>5 DEF TypeOK
    <3>3. UNCHANGED <<frame, caller, in, dir, received, fate, bounds>> /\ pc' = "loop"
      BY DEF chain
    <3>4. TypeOK'
      BY <3>1, <3>2, <3>3 DEF TypeOK
    <3> QED BY <1>5, <3>4 DEF TypeOK
  <2>2. EventsKnown' /\ TimersOwned' /\ OneAtATime' /\ Awaited'
    BY <1>2, <1>5, <2>1, EventsKept
  <2>3. PhasesOfCallers' /\ FreedIsGone'
    BY <1>2, <2>1 DEF PhasesOfCallers, FreedIsGone
  <2>4. InProgress'
    BY <1>2, <1>5, <2>1 DEF InProgress, InPhase
  <2>5. Chain' /\ Fates'
    BY <1>2, StreamElsewhere
  <2> QED BY <2>1, <2>2, <2>3, <2>4, <2>5
<1>6. \/ Free /\ UNCHANGED entered
      \/ /\ Pending(vm)
         /\ ctx' = [ctx EXCEPT !.in_progress = TRUE]
         /\ session' = [session EXCEPT !.read_timer =
                          session.phase = "preread"
                              /\ ctx.event["upload"] # NoEvent]
         /\ UNCHANGED <<vm, life, timers, entered>>
      \/ /\ ctx' = [ctx EXCEPT !.in_progress = FALSE]
         /\ session' = [phase |-> NextPhase(session.phase),
                        posted |-> session.phase = "access",
                        read_timer |-> FALSE]
         /\ UNCHANGED <<vm, life, timers, entered>>
      \/ /\ ctx' = [ctx EXCEPT !.in_progress = FALSE]
         /\ session' = [session EXCEPT !.read_timer =
                          session.phase = "preread" /\ ctx.status = "again"]
         /\ entered' = entered \ {session.phase}
         /\ UNCHANGED <<vm, life, timers>>
  OBVIOUS
<1> QED BY <1>1, <1>3, <1>4, <1>5, <1>6

----------------------------------------------------------------------------
(* The filter.  *)

LEMMA BodyFilterInv == IInv /\ BodyFilter => IInv'
<1> SUFFICES ASSUME IInv, BodyFilter PROVE IInv'
  OBVIOUS
<1> USE DEF IInv, BodyFilter, Idle, InitVM, InitVMFails, NoFunctions
<1>1. PICK n \in 1 .. 2 :
         /\ received + n <= MaxBuffers
         /\ received' = received + n
         /\ in' = [i \in 1 .. n |-> received + i - 1]
  OBVIOUS
<1>2. /\ in = <<>> /\ Len(in) = 0 /\ received \in Nat /\ First = received
      /\ ~Served /\ ~Served' /\ pc' \in {"failed", "filter", "js"}
  <2>1. in = <<>> /\ Len(in) = 0 /\ received \in Nat
    BY DEF Chain, TypeOK
  <2>2. ~Served /\ ~Served' /\ pc' \in {"failed", "filter", "js"}
    BY DEF Served
  <2> QED BY <2>1, <2>2 DEF First
<1>3. /\ in' \in Seq(Nat) /\ Len(in') = n /\ received' \in Nat
      /\ First' = received
      /\ \A i \in 1 .. n : in'[i] = First' + i - 1
      /\ in' # <<>>
  <2>1. \A i \in 1 .. n : received + i - 1 \in Nat
    BY <1>2
  <2>2. in' \in Seq(Nat) /\ Len(in') = n
    BY <1>1, <2>1
  <2>3. received' \in Nat /\ First' = received
    BY <1>1, <1>2, <2>2 DEF First
  <2> QED BY <1>1, <2>2, <2>3
<1>4. TypeOK'
  BY <1>2, <1>3 DEF TypeOK
<1>5. EventsKnown' /\ TimersOwned' /\ OneAtATime' /\ Awaited'
  BY <1>2, EventsKept
<1>6. PhasesOfCallers' /\ FreedIsGone' /\ InProgress'
  BY <1>2 DEF PhasesOfCallers, FreedIsGone, InProgress, InPhase, Phases
<1>7. Chain'
  <2>1. received' <= MaxBuffers /\ Len(in') <= received'
    BY <1>1, <1>2, <1>3
  <2> QED BY <1>2, <1>3, <2>1 DEF Chain
<1>8. Fates'
  <2>1. fate' = fate /\ First' = First
    BY <1>2, <1>3
  <2> QED BY <1>2, <2>1 DEF Fates
<1> QED BY <1>4, <1>5, <1>6, <1>7, <1>8

LEMMA FilterFunctionEndInv == IInv /\ FilterFunctionEnd => IInv'
<1> SUFFICES ASSUME IInv, FilterFunctionEnd PROVE IInv'
  OBVIOUS
<1> USE DEF IInv, FilterFunctionEnd
<1>1. /\ caller = "filter" /\ session.phase = "content"
      /\ pc' \in {"failed", "filter"}
      /\ ctx'.event = ctx.event /\ ctx'.in_progress = ctx.in_progress
  BY DEF PhasesOfCallers, TypeOK
<1>2. TypeOK'
  BY <1>1 DEF TypeOK, chain
<1>3. EventsKnown' /\ TimersOwned' /\ OneAtATime' /\ Awaited'
  BY <1>1, EventsKept
<1>4. PhasesOfCallers' /\ FreedIsGone' /\ InProgress'
  BY <1>1 DEF PhasesOfCallers, FreedIsGone, InProgress, InPhase, Phases
<1>5. Chain' /\ Fates'
  BY <1>1 DEF Chain, Fates, First, Served, chain
<1> QED BY <1>2, <1>3, <1>4, <1>5

LEMMA FilterReturnInv == IInv /\ FilterReturn => IInv'
<1> SUFFICES ASSUME IInv, FilterReturn PROVE IInv'
  OBVIOUS
<1> USE DEF IInv, FilterReturn, Kept
<1>1. caller = "filter" /\ session.phase = "content"
  BY DEF PhasesOfCallers
<1>2. TypeOK'
  BY DEF TypeOK, chain
<1>3. EventsKnown' /\ TimersOwned' /\ OneAtATime' /\ Awaited'
  BY <1>1, EventsKept
<1>4. PhasesOfCallers' /\ FreedIsGone' /\ InProgress'
  BY <1>1 DEF PhasesOfCallers, FreedIsGone, InProgress, InPhase, Phases
<1>5. Chain' /\ Fates'
  BY <1>1 DEF Chain, Fates, First, Served, chain
<1> QED BY <1>2, <1>3, <1>4, <1>5

(* The first buffer is done with, and the filter goes to the next.         *)
LEMMA NextBuffer ==
    ASSUME IInv, in # <<>>, in' = Tail(in), received' = received, pc' = "filter",
           UNCHANGED <<session, caller>>,
           fate' \in [Buffers -> {"none", "passed", "called"}],
           \A b \in Buffers : b # First => fate'[b] = fate[b],
           \A b \in Buffers : b = First => fate'[b] # "none",
           caller = "filter"
    PROVE  in' \in Seq(Nat) /\ Chain' /\ Fates'
<1>1. /\ First \in Buffers /\ in' \in Seq(Nat) /\ Len(in') <= received
      /\ First' = First + 1
      /\ \A i \in 1 .. Len(in') : in'[i] = First + 1 + i - 1
  BY ChainHead DEF First
<1>2. Chain'
  BY <1>1 DEF IInv, Chain
<1>3. First \in Nat /\ Buffers \subseteq Nat /\ ~Served'
  BY <1>1, StreamAssumption DEF Buffers, Served
<1>4. Fates'
  <2>1. \A b \in Buffers : b < First' => fate'[b] # "none"
    <3> SUFFICES ASSUME NEW b \in Buffers, b < First' PROVE fate'[b] # "none"
      OBVIOUS
    <3>1. b \in Nat /\ (b < First \/ b = First)
      BY <1>1, <1>3
    <3> QED BY <1>3, <3>1 DEF IInv, Fates
  <2>2. \A b \in Buffers : b > First' \/ b = First' => fate'[b] = "none"
    <3> SUFFICES ASSUME NEW b \in Buffers, b > First' \/ b = First'
                 PROVE  fate'[b] = "none"
      OBVIOUS
    <3>1. b \in Nat /\ b > First /\ b # First
      BY <1>1, <1>3
    <3> QED BY <3>1 DEF IInv, Fates
  <2> QED BY <1>3, <2>1, <2>2 DEF Fates
<1> QED BY <1>1, <1>2, <1>4

LEMMA FilterBufferInv == IInv /\ FilterBuffer => IInv'
<1> SUFFICES ASSUME IInv, FilterBuffer PROVE IInv'
  OBVIOUS
<1> USE DEF IInv, FilterBuffer
<1> DEFINE e == ctx.event[dir]
<1>1. /\ caller = "filter" /\ session.phase = "content" /\ vm.posted = {}
      /\ e \in Nat \cup {NoEvent}
  BY DEF PhasesOfCallers, OneAtATime, TypeOK
<1>2. Head(in) = First /\ First \in Buffers /\ First \in Nat
  BY ChainHead, StreamAssumption DEF Buffers
<1>3. CASE e = NoEvent
  <2>1. /\ fate' = [fate EXCEPT ![First] = "passed"] /\ in' = Tail(in)
        /\ vm' = vm /\ pc' = pc
    BY <1>2, <1>3
  <2>2. /\ fate' \in [Buffers -> {"none", "passed", "called"}]
        /\ \A b \in Buffers : b # First => fate'[b] = fate[b]
        /\ \A b \in Buffers : b = First => fate'[b] # "none"
    BY <1>2, <2>1 DEF TypeOK
  <2>3. in' \in Seq(Nat) /\ Chain' /\ Fates'
    BY <1>1, <2>1, <2>2, NextBuffer
  <2>4. TypeOK'
    BY <2>1, <2>2, <2>3 DEF TypeOK
  <2>5. EventsKnown' /\ TimersOwned' /\ OneAtATime' /\ Awaited'
    BY <1>1, <2>1, EventsKept
  <2>6. PhasesOfCallers' /\ FreedIsGone' /\ InProgress'
    BY <1>1, <2>1 DEF PhasesOfCallers, FreedIsGone, InProgress, InPhase, Phases
  <2> QED BY <2>3, <2>4, <2>5, <2>6
<1>4. CASE e # NoEvent
  <2>1. vm' = PostEvent(vm, e) /\ pc' = "run" /\ in' = in /\ fate' = fate
    BY <1>4
  <2>2. /\ Sound(vm') /\ vm'.posted = {e}
        /\ EventsKnown' /\ TimersOwned' /\ OneAtATime' /\ Awaited'
    BY <1>1, <1>4, <2>1, PostInv
  <2>3. TypeOK'
    BY <2>1, <2>2 DEF TypeOK
  <2>4. PhasesOfCallers' /\ FreedIsGone' /\ InProgress'
    BY <1>1, <2>1 DEF PhasesOfCallers, FreedIsGone, InProgress, InPhase, Phases
  <2>5. Chain' /\ Fates'
    BY <1>1, <2>1, <2>2 DEF Chain, Fates, First, Served
  <2> QED BY <2>2, <2>3, <2>4, <2>5
<1> QED BY <1>3, <1>4

----------------------------------------------------------------------------
(* Events.  *)

LEMMA TimerHandlerInv == IInv /\ TimerHandler => IInv'
<1> SUFFICES ASSUME IInv, TimerHandler PROVE IInv'
  OBVIOUS
<1> USE DEF IInv, TimerHandler
<1>1. PICK e \in timers : timers' = timers \ {e} /\ vm' = PostEvent(vm, e)
  OBVIOUS
<1>2. e \in Nat /\ session.phase # "freed" /\ vm.posted = {}
  BY DEF TimersOwned, FreedIsGone, OneAtATime, TypeOK, Sound, VMType
<1>3. Sound(vm') /\ EventsKnown' /\ TimersOwned' /\ OneAtATime' /\ Awaited'
  BY <1>1, <1>2, PostInv
<1>4. TypeOK'
  BY <1>3 DEF TypeOK, chain
<1>5. PhasesOfCallers' /\ FreedIsGone' /\ InProgress'
  BY <1>2 DEF PhasesOfCallers, FreedIsGone, InProgress, InPhase
<1>6. Chain' /\ Fates'
  BY <1>2, StreamElsewhere
<1> QED BY <1>3, <1>4, <1>5, <1>6

LEMMA CallEventInv == IInv /\ CallEvent => IInv'
<1> SUFFICES ASSUME IInv, CallEvent PROVE IInv'
  OBVIOUS
<1> USE DEF IInv, CallEvent
<1> DEFINE e == Head(vm.posted_events)
<1>1. /\ Sound(vm) /\ Posted(vm) /\ vm' = TakeEvent(vm)
      /\ timers' = (IF e \in vm.once /\ Released(vm, e) THEN timers \ {e} ELSE timers)
  BY DEF TypeOK
<1> HIDE DEF e
<1>2. /\ Sound(vm') /\ e \in vm.posted /\ vm'.event_id = vm.event_id
      /\ vm'.events_hash = IF e \in vm.once THEN vm.events_hash \ {e}
                           ELSE vm.events_hash
      /\ vm'.posted = vm.posted \ {e} /\ vm'.once = vm.once
      /\ vm'.host_event = IF e \in vm.once THEN vm.host_event \ {e}
                          ELSE vm.host_event
  BY <1>1, TakeSound DEF e
<1>3. /\ Handlers' = Handlers /\ vm'.posted = {} /\ session.phase # "freed"
      /\ caller # "variable" /\ vm.posted # {}
  BY <1>2 DEF Handlers, OneAtATime, PhasesOfCallers
<1>4. EventsKnown' /\ TimersOwned' /\ OneAtATime' /\ Awaited'
  <2>1. CASE e \in vm.once
    BY <1>1, <1>2, <1>3, <2>1 DEF EventsKnown, TimersOwned, OneAtATime, Awaited,
       Released
  <2>2. CASE e \notin vm.once
    BY <1>1, <1>2, <1>3, <2>2 DEF EventsKnown, TimersOwned, OneAtATime, Awaited
  <2> QED BY <2>1, <2>2
<1>5. PhasesOfCallers' /\ FreedIsGone' /\ InProgress'
  BY <1>3 DEF PhasesOfCallers, FreedIsGone, InProgress, InPhase
<1>6. CASE caller # "filter"
  <2>1. TypeOK'
    BY <1>2, <1>6 DEF TypeOK
  <2>2. Chain' /\ Fates'
    BY <1>3, <1>6, StreamElsewhere DEF chain
  <2> QED BY <1>4, <1>5, <2>1, <2>2
<1>7. CASE caller = "filter"
  <2>1. Head(in) = First /\ First \in Buffers /\ in # <<>> /\ First \in Nat
    BY <1>7, ChainHead, StreamAssumption DEF Chain, Buffers
  <2>2. fate' = [fate EXCEPT ![First] = "called"]
    BY <1>7, <2>1
  <2>3. TypeOK'
    BY <1>2, <2>1, <2>2 DEF TypeOK
  <2>4. Served' /\ First' = First
    BY <1>7 DEF Served, First
  <2>5. Chain'
    BY <1>7, <2>1, <2>4 DEF Chain
  <2>6. /\ \A b \in Buffers : b # First => fate'[b] = fate[b]
        /\ fate'[First] = "called" /\ \A b \in Buffers : b \in Nat
    BY <2>1, <2>2, StreamAssumption DEF TypeOK, Buffers
  <2>7. Fates'
    BY <2>1, <2>4, <2>6 DEF Fates
  <2> QED BY <1>4, <1>5, <2>3, <2>5, <2>7
<1> QED BY <1>6, <1>7

LEMMA CallbackEndInv == IInv /\ CallbackEnd => IInv'
<1> SUFFICES ASSUME IInv, CallbackEnd PROVE IInv'
  OBVIOUS
<1> USE DEF CallbackEnd
<1>1. CASE exception
  BY <1>1, FreeInv DEF Ending
<1>2. CASE ~exception
  <2> USE <1>2 DEF Kept, IInv
  <2>1. /\ TypeOK' /\ caller # "variable" /\ session.phase # "freed"
        /\ pc' = "run" /\ vm.posted = {} /\ Handlers' = Handlers
    BY DEF TypeOK, PhasesOfCallers, OneAtATime, chain, Handlers
  <2>2. EventsKnown' /\ TimersOwned' /\ OneAtATime' /\ Awaited'
    BY <2>1 DEF EventsKnown, TimersOwned, OneAtATime, Awaited
  <2>3. PhasesOfCallers' /\ InProgress' /\ FreedIsGone'
    BY <2>1 DEF PhasesOfCallers, FreedIsGone, InProgress, InPhase
  <2>4. Chain' /\ Fates'
    BY <2>1 DEF Chain, Fates, First, Served, chain
  <2> QED BY <2>1, <2>2, <2>3, <2>4
<1> QED BY <1>1, <1>2

LEMMA RunDoneInv == IInv /\ RunDone => IInv'
<1> SUFFICES ASSUME IInv, RunDone PROVE IInv'
  OBVIOUS
<1> USE DEF IInv, RunDone
<1>1. /\ vm.posted = {} /\ session.phase # "freed" /\ Handlers' = Handlers
      /\ caller \in {"phase", "filter", "timer"}
  BY PendingSound DEF TypeOK, PhasesOfCallers, Handlers
<1>2. /\ session' \in [phase : Phases \cup {"content", "freed"},
                       posted : BOOLEAN, read_timer : BOOLEAN]
      /\ session'.phase = session.phase
      /\ caller = "timer"  => pc' = "loop" /\ session'.posted
      /\ caller = "phase"  => pc' = "return"
      /\ caller = "filter" => pc' = "filter"
  BY <1>1 DEF TypeOK
<1>3. EventsKnown' /\ TimersOwned' /\ OneAtATime' /\ Awaited'
  BY <1>1, <1>2 DEF EventsKnown, TimersOwned, OneAtATime, Awaited
<1>4. PhasesOfCallers' /\ FreedIsGone' /\ InProgress'
  BY <1>1, <1>2 DEF PhasesOfCallers, FreedIsGone, InProgress, InPhase
<1>5. CASE caller # "filter"
  <2>1. in' = in
    BY <1>5
  <2>2. TypeOK'
    BY <1>1, <1>2, <2>1 DEF TypeOK
  <2>3. Chain' /\ Fates'
    BY <1>1, <1>5, <2>1, StreamElsewhere DEF chain
  <2> QED BY <1>3, <1>4, <2>2, <2>3
<1>6. CASE caller = "filter"
  <2>1. in' = Tail(in) /\ in # <<>> /\ Served /\ pc' = "filter"
    BY <1>1, <1>2, <1>6 DEF Chain, Served
  <2>2. \A b \in Buffers : b = First => fate'[b] # "none"
    BY <1>1, <2>1 DEF Fates
  <2>3. in' \in Seq(Nat) /\ Chain' /\ Fates'
    <3>1. UNCHANGED <<session, caller>> /\ received' = received /\ fate' = fate
          /\ fate \in [Buffers -> {"none", "passed", "called"}]
      BY <1>6 DEF TypeOK
    <3> QED BY <1>6, <2>1, <2>2, <3>1, NextBuffer
  <2>4. TypeOK'
    BY <1>2, <1>6, <2>1, <2>3 DEF TypeOK
  <2> QED BY <1>3, <1>4, <2>3, <2>4
<1> QED BY <1>5, <1>6

----------------------------------------------------------------------------
(* The theorems.  *)

LEMMA StepInv == IInv /\ [Next]_vars => IInv'
<1> SUFFICES ASSUME IInv, [Next]_vars PROVE IInv'
  OBVIOUS
<1>1. CASE JavaScript
  BY <1>1, SetTimerInv, ClearTimeoutInv, OnInv, OffInv, SetStatusInv,
     OtherJavaScriptInv DEF JavaScript
<1>2. CASE EndFrame
  BY <1>2, VariableEndInv, PhaseFunctionEndInv, FilterFunctionEndInv,
     CallbackEndInv DEF EndFrame
<1>3. CASE Module
  BY <1>3, PhasePostInv, PhaseReturnInv, FilterBufferInv, FilterReturnInv,
     EndsInv, CallEventInv, RunDoneInv DEF Module
<1>4. CASE PhaseHandler(TRUE) \/ PhaseHandler(FALSE)
  <2>1. TRUE \in BOOLEAN /\ FALSE \in BOOLEAN
    OBVIOUS
  <2> QED BY <1>4, <2>1, PhaseHandlerInv, Zenon
<1>5. CASE Environment \/ StillPrereading \/ TimerHandler \/ SessionEnds
  BY <1>4, <1>5, VariableInv, PassedInv, EndsInv, BodyFilterInv, TimerHandlerInv
     DEF Environment
<1>6. CASE UNCHANGED vars
  <2>1. Handlers' = Handlers
    BY <1>6 DEF vars, Handlers
  <2>2. TypeOK' /\ EventsKnown' /\ TimersOwned' /\ OneAtATime' /\ Awaited'
    BY <1>6, <2>1 DEF vars, ctl, chain, IInv, TypeOK, EventsKnown, TimersOwned,
       OneAtATime, Awaited
  <2>3. PhasesOfCallers' /\ InProgress' /\ FreedIsGone'
    BY <1>6, <2>1 DEF vars, ctl, chain, IInv, PhasesOfCallers, InProgress,
       FreedIsGone, InPhase
  <2>4. Chain' /\ Fates'
    BY <1>6 DEF vars, ctl, chain, IInv, Chain, Fates, First, Served
  <2> QED BY <2>2, <2>3, <2>4 DEF IInv
<1> QED BY <1>1, <1>2, <1>3, <1>4, <1>5, <1>6 DEF Next

(* The invariant holds however timers, data and the functions of the       *)
(* script follow each other.                                               *)
THEOREM Invariance == Spec => []IInv
<1>1. IInv /\ [Next]_vars => IInv'
  BY StepInv
<1> QED BY <1>1, InitInv, PTL DEF Spec

(* No wakeup of a session is lost: what its VM waits for is a handler or   *)
(* in nginx's timer tree, and a phase in progress waits for something.     *)
THEOREM NoLostWakeupTheorem == Spec => []NoLostWakeup
<1>1. IInv => NoLostWakeup
  BY DEF IInv, NoLostWakeup, Idle, EventsKnown, OneAtATime, Awaited, InProgress
<1> QED BY <1>1, Invariance, PTL

(* ngx_stream_js_cleanup_ctx() leaves no timer in the tree of nginx, and   *)
(* no handler.                                                             *)
THEOREM NothingDanglesTheorem == Spec => []NothingDangles
<1>1. IInv => NothingDangles
  BY DEF IInv, NothingDangles, FreedIsGone, TimersOwned, EventsKnown
<1> QED BY <1>1, Invariance, PTL

(* ngx_stream_js_body_filter() serves every buffer of its chain.           *)
THEOREM BuffersConsumedTheorem == Spec => []BuffersConsumed
<1>1. IInv => BuffersConsumed
  <2> SUFFICES ASSUME IInv, Idle, NEW b \in 0 .. received - 1
               PROVE  fate[b] # "none"
    BY DEF BuffersConsumed
  <2>1. in = <<>> /\ received \in Nat /\ received <= MaxBuffers
    BY DEF IInv, TypeOK, Chain, Idle
  <2>2. Len(in) = 0
    BY <2>1
  <2>3. First = received
    BY <2>1, <2>2 DEF First
  <2>4. b \in Buffers /\ b < First
    BY <2>1, <2>3, StreamAssumption DEF Buffers
  <2> QED BY <2>4 DEF IInv, Fates
<1> QED BY <1>1, Invariance, PTL

(* A handler of a phase calls the function of the phase once.              *)
THEOREM PhaseCalledOnceTheorem == Spec => PhaseCalledOnce
<1>1. IInv /\ [Next]_vars =>
         [pc = "loop" /\ pc' = "js" /\ frame' = "phase" =>
              session.phase \notin entered]_vars
  <2> SUFFICES ASSUME IInv, [Next]_vars, pc = "loop", pc' = "js", frame' = "phase"
               PROVE  session.phase \notin entered
    OBVIOUS
  <2>1. InPhase /\ ~ctx.in_progress
    BY DEF Next, vars, ctl, JavaScript, SetTimer, ClearTimeout, On, Off, OffUnset,
       SetStatus, Send, Throw, Catch, InJS, EndFrame, VariableEnd,
       PhaseFunctionEnd, FilterFunctionEnd, CallbackEnd, Module, PhasePost,
       PhaseReturn, FilterBuffer, FilterReturn, FilterFails, CallEvent, RunDone,
       Environment, Variable, Unconfigured, PhaseUnavailable, PhaseHandler,
       PhaseCalled, BodyFilter, ProxyRead, StillPrereading, TimerHandler,
       SessionEnds, Idle
  <2> QED BY <2>1 DEF IInv, InProgress
<1> QED BY <1>1, Invariance, PTL DEF Spec, PhaseCalledOnce

(* A phase that lets the session go on leaves no handler behind.           *)
THEOREM PhaseEndsCleanTheorem == Spec => PhaseEndsClean
<1>1. IInv /\ [Next]_vars =>
         [bounds.careful /\ pc = "return"
            /\ session'.phase \notin {session.phase, "freed"} => Handlers = {}]_vars
  <2> SUFFICES ASSUME IInv, [Next]_vars, bounds.careful, pc = "return",
                      session'.phase \notin {session.phase, "freed"}
               PROVE  Handlers = {}
    OBVIOUS
  <2>1. PhaseReturn
    BY DEF Next, vars, ctl, JavaScript, SetTimer, ClearTimeout, On, Off, OffUnset,
       SetStatus, Send, Throw, Catch, InJS, EndFrame, VariableEnd,
       PhaseFunctionEnd, FilterFunctionEnd, CallbackEnd, Module, PhasePost,
       FilterBuffer, FilterReturn, FilterFails, CallEvent, RunDone,
       Environment, Variable, Unconfigured, PhaseUnavailable, PhaseHandler,
       PhaseCalled, BodyFilter, ProxyRead, StillPrereading, TimerHandler,
       SessionEnds, Idle
  <2>2. ~Pending(vm)
    BY <2>1 DEF PhaseReturn, Free, IInv, TypeOK
  <2>3. vm.events_hash = {}
    BY <2>2, PendingSound DEF IInv, TypeOK
  <2> QED BY <2>3 DEF IInv, EventsKnown
<1> QED BY <1>1, Invariance, PTL DEF Spec, PhaseEndsClean

(* The filter serves the buffers in their order, and each one once.        *)
THEOREM BuffersInOrderTheorem == Spec => BuffersInOrder
<1>1. IInv /\ [Next]_vars =>
         [\A b \in Buffers : fate'[b] # fate[b] =>
              fate[b] = "none" /\ \A a \in 0 .. b - 1 : fate[a] # "none"]_vars
  <2> SUFFICES ASSUME IInv, [Next]_vars, NEW b \in Buffers, fate'[b] # fate[b]
               PROVE  fate[b] = "none" /\ \A a \in 0 .. b - 1 : fate[a] # "none"
    OBVIOUS
  <2>1. FilterBuffer \/ CallEvent
    BY DEF Next, vars, ctl, chain, JavaScript, SetTimer, ClearTimeout, On, Off,
       OffUnset, SetStatus, Send, Throw, Catch, InJS, JSOnly, EndFrame,
       VariableEnd, PhaseFunctionEnd, FilterFunctionEnd, CallbackEnd, Module,
       PhasePost, PhaseReturn, FilterReturn, FilterFails, RunDone, Environment,
       Variable, Unconfigured, PhaseUnavailable, PhaseHandler, BodyFilter,
       ProxyRead, StillPrereading, TimerHandler, SessionEnds
  <2>2. /\ in # <<>> /\ caller = "filter" /\ session.phase # "freed" /\ ~Served
        /\ pc # "crash"
    BY <2>1, PendingSound DEF FilterBuffer, CallEvent, IInv, TypeOK, Chain,
       PhasesOfCallers, Served
  <2>3. Head(in) = First /\ First \in Nat /\ Buffers \subseteq Nat
    BY <2>2, ChainHead, StreamAssumption DEF Buffers
  <2>4. b = First
    BY <2>1, <2>2, <2>3 DEF FilterBuffer, CallEvent, IInv, TypeOK
  <2>5. fate[b] = "none"
    BY <2>2, <2>4 DEF IInv, Fates
  <2>6. \A a \in 0 .. b - 1 : a \in Buffers /\ a < First
    BY <2>3, <2>4, StreamAssumption DEF Buffers
  <2> QED BY <2>5, <2>6 DEF IInv, Fates
<1> QED BY <1>1, Invariance, PTL DEF Spec, BuffersInOrder

=============================================================================
