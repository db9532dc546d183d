----------------------------- MODULE ShellProofs -----------------------------
(***************************************************************************)
(* Proofs about module Shell: for any number of timers and scripts.        *)
(***************************************************************************)
EXTENDS Shell, TLAPS

----------------------------------------------------------------------------
(* Queues.  *)

(* njs_queue_remove() takes exactly the given link out of a queue without  *)
(* duplicates and keeps the order of the others.                           *)
LEMMA UnlinkLemma ==
    ASSUME NEW q \in Seq(Nat), Ascending(q), NEW e \in Elems(q)
    PROVE  /\ Unlink(q, e) \in Seq(Nat)
           /\ Elems(Unlink(q, e)) = Elems(q) \ {e}
           /\ Ascending(Unlink(q, e))
<1> DEFINE at == CHOOSE i \in DOMAIN q : q[i] = e
           u  == Unlink(q, e)
<1>1. at \in DOMAIN q /\ q[at] = e
  BY DEF Elems
<1>2. at \in 1 .. Len(q) /\ Len(q) \in Nat /\ DOMAIN q = 1 .. Len(q)
  BY <1>1
<1>3. u = [i \in 1 .. Len(q) - 1 |-> IF i < at THEN q[i] ELSE q[i + 1]]
  BY DEF Unlink
<1> HIDE DEF at
<1>4. \A i \in 1 .. Len(q) : q[i] \in Nat
  OBVIOUS
<1>5. u \in Seq(Nat) /\ Len(u) = Len(q) - 1 /\ DOMAIN u = 1 .. Len(q) - 1
  BY <1>2, <1>3, <1>4
<1>6. Elems(u) \subseteq Elems(q) \ {e}
  <2> SUFFICES ASSUME NEW i \in 1 .. Len(q) - 1
               PROVE  u[i] \in Elems(q) /\ u[i] # e
    BY <1>5 DEF Elems
  <2> DEFINE k == IF i < at THEN i ELSE i + 1
  <2>1. k \in 1 .. Len(q) /\ k # at /\ u[i] = q[k]
    BY <1>2, <1>3
  <2>2. k < at => q[k] < q[at]
    BY <2>1, <1>2 DEF Ascending
  <2>3. at < k => q[at] < q[k]
    BY <2>1, <1>2 DEF Ascending
  <2> HIDE DEF k
  <2>4. q[k] # q[at]
    BY <2>1, <2>2, <2>3, <1>2, <1>4
  <2> QED BY <2>1, <2>4, <1>1, <1>2 DEF Elems
<1>7. Elems(q) \ {e} \subseteq Elems(u)
  <2> SUFFICES ASSUME NEW j \in 1 .. Len(q), q[j] # e
               PROVE  \E i \in 1 .. Len(q) - 1 : u[i] = q[j]
    BY <1>2, <1>5 DEF Elems
  <2>1. CASE j < at
    <3>1. j \in 1 .. Len(q) - 1 /\ u[j] = q[j]
      BY <2>1, <1>2, <1>3
    <3> QED BY <3>1
  <2>2. CASE at < j
    <3>1. j - 1 \in 1 .. Len(q) - 1 /\ u[j - 1] = q[j]
      BY <2>2, <1>2, <1>3
    <3> QED BY <3>1
  <2>3. j # at
    BY <1>1
  <2> QED BY <2>1, <2>2, <2>3, <1>2
<1>8. Ascending(u)
  <2> SUFFICES ASSUME NEW i \in 1 .. Len(q) - 1, NEW j \in 1 .. Len(q) - 1,
                      i < j
               PROVE  u[i] < u[j]
    BY <1>5 DEF Ascending
  <2> DEFINE k == IF i < at THEN i ELSE i + 1
             l == IF j < at THEN j ELSE j + 1
  <2>1. /\ k \in 1 .. Len(q) /\ l \in 1 .. Len(q) /\ k < l
        /\ u[i] = q[k] /\ u[j] = q[l]
    BY <1>2, <1>3
  <2> HIDE DEF k, l
  <2> QED BY <2>1, <1>2 DEF Ascending
<1> QED BY <1>5, <1>6, <1>7, <1>8

(* njs_queue_insert_tail().  *)
LEMMA AppendLemma ==
    ASSUME NEW q \in Seq(Nat), NEW e \in Nat
    PROVE  /\ Append(q, e) \in Seq(Nat)
           /\ Elems(Append(q, e)) = Elems(q) \cup {e}
           /\ Ascending(q) /\ (\A d \in Elems(q) : d < e)
                => Ascending(Append(q, e))
<1>1. /\ Append(q, e) \in Seq(Nat)
      /\ DOMAIN q = 1 .. Len(q) /\ Len(q) \in Nat
      /\ DOMAIN Append(q, e) = 1 .. Len(q) + 1
      /\ \A i \in 1 .. Len(q) : Append(q, e)[i] = q[i]
      /\ Append(q, e)[Len(q) + 1] = e
  OBVIOUS
<1>2. Elems(Append(q, e)) = Elems(q) \cup {e}
  BY <1>1 DEF Elems
<1>3. ASSUME Ascending(q), \A d \in Elems(q) : d < e
      PROVE  Ascending(Append(q, e))
  BY <1>1, <1>3 DEF Ascending, Elems
<1> QED BY <1>1, <1>2, <1>3

(* Taking the first link out of a queue.  *)
LEMMA TailLemma ==
    ASSUME NEW q \in Seq(Nat), Ascending(q), q # <<>>
    PROVE  /\ Head(q) \in Elems(q)
           /\ \A d \in Elems(q) : Head(q) <= d
           /\ Tail(q) \in Seq(Nat)
           /\ Elems(Tail(q)) = Elems(q) \ {Head(q)}
           /\ Ascending(Tail(q))
<1>1. /\ Len(q) \in Nat /\ Len(q) > 0
      /\ DOMAIN q = 1 .. Len(q)
      /\ Head(q) = q[1]
      /\ Tail(q) \in Seq(Nat)
      /\ DOMAIN Tail(q) = 1 .. Len(q) - 1
      /\ \A i \in 1 .. Len(q) - 1 : Tail(q)[i] = q[i + 1]
      /\ \A i \in 1 .. Len(q) : q[i] \in Nat
  OBVIOUS
<1>2. Head(q) \in Elems(q) /\ \A d \in Elems(q) : Head(q) <= d
  BY <1>1 DEF Elems, Ascending
<1>3. Elems(Tail(q)) \subseteq Elems(q) \ {Head(q)}
  <2> SUFFICES ASSUME NEW i \in 1 .. Len(q) - 1
               PROVE  Tail(q)[i] \in Elems(q) /\ Tail(q)[i] # q[1]
    BY <1>1 DEF Elems
  <2>1. i + 1 \in 1 .. Len(q) /\ Tail(q)[i] = q[i + 1]
    BY <1>1
  <2>2. q[1] < q[i + 1]
    BY <1>1 DEF Ascending
  <2>3. q[i + 1] \in Nat /\ q[1] \in Nat
    BY <2>1, <1>1
  <2>4. q[i + 1] # q[1]
    BY <2>2, <2>3
  <2> QED BY <2>1, <2>4, <1>1 DEF Elems
<1>4. Elems(q) \ {Head(q)} \subseteq Elems(Tail(q))
  <2> SUFFICES ASSUME NEW j \in 1 .. Len(q), q[j] # q[1]
               PROVE  q[j] \in Elems(Tail(q))
    BY <1>1 DEF Elems
  <2>1. j # 1
    OBVIOUS
  <2>2. j - 1 \in 1 .. Len(q) - 1 /\ Tail(q)[j - 1] = q[j]
    BY <2>1, <1>1
  <2> QED BY <2>2, <1>1 DEF Elems
<1>5. Ascending(Tail(q))
  BY <1>1 DEF Ascending
<1> QED BY <1>1, <1>2, <1>3, <1>4, <1>5

----------------------------------------------------------------------------
(* The inductive invariant.  *)

(* The queues are ordered by id because ids grow: every waiting event has  *)
(* an id below event_id.  All events of the shell are called once.         *)
EventsKnown == \A e \in vm.events_hash : e < vm.event_id /\ e \in vm.once

TableType ==
    vm \in VMType /\ console \in [events : SUBSET Nat, posted_events : Seq(Nat)]

(* The part about the two tables, and the whole.  *)
Core == TableType /\ EventsConsistent /\ QueuesOrdered /\ EventsKnown

IInv == TypeOK /\ Core /\ PromptOnlyWhenIdle

(* Deleting a waiting event, from either queue, keeps the tables in step.  *)
LEMMA DelLemma ==
    ASSUME Core, NEW e \in vm.events_hash,
           vm' = DelEvent(vm, e), console' = Destructor(console, vm, e)
    PROVE  Core' /\ vm'.event_id = vm.event_id
                 /\ vm'.events_hash = vm.events_hash \ {e}
<1> DEFINE P == vm.posted_events
           Q == console.posted_events
<1>1. /\ P \in Seq(Nat) /\ Q \in Seq(Nat) /\ e \in Nat
      /\ Ascending(P) /\ Ascending(Q)
      /\ vm.posted = Elems(P)
  BY DEF Core, EventsConsistent, QueuesOrdered, TableType, VMType
<1>2. vm' = [event_id      |-> vm.event_id,
             events_hash   |-> vm.events_hash \ {e},
             posted_events |-> IF e \in vm.posted THEN Unlink(P, e) ELSE P,
             posted        |-> vm.posted \ {e},
             once          |-> vm.once,
             host_event    |-> vm.host_event \ {e}]
  BY DEF Core, DelEvent, TableType, VMType
<1>3. console' = [events |-> console.events \ {e},
                  posted_events |-> IF e \in Elems(Q) THEN Unlink(Q, e) ELSE Q]
  BY DEF Core, EventsConsistent, Destructor, Released, ConsoleClearTimer,
         TableType
<1>4. /\ vm'.posted_events \in Seq(Nat)
      /\ Elems(vm'.posted_events) = Elems(P) \ {e}
      /\ Ascending(vm'.posted_events)
  BY <1>1, <1>2, UnlinkLemma
<1>5. /\ console'.posted_events \in Seq(Nat)
      /\ Elems(console'.posted_events) = Elems(Q) \ {e}
      /\ Ascending(console'.posted_events)
  BY <1>1, <1>3, UnlinkLemma
<1>6. TableType'
  BY <1>2, <1>3, <1>4, <1>5 DEF Core, TableType, VMType
<1>7. EventsConsistent'
  BY <1>2, <1>3, <1>4, <1>5 DEF Core, EventsConsistent
<1>8. QueuesOrdered'
  BY <1>2, <1>3, <1>4, <1>5 DEF Core, QueuesOrdered
<1>9. EventsKnown'
  BY <1>2 DEF Core, EventsKnown
<1> QED BY <1>2, <1>6, <1>7, <1>8, <1>9 DEF Core

(* A timer that is set goes to the end of the console's queue.  *)
LEMMA SetLemma ==
    ASSUME Core, console' = ConsoleSetTimer(console, vm.event_id),
           vm' = AddEvent(vm, TRUE, TRUE)
    PROVE  Core'
<1> DEFINE n == vm.event_id
           m == vm.event_id + 1
           Q == console.posted_events
<1>1. /\ n \in Nat /\ m \in Nat /\ n < m
      /\ Q \in Seq(Nat) /\ Ascending(Q)
      /\ \A d \in vm.events_hash : d \in Nat /\ d < n /\ d < m
      /\ \A d \in vm.events_hash : d \in vm.once
  BY DEF Core, QueuesOrdered, EventsKnown, TableType, VMType
<1>2. /\ Elems(Q) \subseteq vm.events_hash /\ vm.posted \subseteq vm.events_hash
      /\ n \notin vm.events_hash
      /\ vm.events_hash = vm.posted \cup Elems(Q)
      /\ vm.posted \cap Elems(Q) = {}
      /\ vm.posted = Elems(vm.posted_events)
      /\ vm.host_event = vm.events_hash /\ console.events = vm.events_hash
      /\ Ascending(vm.posted_events)
      /\ \A d \in vm.posted, e \in Elems(Q) : d < e
  BY <1>1 DEF Core, EventsConsistent, QueuesOrdered
<1>3. /\ vm' = [vm EXCEPT !.event_id    = m,
                          !.events_hash = @ \cup {n},
                          !.once        = @ \cup {n},
                          !.host_event  = @ \cup {n}]
      /\ console' = [events |-> console.events \cup {n},
                     posted_events |-> Append(Q, n)]
  BY DEF AddEvent, ConsoleSetTimer
<1> HIDE DEF n, m, Q
<1>4. /\ Append(Q, n) \in Seq(Nat)
      /\ Elems(Append(Q, n)) = Elems(Q) \cup {n}
      /\ Ascending(Append(Q, n))
  BY <1>1, <1>2, AppendLemma
<1>5. /\ vm'.event_id = m /\ vm'.events_hash = vm.events_hash \cup {n}
      /\ vm'.posted_events = vm.posted_events /\ vm'.posted = vm.posted
      /\ vm'.once = vm.once \cup {n}
      /\ vm'.host_event = vm.host_event \cup {n}
      /\ vm' \in VMType
  <2>1. /\ vm \in VMType
        /\ vm.events_hash \cup {n} \in SUBSET Nat
        /\ vm.once \cup {n} \in SUBSET Nat
        /\ vm.host_event \cup {n} \in SUBSET Nat
    BY <1>1 DEF Core, TableType, VMType
  <2> QED BY <2>1, <1>1, <1>3 DEF VMType
<1>6. /\ console'.events = console.events \cup {n}
      /\ console'.posted_events = Append(Q, n)
      /\ console' \in [events : SUBSET Nat, posted_events : Seq(Nat)]
  BY <1>1, <1>3, <1>4 DEF Core, TableType
<1>7. EventsConsistent'
  <2>1. vm'.posted = Elems(vm'.posted_events)
    BY <1>2, <1>5
  <2>2. Elems(console'.posted_events) = Elems(Q) \cup {n}
    BY <1>4, <1>6
  <2>3. /\ vm'.events_hash = vm'.posted \cup Elems(console'.posted_events)
        /\ vm'.posted \cap Elems(console'.posted_events) = {}
    BY <1>2, <1>5, <2>2
  <2>4. vm'.host_event = vm'.events_hash /\ console'.events = vm'.events_hash
    BY <1>2, <1>5, <1>6
  <2> QED BY <2>1, <2>3, <2>4 DEF EventsConsistent
<1>8. QueuesOrdered'
  <2>1. Ascending(vm'.posted_events) /\ Ascending(console'.posted_events)
    BY <1>2, <1>4, <1>5, <1>6
  <2>2. \A d \in vm.posted : d < n
    BY <1>1, <1>2
  <2>3. \A d \in vm'.posted, e \in Elems(console'.posted_events) : d < e
    <3>1. /\ vm'.posted = vm.posted
          /\ Elems(console'.posted_events) = Elems(Q) \cup {n}
      BY <1>4, <1>5, <1>6
    <3>2. \A d \in vm.posted, e \in Elems(Q) \cup {n} : d < e
      BY <1>2, <2>2
    <3> QED BY <3>1, <3>2, Zenon
  <2> QED BY <2>1, <2>3 DEF QueuesOrdered
<1>9. EventsKnown'
  BY <1>1, <1>5 DEF EventsKnown
<1> QED BY <1>5, <1>6, <1>7, <1>8, <1>9 DEF Core, TableType

(* Posting moves the oldest event of the console's queue to the end of the *)
(* VM's queue.                                                             *)
LEMMA PostLemma ==
    ASSUME Core, console.posted_events # <<>>,
           vm' = PostEvent(vm, Head(console.posted_events)),
           console' = [console EXCEPT !.posted_events = Tail(@)]
    PROVE  Core' /\ vm'.event_id = vm.event_id
                 /\ vm'.events_hash = vm.events_hash
<1> DEFINE P == vm.posted_events
           Q == console.posted_events
           h == Head(Q)
<1>1. /\ P \in Seq(Nat) /\ Q \in Seq(Nat) /\ Ascending(P) /\ Ascending(Q)
      /\ vm.posted = Elems(P) /\ Q # <<>>
  BY DEF Core, EventsConsistent, QueuesOrdered, TableType, VMType
<1>2. /\ h \in Elems(Q) /\ \A d \in Elems(Q) : h <= d
      /\ Tail(Q) \in Seq(Nat) /\ Elems(Tail(Q)) = Elems(Q) \ {h}
      /\ Ascending(Tail(Q))
  BY <1>1, TailLemma
<1>3. h \notin vm.posted /\ h \in Nat /\ \A d \in vm.posted : d < h
  BY <1>2, <1>1 DEF Core, EventsConsistent, QueuesOrdered, TableType
<1>4. /\ vm' = [vm EXCEPT !.posted = @ \cup {h}, !.posted_events = Append(P, h)]
      /\ console' = [console EXCEPT !.posted_events = Tail(Q)]
  BY <1>3 DEF PostEvent
<1>5. /\ Append(P, h) \in Seq(Nat)
      /\ Elems(Append(P, h)) = Elems(P) \cup {h}
      /\ Ascending(Append(P, h))
  BY <1>1, <1>3, AppendLemma
<1> HIDE DEF P, Q, h
<1>6. Elems(Q) \subseteq vm.events_hash /\ Elems(P) \subseteq vm.events_hash
      /\ vm.events_hash = Elems(P) \cup Elems(Q)
      /\ Elems(P) \cap Elems(Q) = {}
      /\ vm.host_event = vm.events_hash /\ console.events = vm.events_hash
  BY <1>1 DEF Core, EventsConsistent, Q
<1>7. /\ vm' \in VMType
      /\ console' \in [events : SUBSET Nat, posted_events : Seq(Nat)]
  <2>1. /\ vm \in VMType
        /\ console \in [events : SUBSET Nat, posted_events : Seq(Nat)]
    BY DEF Core, TableType
  <2>2. vm.posted \cup {h} \in SUBSET Nat
    BY <2>1, <1>3 DEF VMType
  <2>3. vm' \in VMType
    BY <2>1, <2>2, <1>4, <1>5 DEF VMType
  <2>4. console' \in [events : SUBSET Nat, posted_events : Seq(Nat)]
    BY <2>1, <1>2, <1>4
  <2> QED BY <2>3, <2>4
<1>8. /\ vm'.event_id = vm.event_id /\ vm'.events_hash = vm.events_hash
      /\ vm'.posted_events = Append(P, h) /\ vm'.posted = Elems(P) \cup {h}
      /\ vm'.once = vm.once /\ vm'.host_event = vm.host_event
      /\ console'.events = console.events
      /\ console'.posted_events = Tail(Q)
  BY <1>1, <1>4 DEF Core, TableType, VMType
<1>9. ASSUME NEW d \in Elems(P) \cup {h}, NEW e \in Elems(Q) \ {h}
      PROVE  d < e
  <2>1. d \in Nat /\ e \in Nat /\ h <= e /\ h # e
    BY <1>2, <1>3, <1>6 DEF Core, TableType, VMType
  <2>2. CASE d = h
    BY <2>1, <2>2, <1>3
  <2>3. CASE d \in Elems(P)
    BY <2>3, <1>1 DEF Core, QueuesOrdered, Q
  <2> QED BY <2>2, <2>3
<1>10. TableType'
  BY <1>7 DEF TableType
<1>11. EventsConsistent'
  BY <1>2, <1>5, <1>6, <1>8 DEF EventsConsistent
<1>12. QueuesOrdered'
  BY <1>2, <1>5, <1>8, <1>9 DEF QueuesOrdered
<1>13. EventsKnown'
  BY <1>8 DEF Core, EventsKnown
<1> QED BY <1>8, <1>10, <1>11, <1>12, <1>13 DEF Core

----------------------------------------------------------------------------
(* The invariance of IInv.  *)

LEMMA InitInv == Init => IInv
<1> SUFFICES ASSUME Init PROVE IInv
  OBVIOUS
<1>1. TypeOK
  <2>1. <<>> \in Seq(Nat) /\ 0 \in Nat
    OBVIOUS
  <2>2. NewVM \in VMType
    BY <2>1 DEF NewVM, VMType
  <2>3. NewConsole \in [events : SUBSET Nat, posted_events : Seq(Nat)]
    BY <2>1 DEF NewConsole
  <2> QED BY <2>1, <2>2, <2>3 DEF Init, TypeOK, PCs
<1>2. Elems(<<>>) = {} /\ Ascending(<<>>)
  BY DEF Elems, Ascending
<1>3. EventsConsistent /\ QueuesOrdered /\ EventsKnown /\ TableType
  BY <1>1, <1>2 DEF Init, NewVM, NewConsole, EventsConsistent, QueuesOrdered,
                    EventsKnown, TableType, TypeOK
<1>4. PromptOnlyWhenIdle
  BY DEF Init, NewVM, NewConsole, PromptOnlyWhenIdle, Pending, Waiting, Posted
<1> QED BY <1>1, <1>3, <1>4 DEF IInv, Core

(* In any state of the invariant, no waiting event is left out of the      *)
(* VM's queue once the console's is empty.                                 *)
LEMMA DrainedLemma ==
    ASSUME Core, console.posted_events = <<>>
    PROVE  ~Stuck
<1>1. vm.events_hash = Elems(vm.posted_events)
  BY DEF Core, EventsConsistent, Elems
<1> QED BY <1>1 DEF Stuck, Waiting, Posted, Elems

(* A step that leaves both tables alone and does not reach the prompt.     *)
LEMMA SameTables ==
    ASSUME Core, vm' = vm, console' = console, TypeOK',
           pc' = "prompt" => ~Pending(vm) /\ console.posted_events = <<>>
    PROVE  IInv'
<1>1. Core'
  BY DEF Core, TableType, EventsConsistent, QueuesOrdered, EventsKnown
<1>2. PromptOnlyWhenIdle'
  BY DEF PromptOnlyWhenIdle, Pending, Waiting, Posted
<1> QED BY <1>1, <1>2 DEF IInv

(* A number that is used up without a timer.                               *)
LEMMA BurnLemma ==
    ASSUME Core, vm' = AddEventFails(vm),
           console' = ConsoleClearTimer(ConsoleSetTimer(console, vm.event_id),
                                        vm.event_id)
    PROVE  Core' /\ vm'.events_hash = vm.events_hash
<1> DEFINE n == vm.event_id
           Q == console.posted_events
           A == Append(Q, n)
<1>1. /\ n \in Nat /\ n + 1 \in Nat /\ Q \in Seq(Nat) /\ Ascending(Q)
      /\ \A d \in vm.events_hash : d < n /\ d \in vm.once /\ d \in Nat
      /\ Elems(Q) \subseteq vm.events_hash /\ console.events = vm.events_hash
      /\ console = [events |-> console.events, posted_events |-> Q]
  BY DEF Core, QueuesOrdered, EventsKnown, EventsConsistent, TableType, VMType
<1>2. n \notin vm.events_hash
  BY <1>1
<1>3. A \in Seq(Nat) /\ Ascending(A) /\ Elems(A) = Elems(Q) \cup {n}
  BY <1>1, AppendLemma
<1>4. Unlink(A, n) = Q
  <2>1. /\ Len(Q) \in Nat /\ Len(A) = Len(Q) + 1 /\ DOMAIN A = 1 .. Len(Q) + 1
        /\ \A i \in 1 .. Len(Q) : A[i] = Q[i]
        /\ A[Len(Q) + 1] = n
    BY <1>1
  <2>2. \A i \in 1 .. Len(Q) : A[i] # n
    BY <1>1, <1>2, <2>1 DEF Elems
  <2> HIDE DEF A, n
  <2> DEFINE at == CHOOSE i \in DOMAIN A : A[i] = n
  <2>3. Len(Q) + 1 \in DOMAIN A /\ A[Len(Q) + 1] = n
    BY <2>1
  <2>4. at \in DOMAIN A /\ A[at] = n
    BY <2>3
  <2> HIDE DEF at
  <2>5. at = Len(Q) + 1
    BY <2>1, <2>2, <2>4
  <2>6. /\ Len(A) - 1 = Len(Q)
        /\ \A i \in 1 .. Len(Q) : i < Len(Q) + 1
    BY <2>1
  <2>7. Unlink(A, n) = [i \in 1 .. Len(A) - 1 |->
                          IF i < at THEN A[i] ELSE A[i + 1]]
    BY DEF Unlink, at
  <2>8. Unlink(A, n) = [i \in 1 .. Len(Q) |-> Q[i]]
    BY <2>1, <2>5, <2>6, <2>7
  <2> QED BY <2>8, <1>1
<1>5. console' = [events |-> (console.events \cup {n}) \ {n}, posted_events |-> Q]
  BY <1>3, <1>4 DEF ConsoleClearTimer, ConsoleSetTimer
<1>6. (console.events \cup {n}) \ {n} = console.events
  BY <1>1, <1>2
<1>7. console' = console
  BY <1>1, <1>5, <1>6
<1>8. /\ vm'.event_id = n + 1 /\ vm'.events_hash = vm.events_hash
      /\ vm'.posted_events = vm.posted_events /\ vm'.posted = vm.posted
      /\ vm'.once = vm.once /\ vm'.host_event = vm.host_event
      /\ vm' \in VMType
  BY <1>1 DEF AddEventFails, Core, TableType, VMType
<1> HIDE DEF n, Q, A
<1>9. EventsConsistent' /\ QueuesOrdered' /\ TableType'
  BY <1>7, <1>8 DEF Core, EventsConsistent, QueuesOrdered, TableType
<1>10. EventsKnown'
  BY <1>1, <1>8 DEF EventsKnown
<1> QED BY <1>8, <1>9, <1>10 DEF Core

(* The event njs_vm_handle_events() takes is the oldest waiting one.       *)
LEMMA CallLemma ==
    ASSUME Core, calls \in Seq(Nat), HandleEvent
    PROVE  LET e == Head(vm.posted_events)
           IN  /\ e \in vm.events_hash /\ \A d \in vm.events_hash : e <= d
               /\ vm'.events_hash = vm.events_hash \ {e}
               /\ vm'.event_id = vm.event_id
               /\ calls' = Append(calls, e) /\ calls' \in Seq(Nat)
               /\ Core'
<1> DEFINE P == vm.posted_events
           e == Head(P)
<1>1. /\ P \in Seq(Nat) /\ P # <<>> /\ Ascending(P) /\ vm.posted = Elems(P)
      /\ vm.events_hash = Elems(P) \cup Elems(console.posted_events)
      /\ \A d \in Elems(P), c \in Elems(console.posted_events) : d < c
      /\ vm.events_hash \subseteq Nat /\ vm.events_hash \subseteq vm.once
  BY DEF HandleEvent, Posted, Core, EventsConsistent, QueuesOrdered, EventsKnown,
         TableType, VMType
<1>2. e \in Elems(P) /\ \A d \in Elems(P) : e <= d
  BY <1>1, TailLemma
<1>3. e \in Nat /\ e \in vm.events_hash /\ e \in vm.once
  BY <1>1, <1>2
<1>4. \A d \in vm.events_hash : e <= d
  <2> SUFFICES ASSUME NEW d \in vm.events_hash PROVE e <= d
    OBVIOUS
  <2>1. CASE d \in Elems(P)
    BY <1>2, <2>1
  <2>2. CASE d \in Elems(console.posted_events)
    <3>1. e < d /\ d \in Nat
      BY <1>1, <1>2, <2>2
    <3> QED BY <1>3, <3>1
  <2> QED BY <1>1, <2>1, <2>2
<1>5. /\ vm' = DelEvent(vm, e) /\ console' = Destructor(console, vm, e)
      /\ calls' = Append(calls, e)
  BY <1>3 DEF HandleEvent, TakeEvent
<1>6. /\ Core' /\ vm'.event_id = vm.event_id
      /\ vm'.events_hash = vm.events_hash \ {e}
  BY <1>3, <1>5, DelLemma
<1>7. calls' \in Seq(Nat)
  BY <1>3, <1>5
<1> QED BY <1>3, <1>4, <1>5, <1>6, <1>7

LEMMA StepInv == IInv /\ [Next]_vars => IInv'
<1> SUFFICES ASSUME IInv, [Next]_vars PROVE IInv'
  OBVIOUS
<1>0. Core /\ TypeOK /\ PromptOnlyWhenIdle
  BY DEF IInv
<1>1. CASE SetTimer
  <2>1. Core'
    BY <1>0, <1>1, SetLemma DEF SetTimer
  <2> QED BY <1>0, <1>1, <2>1 DEF SetTimer, InJS, control, IInv, TypeOK, Core,
                                 TableType, PromptOnlyWhenIdle
<1>2. CASE SetTimerThrows \/ Throw
  BY <1>0, <1>2, SameTables DEF SetTimerThrows, Throw, InJS, control, TypeOK, PCs
<1>3. CASE AddEventThrows
  <2>1. Core' /\ vm'.events_hash = vm.events_hash
    BY <1>0, <1>3, BurnLemma DEF AddEventThrows
  <2> QED BY <1>0, <1>3, <2>1 DEF AddEventThrows, InJS, control, IInv, TypeOK,
                        Core, TableType, PromptOnlyWhenIdle
<1>4. CASE ClearTimeout
  <2>1. PICK e \in vm.events_hash :
          vm' = DelEvent(vm, e) /\ console' = Destructor(console, vm, e)
    BY <1>4 DEF ClearTimeout
  <2>2. Core'
    BY <1>0, <2>1, DelLemma
  <2> QED BY <1>0, <1>4, <2>2 DEF ClearTimeout, InJS, control, IInv, TypeOK,
                        Core, TableType, PromptOnlyWhenIdle
<1>5. CASE Catch
  BY <1>0, <1>5, SameTables DEF Catch, control, TypeOK, PCs
<1>6. CASE EndFrame
  BY <1>0, <1>6, SameTables DEF EndFrame, TypeOK, PCs
<1>7. CASE StartScript
  BY <1>0, <1>7, SameTables DEF StartScript, TypeOK, PCs
<1>8. CASE CheckPending
  <2>1. pc' = "prompt" => ~Pending(vm) /\ console.posted_events = <<>>
    <3>1. Elems(console.posted_events) \subseteq vm.events_hash
          /\ console.posted_events \in Seq(Nat)
          /\ Ascending(console.posted_events)
      BY <1>0 DEF Core, EventsConsistent, QueuesOrdered, TableType
    <3>2. console.posted_events # <<>> => Elems(console.posted_events) # {}
      BY <3>1, TailLemma
    <3> QED BY <1>8, <3>1, <3>2 DEF CheckPending, Pending, Waiting
  <2> QED BY <1>0, <1>8, <2>1, SameTables DEF CheckPending, TypeOK, PCs
<1>9. CASE ProcessEvent
  <2>1. Core'
    BY <1>0, <1>9, PostLemma DEF ProcessEvent
  <2> QED BY <1>0, <1>9, <2>1 DEF ProcessEvent, control, IInv, TypeOK, Core,
                        TableType, PromptOnlyWhenIdle
<1>10. CASE ProcessEventsDone
  <2>1. ~Stuck
    BY <1>0, <1>10, DrainedLemma DEF ProcessEventsDone
  <2> QED BY <1>0, <1>10, <2>1, SameTables DEF ProcessEventsDone, TypeOK, PCs
<1>11. CASE HandleEvent
  <2>1. Core' /\ calls' \in Seq(Nat)
    BY <1>0, <1>11, CallLemma DEF TypeOK
  <2> QED BY <1>0, <1>11, <2>1 DEF HandleEvent, IInv, TypeOK, Core, TableType,
                        PCs, PromptOnlyWhenIdle
<1>12. CASE RunDone
  BY <1>0, <1>12, SameTables DEF RunDone, TypeOK, PCs
<1>13. CASE UNCHANGED vars
  BY <1>0, <1>13, SameTables DEF vars, TypeOK, PromptOnlyWhenIdle
<1> QED BY <1>1, <1>2, <1>3, <1>4, <1>5, <1>6, <1>7, <1>8, <1>9, <1>10, <1>11,
           <1>12, <1>13 DEF Next, JavaScript, Host

----------------------------------------------------------------------------
(* The theorems.  *)

(* The inductive invariant holds in every state of the shell.              *)
THEOREM Invariance == Spec => []IInv
<1>1. Init => IInv
  BY InitInv
<1>2. IInv /\ [Next]_vars => IInv'
  BY StepInv
<1> QED BY <1>1, <1>2, PTL DEF Spec

(* The variables keep their types.                                         *)
THEOREM TypeCorrect == Spec => []TypeOK
<1>1. IInv => TypeOK
  BY DEF IInv
<1> QED BY <1>1, Invariance, PTL

(* However scripts and callbacks interleave setting, clearing and throwing *)
(* with the loops of the shell, each waiting event is in exactly one queue *)
(* and has its host event, and nothing else is queued.                     *)
THEOREM Consistent == Spec => []EventsConsistent
<1>1. IInv => EventsConsistent
  BY DEF IInv, Core
<1> QED BY <1>1, Invariance, PTL

(* Both queues are in the order in which the timers were set.              *)
THEOREM Ordered == Spec => []QueuesOrdered
<1>1. IInv => QueuesOrdered
  BY DEF IInv, Core
<1> QED BY <1>1, Invariance, PTL

(* The branch "async events unsupported" of njs_process_script() is dead.  *)
THEOREM NeverStuckTheorem == Spec => []NeverStuck
<1>1. IInv => NeverStuck
  BY DrainedLemma DEF IInv, NeverStuck
<1> QED BY <1>1, Invariance, PTL

(* The prompt comes back only when no timer is left.                       *)
THEOREM PromptTheorem == Spec => []PromptOnlyWhenIdle
<1>1. IInv => PromptOnlyWhenIdle
  BY DEF IInv
<1> QED BY <1>1, Invariance, PTL

----------------------------------------------------------------------------
(* Refinement.  *)

LEMMA RefineInit == Init => Promise!Init
BY DEF Init, NewVM, Promise!Init

LEMMA RefineStep ==
    IInv /\ [Next]_vars => [Promise!Next]_Promise!vars
<1> SUFFICES ASSUME IInv, [Next]_vars PROVE [Promise!Next]_Promise!vars
  OBVIOUS
<1>0. Core /\ TypeOK
  BY DEF IInv
<1>1. CASE SetTimer
  <2>1. vm'.event_id = vm.event_id + 1
        /\ vm'.events_hash = vm.events_hash \cup {vm.event_id}
        /\ calls' = calls
    BY <1>0, <1>1 DEF SetTimer, AddEvent, control, TypeOK, VMType
  <2> QED BY <2>1 DEF Promise!Next, Promise!Set
<1>2. CASE AddEventThrows
  <2>1. vm'.event_id = vm.event_id + 1 /\ vm'.events_hash = vm.events_hash
        /\ calls' = calls
    BY <1>0, <1>2 DEF AddEventThrows, AddEventFails, control, TypeOK, VMType
  <2> QED BY <2>1 DEF Promise!Next, Promise!SetThrows
<1>3. CASE ClearTimeout
  <2>1. PICK e \in vm.events_hash :
          vm' = DelEvent(vm, e) /\ console' = Destructor(console, vm, e)
    BY <1>3 DEF ClearTimeout
  <2>2. vm'.event_id = vm.event_id /\ vm'.events_hash = vm.events_hash \ {e}
        /\ calls' = calls
    BY <1>0, <1>3, <2>1, DelLemma DEF ClearTimeout, control
  <2> QED BY <2>2 DEF Promise!Next, Promise!Clear
<1>4. CASE ProcessEvent
  <2>1. vm'.event_id = vm.event_id /\ vm'.events_hash = vm.events_hash
        /\ calls' = calls
    BY <1>0, <1>4, PostLemma DEF ProcessEvent, control
  <2> QED BY <2>1 DEF Promise!vars
<1>5. CASE HandleEvent
  <2> DEFINE e == Head(vm.posted_events)
  <2>1. /\ e \in vm.events_hash /\ \A d \in vm.events_hash : e <= d
        /\ vm'.events_hash = vm.events_hash \ {e}
        /\ vm'.event_id = vm.event_id
        /\ calls' = Append(calls, e)
    BY <1>0, <1>5, CallLemma DEF TypeOK
  <2> HIDE DEF e
  <2> QED BY <2>1 DEF Promise!Next, Promise!Call, Promise!Oldest
<1>6. CASE SetTimerThrows \/ Throw \/ Catch \/ EndFrame \/ StartScript
              \/ CheckPending \/ ProcessEventsDone \/ RunDone
              \/ UNCHANGED vars
  <2>1. vm' = vm /\ calls' = calls
    BY <1>6 DEF SetTimerThrows, Throw, Catch, EndFrame, StartScript,
                CheckPending, ProcessEventsDone, RunDone, vars, control
  <2> QED BY <2>1 DEF Promise!vars
<1> QED BY <1>1, <1>2, <1>3, <1>4, <1>5, <1>6 DEF Next, JavaScript, Host

(* The shell implements the promise of TimerPromise: timers are called at  *)
(* most once, in the order they were set, and never after being cleared.   *)
THEOREM Refinement == Spec => ImplementsPromise
<1>1. Init => Promise!Init
  BY RefineInit
<1>2. IInv /\ [Next]_vars => [Promise!Next]_Promise!vars
  BY RefineStep
<1> QED BY <1>1, <1>2, Invariance, PTL DEF Spec, ImplementsPromise, Promise!Spec

=============================================================================
