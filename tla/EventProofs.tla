----------------------------- MODULE EventProofs -----------------------------
(***************************************************************************)
(* What the functions of the event table preserve, for tables of any size: *)
(* the lemmas that the proofs about the nginx modules share.               *)
(***************************************************************************)
EXTENDS VMEvents, CommonProofs, TLAPS

(* The flag posted tells membership of the queue, which is a proper one.   *)
Sound(v) ==
    /\ v \in VMType
    /\ Distinct(v.posted_events)
    /\ v.posted = Elems(v.posted_events)

----------------------------------------------------------------------------
(* An empty table.  *)
LEMMA NewSound == Sound(NewVM)
BY DEF Sound, NewVM, VMType, Distinct, Elems

(* njs_add_event().  *)
LEMMA AddSound ==
    ASSUME NEW v, Sound(v), NEW o \in BOOLEAN, NEW h \in BOOLEAN,
           NEW a, a = AddEvent(v, o, h)
    PROVE  /\ Sound(a)
           /\ a.event_id = v.event_id + 1
           /\ a.events_hash = v.events_hash \cup {v.event_id}
           /\ a.posted = v.posted
           /\ a.once = IF o THEN v.once \cup {v.event_id} ELSE v.once
           /\ a.host_event = IF h THEN v.host_event \cup {v.event_id}
                             ELSE v.host_event
<1> DEFINE once == IF o THEN v.once \cup {v.event_id} ELSE v.once
           host == IF h THEN v.host_event \cup {v.event_id} ELSE v.host_event
<1>1. a = [v EXCEPT !.event_id = v.event_id + 1,
                    !.events_hash = v.events_hash \cup {v.event_id},
                    !.once = once, !.host_event = host]
  BY DEF AddEvent
<1>2. /\ v.event_id + 1 \in Nat
      /\ v.events_hash \cup {v.event_id} \in SUBSET Nat
      /\ once \in SUBSET Nat /\ host \in SUBSET Nat
  BY DEF Sound, VMType
<1> HIDE DEF once, host
<1>3. a \in VMType
  BY <1>1, <1>2 DEF Sound, VMType
<1>4. /\ a.event_id = v.event_id + 1
      /\ a.events_hash = v.events_hash \cup {v.event_id}
      /\ a.posted_events = v.posted_events /\ a.posted = v.posted
      /\ a.once = once /\ a.host_event = host
  BY <1>1 DEF Sound, VMType
<1> QED BY <1>3, <1>4 DEF Sound, once, host

(* An event with a timer of the host.                                      *)
LEMMA AddTimer ==
    ASSUME NEW v, Sound(v), NEW a, a = AddEvent(v, TRUE, TRUE)
    PROVE  /\ Sound(a)
           /\ a.event_id = v.event_id + 1
           /\ a.events_hash = v.events_hash \cup {v.event_id}
           /\ a.posted = v.posted
           /\ a.once = v.once \cup {v.event_id}
           /\ a.host_event = v.host_event \cup {v.event_id}
<1>1. TRUE \in BOOLEAN /\ TRUE \in BOOLEAN
  OBVIOUS
<1> QED BY <1>1, AddSound, Zenon

(* An event that is called once and has no timer.                          *)
LEMMA AddOnce ==
    ASSUME NEW v, Sound(v), NEW a, a = AddEvent(v, TRUE, FALSE)
    PROVE  /\ Sound(a)
           /\ a.event_id = v.event_id + 1
           /\ a.events_hash = v.events_hash \cup {v.event_id}
           /\ a.posted = v.posted
           /\ a.once = v.once \cup {v.event_id}
           /\ a.host_event = v.host_event
<1>1. TRUE \in BOOLEAN /\ FALSE \in BOOLEAN
  OBVIOUS
<1>2. /\ Sound(a) /\ a.event_id = v.event_id + 1
      /\ a.events_hash = v.events_hash \cup {v.event_id}
      /\ a.posted = v.posted
  BY <1>1, AddSound, Zenon
<1>3. /\ a.once = v.once \cup {v.event_id}
      /\ a.host_event = v.host_event
  BY DEF AddEvent, Sound, VMType
<1> QED BY <1>2, <1>3

(* An event that may be called again and again.                            *)
LEMMA AddRepeated ==
    ASSUME NEW v, Sound(v), NEW a, a = AddEvent(v, FALSE, FALSE)
    PROVE  /\ Sound(a)
           /\ a.event_id = v.event_id + 1
           /\ a.events_hash = v.events_hash \cup {v.event_id}
           /\ a.posted = v.posted
           /\ a.once = v.once
           /\ a.host_event = v.host_event
<1>1. FALSE \in BOOLEAN /\ FALSE \in BOOLEAN
  OBVIOUS
<1> QED BY <1>1, AddSound, Zenon

(* njs_del_event(), also of an event that is not in the table any more.    *)
LEMMA DelSound ==
    ASSUME NEW v, Sound(v), NEW e, NEW d, d = DelEvent(v, e)
    PROVE  /\ Sound(d)
           /\ d.event_id = v.event_id
           /\ d.events_hash = v.events_hash \ {e}
           /\ d.posted = v.posted \ {e}
           /\ d.once = v.once
           /\ d.host_event = v.host_event \ {e}
<1> DEFINE q == IF e \in v.posted THEN Unlink(v.posted_events, e)
                ELSE v.posted_events
<1>1. d = [v EXCEPT !.host_event = v.host_event \ {e},
                    !.posted = v.posted \ {e}, !.posted_events = q,
                    !.events_hash = v.events_hash \ {e}]
  BY DEF DelEvent
<1>2. q \in Seq(Nat) /\ Distinct(q) /\ Elems(q) = v.posted \ {e}
  <2>1. v.posted_events \in Seq(Nat)
    BY DEF Sound, VMType
  <2>2. CASE e \in v.posted
    BY <2>1, <2>2, UnlinkDistinct DEF Sound
  <2>3. CASE e \notin v.posted
    BY <2>1, <2>3 DEF Sound
  <2> QED BY <2>2, <2>3
<1> HIDE DEF q
<1>3. d \in VMType
  BY <1>1, <1>2 DEF Sound, VMType
<1>4. /\ d.event_id = v.event_id /\ d.events_hash = v.events_hash \ {e}
      /\ d.posted = v.posted \ {e} /\ d.once = v.once
      /\ d.host_event = v.host_event \ {e} /\ d.posted_events = q
  BY <1>1 DEF Sound, VMType
<1> QED BY <1>2, <1>3, <1>4 DEF Sound

(* njs_vm_post_event().  *)
LEMMA PostSound ==
    ASSUME NEW v, Sound(v), NEW e \in Nat, NEW p, p = PostEvent(v, e)
    PROVE  /\ Sound(p)
           /\ p.event_id = v.event_id
           /\ p.events_hash = v.events_hash
           /\ p.posted = v.posted \cup {e}
           /\ p.once = v.once
           /\ p.host_event = v.host_event
<1>1. CASE e \in v.posted
  BY <1>1 DEF PostEvent
<1>2. CASE e \notin v.posted
  <2> DEFINE q == Append(v.posted_events, e)
  <2>1. p = [v EXCEPT !.posted = v.posted \cup {e}, !.posted_events = q]
    BY <1>2 DEF PostEvent
  <2>2. v.posted_events \in Seq(Nat) /\ v.posted \cup {e} \in SUBSET Nat
    BY DEF Sound, VMType
  <2>3. q \in Seq(Nat) /\ Elems(q) = v.posted \cup {e} /\ Distinct(q)
    BY <1>2, <2>2, AppendDistinct DEF Sound
  <2> HIDE DEF q
  <2>4. p \in VMType
    BY <2>1, <2>2, <2>3 DEF Sound, VMType
  <2>5. /\ p.event_id = v.event_id /\ p.events_hash = v.events_hash
        /\ p.posted = v.posted \cup {e} /\ p.once = v.once
        /\ p.host_event = v.host_event /\ p.posted_events = q
    BY <2>1 DEF Sound, VMType
  <2> QED BY <2>3, <2>4, <2>5 DEF Sound
<1> QED BY <1>1, <1>2

(* One iteration of the loop of njs_vm_handle_events().                    *)
LEMMA TakeSound ==
    ASSUME NEW v, Sound(v), Posted(v), NEW t, t = TakeEvent(v),
           NEW e, e = Head(v.posted_events)
    PROVE  /\ Sound(t)
           /\ e \in v.posted /\ e \in Nat
           /\ t.event_id = v.event_id
           /\ t.events_hash = IF e \in v.once THEN v.events_hash \ {e}
                              ELSE v.events_hash
           /\ t.posted = v.posted \ {e}
           /\ t.once = v.once
           /\ t.host_event = IF e \in v.once THEN v.host_event \ {e}
                             ELSE v.host_event
<1>1. e \in v.posted /\ e \in Nat
  BY HeadElems DEF Sound, VMType, Posted
<1>2. CASE e \in v.once
  <2>1. t = DelEvent(v, e)
    BY <1>2 DEF TakeEvent
  <2> QED BY <2>1, <1>1, <1>2, DelSound
<1>3. CASE e \notin v.once
  <2> DEFINE q == Unlink(v.posted_events, e)
  <2>1. t = [v EXCEPT !.posted = v.posted \ {e}, !.posted_events = q]
    BY <1>3 DEF TakeEvent
  <2>2. v.posted_events \in Seq(Nat)
    BY DEF Sound, VMType
  <2>3. q \in Seq(Nat) /\ Elems(q) = v.posted \ {e} /\ Distinct(q)
    BY <1>1, <2>2, UnlinkDistinct DEF Sound
  <2> HIDE DEF q
  <2>4. t \in VMType
    BY <2>1, <2>3 DEF Sound, VMType
  <2>5. /\ t.event_id = v.event_id /\ t.events_hash = v.events_hash
        /\ t.posted = v.posted \ {e} /\ t.once = v.once
        /\ t.host_event = v.host_event /\ t.posted_events = q
    BY <2>1 DEF Sound, VMType
  <2> QED BY <2>3, <2>4, <2>5, <1>1, <1>3 DEF Sound
<1> QED BY <1>2, <1>3

(* njs_vm_pending() in terms of the two tables.                            *)
LEMMA PendingSound ==
    ASSUME NEW v, Sound(v)
    PROVE  /\ Posted(v) <=> v.posted # {}
           /\ Pending(v) <=> v.events_hash # {} \/ v.posted # {}
BY HeadElems DEF Sound, VMType, Posted, Waiting, Pending

=============================================================================
