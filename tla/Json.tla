-------------------------------- MODULE Json --------------------------------
(***************************************************************************)
(* njs_json.c, the walks: JSON.parse() calling its reviver, and the output *)
(* of JSON.stringify() and of console.dump().  Each goes over objects with *)
(* a stack of MaxDepth states and no recursion; an action is one turn of   *)
(* its loop.                                                               *)
(***************************************************************************)
EXTENDS Integers, Sequences, FiniteSets, SequencesExt

CONSTANTS MaxDepth,      \* NJS_JSON_MAX_DEPTH
          Heaps,         \* objects to start with, as functions of their ids
          Replacers,     \* second arguments of JSON.stringify()
          MaxCells,      \* elements or properties of an object
          MaxChanges,    \* how often the callbacks change an object
          Spaces         \* spaces of an indent

VARIABLES walk,          \* "revive", "stringify" or "dump"
          heap,          \* id -> [kind, cells, beyond, toJson]; 0 is the wrapper
          args,          \* [replacer, space]
          stack,         \* parse->states, stringify->states
          out,           \* what was written, or <<>>
          calls,         \* the calls of the reviver that are still due
          changes,       \* how often they changed an object
          result         \* "running", "done", "error" or "astray"

vars == <<walk, heap, args, stack, out, calls, changes, result>>

-----------------------------------------------------------------------------
(* Values and objects.  The cells of an array are its elements, those of   *)
(* an object its properties in the order of their enumeration; a cell that *)
(* was deleted stays in the hash.                                          *)
Value(t)     == [t |-> t, id |-> 0]
Ref(id)      == [t |-> "object", id |-> id]
Nothing      == Value("undefined")
Wrapper      == 0

Cells(id)    == heap[id].cells
IsArray(id)  == heap[id].kind = "array"
Find(cells, key) == {i \in DOMAIN cells : cells[i].key = key /\ cells[i].value.t # "deleted"}
Keys(cells)  == LET live == SelectSeq(cells, LAMBDA c : c.value.t # "deleted")
                IN  [i \in DOMAIN live |-> live[i].key]

(* njs_json_wrap_value(): { "": value }.                                   *)
Wrap(value) == [kind |-> "object", cells |-> <<[key |-> "", value |-> value]>>, beyond |-> <<>>, toJson |-> "none"]

Top         == Last(stack)
SetTop(s)   == [stack EXCEPT ![Len(stack)] = s]

(* Objects that can be reached from a value.                               *)
RECURSIVE Reach(_, _)
Reach(ids, n) ==
    LET more == {id \in DOMAIN heap : \E i \in ids : \E c \in DOMAIN Cells(i) :
                                          Cells(i)[c].value = Ref(id)} \cup ids
    IN  IF n = 0 THEN ids ELSE Reach(more, n - 1)
Below(value) == IF value.t = "object" THEN Reach({value.id}, Cardinality(DOMAIN heap)) ELSE {}

-----------------------------------------------------------------------------
(* The reviver.                                                            *)

(* njs_json_push_parse_state() and njs_json_push_stringify_state().        *)
State(id, keys) == [id |-> id, index |-> 1, keys |-> keys, written |-> FALSE]
Push(id, keys)  == Append(stack, State(id, keys))
Full            == Len(stack) >= MaxDepth

(* njs_json_is_non_empty(): a hash is not empty for its deleted cells.     *)
IsNonEmpty(value) == value.t = "object" /\ Cells(value.id) # <<>>

(* ECMAScript's InternalizeJSONProperty(), over a tree: the calls for the  *)
(* elements or properties of an object come before the one for itself.     *)
RECURSIVE CallsFor(_, _)
CallsFor(id, key) ==
    LET cell  == Cells(id)[Max(Find(Cells(id), key))].value
        inner == Keys(Cells(cell.id))
    IN  (IF cell.t # "object" THEN <<>>
         ELSE FlattenSeq([i \in DOMAIN inner |-> CallsFor(cell.id, inner[i])])) \o <<<<id, key>>>>

(* What a callback may do before it returns, to one of the objects that it *)
(* knows: its own, the ones around it that were "this" of an earlier call, *)
(* and what is inside them.  An array gets shorter, where the block keeps  *)
(* its last elements behind its length, or has a number pushed, in that    *)
(* block while it has room; an object loses or gets a property.            *)
Known(states) ==
    UNION {Below(Ref(states[i].id)) : i \in {j \in DOMAIN states : j = Len(states) \/ states[j].index > 1}}

Shortened(id) ==
    IF IsArray(id) THEN {[heap[id] EXCEPT !.cells = SubSeq(@, 1, n), !.beyond = SubSeq(Cells(id), n + 1, Len(Cells(id))) \o @]
                         : n \in 0..Len(Cells(id)) - 1}
    ELSE {[heap[id] EXCEPT !.cells[i].value = Value("deleted")]
          : i \in {c \in DOMAIN Cells(id) : Cells(id)[c].value.t # "deleted"}}

Lengthened(id) ==
    LET key == IF IsArray(id) THEN Len(Cells(id)) + 1 ELSE "added"
    IN  IF Len(Cells(id)) >= MaxCells \/ \E i \in DOMAIN Cells(id) : Cells(id)[i].key = key THEN {}
        ELSE {[heap[id] EXCEPT !.cells = Append(@, [key |-> key, value |-> Value("number")]),
                               !.beyond = SubSeq(@, 2, Len(@))]}

Changes(states) ==
    [id : {Last(states).id}, to : {heap[Last(states).id]}]
    \cup IF changes = MaxChanges THEN {}
         ELSE UNION {[id : {id}, to : Shortened(id) \cup Lengthened(id)] : id \in Known(states)}

(* njs_array_expand() takes another block when the old one has no room.    *)
Moves(change) ==
    /\ IsArray(change.id) /\ Len(change.to.cells) > Len(Cells(change.id))
    /\ heap[change.id].beyond = <<>>

(* What is then still due.  A value that is gone needs no call, nor does   *)
(* what is inside it, unless the walk is inside it at the time; one that   *)
(* was added gets its call, before the one for the object itself, unless   *)
(* the walk has passed its place or has listed the keys before.            *)
Open(states)      == {states[i].id : i \in DOMAIN states}
CurrentKey(state) == IF IsArray(state.id) THEN state.index ELSE state.keys[state.index]
Inside(states)    == {<<states[i].id, CurrentKey(states[i])>> : i \in 1..Len(states) - 1}

Gone(states, change) ==
    LET cells == Cells(change.id)
        lost  == {i \in DOMAIN cells : /\ <<change.id, cells[i].key>> \notin Inside(states)
                                       /\ cells[i].value.t # "deleted"
                                       /\ i \in DOMAIN change.to.cells => change.to.cells[i].value.t = "deleted"}
        under == UNION {Below(cells[i].value) : i \in lost}
    IN  {<<change.id, cells[i].key>> : i \in lost}
        \cup UNION {{<<u, Cells(u)[i].key>> : i \in DOMAIN Cells(u)} : u \in under}

Place(states, id) ==
    IF id \in Open(states)
    THEN {<<states[i - 1].id, CurrentKey(states[i - 1])>> : i \in {j \in 2..Len(states) : states[j].id = id}}
    ELSE UNION {{<<u, Cells(u)[i].key>> : i \in {c \in DOMAIN Cells(u) : Cells(u)[c].value = Ref(id)}} : u \in DOMAIN heap}

StillDue(states, due, change) ==
    LET id   == change.id
        last == Len(change.to.cells)
        kept == SelectSeq(due, LAMBDA c : c \notin Gone(states, change))
        at   == {i \in DOMAIN kept : kept[i] \in Place(states, id)}
        seen == \A i \in DOMAIN states : states[i].id = id => IsArray(id) /\ last > states[i].index
    IN  IF last > Len(Cells(id)) /\ seen /\ at # {}
        THEN InsertAt(kept, Max(at), <<id, change.to.cells[last].key>>)
        ELSE kept

(* njs_json_parse_iterator_call(): what the callback returns takes the     *)
(* place of the value, also when the property was deleted meanwhile, whose *)
(* cell is then not looked at again.                                       *)
Returned(after, key, value) ==
    LET at == {i \in DOMAIN after.cells : after.cells[i].key = key}
    IN  IF at = {} THEN after
        ELSE IF after.kind = "array" THEN [after EXCEPT !.cells[Max(at)].value = value]
        ELSE IF value = Nothing \/ after.cells[Max(at)].value.t = "deleted"
             THEN [after EXCEPT !.cells[Max(at)].value = Value("deleted")]
        ELSE [after EXCEPT !.cells[Max(at)].value = value]

(* The element is read whatever the length is by now, and its place is     *)
(* kept over the call: once the block is another one, the result goes to   *)
(* the old one, which is free; the walk is not followed any further.       *)
Block(id) == Cells(id) \o heap[id].beyond

Call(states) ==
    LET state == Last(states)
        id    == state.id
        key   == CurrentKey(state)
        read  == {i \in DOMAIN Block(id) : Block(id)[i].key = key}
        due   == calls # <<>> /\ calls[1] = <<id, key>> /\ read # {}
    IN  IF ~due THEN calls' = <<<<-1, -1>>>> /\ UNCHANGED <<heap, stack, changes, result>>
        ELSE \E change \in Changes(states), value \in {Nothing, Value("number"), Block(id)[Max(read)].value} :
               LET after == [heap EXCEPT ![change.id] = change.to]
               IN  /\ stack' = [states EXCEPT ![Len(states)].index = @ + 1]
                   /\ calls' = StillDue(states, Tail(calls), change)
                   /\ changes' = changes + IF change.to = heap[change.id] THEN 0 ELSE 1
                   /\ \/ /\ heap' = [after EXCEPT ![id] = Returned(@, key, value)]
                         /\ UNCHANGED result
                      \/ /\ change.id = id /\ Moves(change)
                         /\ heap' = after
                         /\ result' = "astray"

(* njs_json_parse_iterator().                                              *)
NextKey ==
    /\ walk = "revive" /\ result = "running"
    /\ ~IsArray(Top.id) /\ Top.index <= Len(Top.keys)
    /\ Find(Cells(Top.id), Top.keys[Top.index]) = {}
    /\ stack' = SetTop([Top EXCEPT !.index = @ + 1])
    /\ UNCHANGED <<walk, heap, args, out, calls, changes, result>>

Current ==
    IF IsArray(Top.id) THEN Cells(Top.id)[Top.index].value
    ELSE Cells(Top.id)[Max(Find(Cells(Top.id), Top.keys[Top.index]))].value

More == IF IsArray(Top.id) THEN Top.index <= Len(Cells(Top.id))
        ELSE Top.index <= Len(Top.keys) /\ Find(Cells(Top.id), Top.keys[Top.index]) # {}

Over == IF IsArray(Top.id) THEN Top.index > Len(Cells(Top.id)) ELSE Top.index > Len(Top.keys)

Descend ==
    /\ walk = "revive" /\ result = "running"
    /\ More /\ IsNonEmpty(Current)
    /\ IF Full THEN result' = "error" /\ UNCHANGED stack
       ELSE stack' = Push(Current.id, Keys(Cells(Current.id))) /\ UNCHANGED result
    /\ UNCHANGED <<walk, heap, args, out, calls, changes>>

Revive ==
    /\ walk = "revive" /\ result = "running"
    /\ More /\ ~IsNonEmpty(Current)
    /\ Call(stack)
    /\ UNCHANGED <<walk, args, out>>

Ascend ==
    /\ walk = "revive" /\ result = "running"
    /\ Over
    /\ IF Len(stack) = 1 THEN result' = "done" /\ UNCHANGED <<heap, stack, calls, changes>>
       ELSE Call(Front(stack))
    /\ UNCHANGED <<walk, args, out>>

-----------------------------------------------------------------------------
(* JSON.stringify() and console.dump().  What is written is a sequence of  *)
(* characters, of which "q" is the quote; a number or a name is one.       *)
Units(n)      == [i \in 1..n |-> " "]
Indent(times) == IF args.space = 0 THEN <<>> ELSE <<"\n">> \o Units((times - 1) * args.space)
Depth         == Len(stack) + IF walk = "dump" THEN 1 ELSE 0

Name(key) ==
    (IF walk = "dump" THEN <<key>> ELSE IF key = "" THEN <<"q", "q">> ELSE <<"q", key, "q">>)
    \o <<":">> \o IF args.space = 0 THEN <<>> ELSE <<" ">>

(* njs_json_append_value() and njs_dump_value().                           *)
Atom(v) ==
    CASE v.t = "number" -> <<"1">>
      [] v.t = "string" -> <<"q", "s", "q">>
      [] v.t = "null"   -> <<"null">>
      [] OTHER          -> <<IF walk = "dump" THEN v.t ELSE "null">>

(* njs_json_stringify_array(): the names in the list of a replacer, each   *)
(* once, behind the empty name of the wrapper.                             *)
KeyList(list) ==
    LET names == {i \in DOMAIN list : list[i].t \in {"string", "number"} /\ list[i].name # ""}
        first == {i \in names : \A j \in names : list[j].name = list[i].name => i <= j}
    IN  <<"">> \o [k \in 1..Cardinality(first) |->
                      list[CHOOSE i \in first : Cardinality({j \in first : j <= i}) = k].name]

KeysOf(id) ==
    IF walk = "stringify" /\ args.replacer.kind = "list" THEN KeyList(args.replacer.list) ELSE Keys(Cells(id))

(* njs_json_stringify_to_json() and njs_json_stringify_replacer(), of some *)
(* functions.                                                              *)
Answered(v) == IF v.t = "object" /\ heap[v.id].toJson # "none" THEN Value(heap[v.id].toJson) ELSE v

Replaced(key, v) ==
    IF args.replacer.kind # "function" THEN v
    ELSE CASE args.replacer.name = "same"     -> v
           [] args.replacer.name = "drop"     -> IF key = "a" THEN Nothing ELSE v
           [] args.replacer.name = "function" -> IF v.t = "number" THEN Value("function") ELSE v
           [] args.replacer.name = "object"   -> IF v.t = "null" THEN Ref(3) ELSE v

(* What a turn of the loop writes for a property or an element.            *)
NoValue == Value("skip")

Shown(key, v) ==
    IF walk = "dump" THEN (IF v.t = "deleted" THEN NoValue ELSE v)
    ELSE IF v.t \in {"undefined", "function", "invalid", "deleted"} THEN NoValue
    ELSE IF Replaced(key, Answered(v)) = Nothing THEN NoValue
    ELSE Replaced(key, Answered(v))

ShownElement(v) == IF walk = "dump" THEN v ELSE Replaced("#", Answered(v))

Begun(bracket) == IF Top.index = 1 THEN out \o <<bracket>> \o Indent(Depth) ELSE out
CommaByIndex   == IF Top.index > 1 THEN <<",">> \o Indent(Depth) ELSE <<>>          \* mutant
Comma          == IF Top.written THEN <<",">> \o Indent(Depth) ELSE <<>>

(* An object is written by states of its own: unless there are too many.   *)
Write(begun, v) ==
    IF v.t # "object"
    THEN /\ out' = begun \o Atom(v)
         /\ stack' = SetTop([Top EXCEPT !.index = @ + 1, !.written = TRUE])
         /\ UNCHANGED result
    ELSE /\ out' = begun
         /\ IF Full THEN result' = "error" /\ UNCHANGED stack
            ELSE /\ stack' = Append(SetTop([Top EXCEPT !.index = @ + 1, !.written = TRUE]), State(v.id, KeysOf(v.id)))
                 /\ UNCHANGED result

WriteProperty ==
    /\ walk # "revive" /\ result = "running"
    /\ ~IsArray(Top.id) /\ Top.index <= Len(Top.keys)
    /\ LET key == Top.keys[Top.index]
           at  == Find(Cells(Top.id), key)
           v   == Shown(key, IF at = {} THEN Value("deleted") ELSE Cells(Top.id)[Max(at)].value)
       IN  IF v = NoValue
           THEN /\ out' = Begun("{")
                /\ stack' = SetTop([Top EXCEPT !.index = @ + 1])
                /\ UNCHANGED result
           ELSE Write(Begun("{") \o Comma \o Name(key), v)
    /\ UNCHANGED <<walk, heap, args, calls, changes>>

WriteElement ==
    /\ walk # "revive" /\ result = "running"
    /\ IsArray(Top.id) /\ Top.index <= Len(Cells(Top.id))
    /\ Write(Begun("[") \o Comma, ShownElement(Cells(Top.id)[Top.index].value))
    /\ UNCHANGED <<walk, heap, args, calls, changes>>

(* The end of an object, or of the whole: what stands around the value of  *)
(* the wrapper is cut off, and a wrapper without a value is undefined.     *)
Unwrapped(text) ==
    IF Len(text) <= 4 THEN <<>>
    ELSE IF args.space = 0 THEN SubSeq(text, 5, Len(text) - 1) ELSE SubSeq(text, 7, Len(text) - 2)

Close ==
    /\ walk # "revive" /\ result = "running"
    /\ Top.index > IF IsArray(Top.id) THEN Len(Cells(Top.id)) ELSE Len(Top.keys)
    /\ LET open == IF IsArray(Top.id) THEN "[" ELSE "{"
           text == Begun(open) \o Indent(Depth - 1) \o <<IF IsArray(Top.id) THEN "]" ELSE "}">>
       IN  IF Len(stack) > 1
           THEN /\ out' = text
                /\ stack' = [Front(stack) EXCEPT ![Len(stack) - 1].written = TRUE]
                /\ UNCHANGED result
           ELSE /\ out' = IF walk = "dump" THEN text ELSE Unwrapped(text)
                /\ result' = "done"
                /\ UNCHANGED stack
    /\ UNCHANGED <<walk, heap, args, calls, changes>>

(* ECMAScript's SerializeJSONProperty() with the departures of the code:   *)
(* a replacer is not asked for a property without a value, what a function *)
(* is replaced by or replaces is null, empty objects have a line of their  *)
(* own, and the nesting is limited, which is also how a cycle is found.    *)
Line(n) == IF args.space = 0 THEN <<>> ELSE <<"\n">> \o Units(n * args.space)

Between(open, parts, close, level) ==
    <<open>> \o Line(level + 1)
    \o FlattenSeq([i \in DOMAIN parts |-> (IF i > 1 THEN <<",">> \o Line(level + 1) ELSE <<>>) \o parts[i]])
    \o Line(level) \o <<close>>

RECURSIVE Serialized(_, _)
Serialized(v, level) ==
    LET keys   == KeysOf(v.id)
        Of(i)  == LET at == Find(Cells(v.id), keys[i])
                  IN  IF at = {} THEN NoValue ELSE Shown(keys[i], Cells(v.id)[Max(at)].value)
        listed == SelectSeq([i \in DOMAIN keys |-> i], LAMBDA i : Of(i) # NoValue)
    IN  IF v.t # "object" THEN Atom(v)
        ELSE IF level + (IF walk = "dump" THEN 1 ELSE 2) > MaxDepth THEN <<"too deep">>
        ELSE IF IsArray(v.id)
             THEN Between("[", [i \in DOMAIN Cells(v.id) |-> Serialized(ShownElement(Cells(v.id)[i].value), level + 1)],
                          "]", level)
        ELSE Between("{", [i \in DOMAIN listed |-> Name(keys[listed[i]]) \o Serialized(Of(listed[i]), level + 1)],
                     "}", level)

Expected ==
    IF walk = "dump" THEN Serialized(Ref(1), 0)
    ELSE IF Shown("", Ref(1)) = NoValue THEN <<>> ELSE Serialized(Shown("", Ref(1)), 0)

-----------------------------------------------------------------------------
(* Object 1 is what is parsed, written or dumped; JSON.parse() makes trees *)
(* nested less than MaxDepth deep.                                         *)
IsTree(h) ==
    LET Refs(id) == {c \in DOMAIN h[id].cells : h[id].cells[c].value.t = "object"}
        uses == {w \in (DOMAIN h) \X (1..4) : w[2] \in Refs(w[1])}
    IN  /\ Cardinality(DOMAIN h) < MaxDepth
        /\ \A w \in uses : h[w[1]].cells[w[2]].value.id > w[1]
        /\ \A w, u \in uses : w # u => h[w[1]].cells[w[2]].value.id # h[u[1]].cells[u[2]].value.id
        /\ \A id \in DOMAIN h : h[id].toJson = "none"
             /\ \A c \in DOMAIN h[id].cells : h[id].cells[c].value.t \in {"object", "number", "null"}

Init ==
    /\ walk \in {"revive", "stringify", "dump"}
    /\ \E h \in Heaps :
         /\ walk = "revive" => IsTree(h)
         /\ heap = [id \in DOMAIN h \cup {Wrapper} |-> IF id = Wrapper THEN Wrap(Ref(1)) ELSE h[id]]
    /\ args \in [replacer : IF walk = "stringify" THEN Replacers ELSE {[kind |-> "none"]},
                 space : IF walk = "revive" THEN {0} ELSE Spaces]
    /\ out = <<>> /\ result = "running" /\ changes = 0
    /\ stack = <<IF walk = "dump" THEN State(1, Keys(Cells(1))) ELSE State(Wrapper, KeysOf(Wrapper))>>
    /\ calls = IF walk = "revive" THEN CallsFor(Wrapper, "") ELSE <<>>

Next == NextKey \/ Descend \/ Revive \/ Ascend \/ WriteProperty \/ WriteElement \/ Close

Spec == Init /\ [][Next]_vars

(* Whatever the reviver shortens or lengthens, its own object or one of    *)
(* those around it, it is called once for every value that is there when   *)
(* the walk comes to it, children first, and for nothing else: the call    *)
(* for a value that went while the walk was inside it finds it behind the  *)
(* length.  JSON.parse() never fails for a tree that it made.  Only a call *)
(* that makes the array of its own value move is not followed: its result  *)
(* is written to freed memory.  What JSON.stringify() and console.dump()   *)
(* write is what a recursive description of the same text says, and they   *)
(* fail exactly when it is nested too deep.                                *)
JsonWalksComplete ==
    /\ walk = "revive" =>
         /\ result # "error"
         /\ result = "done" => calls = <<>>
         /\ calls # <<>> => calls[1] # <<-1, -1>>
    /\ walk # "revive" =>
         /\ result = "done" => out = Expected
         /\ result # "running" => (result = "error") = ("too deep" \in ToSet(Expected))

=============================================================================
