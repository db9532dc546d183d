------------------------- MODULE InterpreterProofs -------------------------
(***************************************************************************)
(* Proof that the frames of the interpreter match the code that it runs,   *)
(* for any well-formed code of the two functions, and calls of any depth.  *)
(*                                                                         *)
(* The inductive invariant gives each activation the position pos of its   *)
(* frame.  All that is said of an activation is about its own frame and    *)
(* about those up to the next activation's, so that a step, which happens  *)
(* at the end of both stacks, leaves what is below as it is.               *)
(***************************************************************************)
EXTENDS Interpreter, TLAPS

Code(p, fn) == p.code[fn].code
Sits(p, a)  == a.at \in DOMAIN Code(p, a.fn)
At(p, a)    == Code(p, a.fn)[a.at]

Frame(p) == {f \in [fn : Nat, called : BOOLEAN, skip : BOOLEAN, catch : Seq(Nat),
                   exception_value : Seq(Int), exit_value : Seq([valid : BOOLEAN, v : Int]),
                   loop : Seq(Int)] :
                f.fn \in 1..2 => Len(f.exception_value) = p.code[f.fn].tries}
Activation == [fn : 0..2, at : Nat]

-----------------------------------------------------------------------------
(* The inductive invariant.                                                *)

(* A frame of the interpreter that is at a, with its handlers.             *)
Runs(p, f, a) ==
    /\ f.fn = a.fn /\ f.called /\ ~f.skip
    /\ Sits(p, a) => f.catch = Handlers(Code(p, a.fn), a.at)

(* A frame that no interpreter runs in, and one that waits for its call.   *)
Fresh(f) == ~f.called /\ f.catch = <<>>
Prepared(f, call) == Fresh(f) /\ ~f.skip /\ f.fn = FunctionOf(call)

(* The frames above the position at, up to another, are those of calls.    *)
Waiting(fs, at, calls) ==
    \A k \in DOMAIN calls : Prepared(fs[at + k], calls[k])

(* An interpreter that has called the function whose frame is at next.     *)
Suspended(p, fs, a, at, next) ==
    LET calls == At(p, a).calls
    IN  /\ Sits(p, a) /\ At(p, a).op = "function_call"
        /\ calls # <<>> /\ next = at + Len(calls)
        /\ Waiting(fs, at, Front(calls))

(* A native function is called by an interpreter and calls another one.    *)
Between(fs, acts, pos, j) ==
    /\ 1 < j /\ j < Len(acts) /\ acts[j - 1].fn # 0 /\ acts[j + 1].fn # 0
    /\ acts[j] = Native /\ pos[j + 1] = pos[j] + 1 /\ Fresh(fs[pos[j]])

Places(fs, acts) == [DOMAIN acts -> 2..Len(fs)]

Ordered(acts, pos) ==
    /\ \A i, j \in DOMAIN acts : i < j => pos[i] < pos[j]
    /\ acts # <<>> => pos[1] = 2 /\ acts[1].fn # 0 /\ acts[Len(acts)].fn # 0

Stack(p, fs, acts, pos) ==
    /\ fs \in Seq(Frame(p)) /\ acts \in Seq(Activation)
    /\ fs # <<>> /\ fs[1] = GlobalFrame
    /\ pos \in Places(fs, acts) /\ Ordered(acts, pos)
    /\ \A j \in DOMAIN acts :
          /\ acts[j].fn # 0 => Runs(p, fs[pos[j]], acts[j])
          /\ acts[j].fn # 0 /\ j < Len(acts) => Suspended(p, fs, acts[j], pos[j], pos[j + 1])
          /\ acts[j].fn = 0 => Between(fs, acts, pos, j)

(* Above the frame of the last activation are those of the calls that it   *)
(* prepares.  While it fails, nothing is known but that they do not run.   *)
Prepares(p, fs, a, at) ==
    Sits(p, a) => Len(fs) = at + Len(At(p, a).calls) /\ Waiting(fs, at, At(p, a).calls)

Quiet(p, fs, a, at) == Sits(p, a) /\ \A i \in at + 1 .. Len(fs) : Fresh(fs[i])

Working(p, fs, acts) ==
    \E pos \in Places(fs, acts) :
        /\ Stack(p, fs, acts, pos)
        /\ IF acts = <<>> THEN fs = <<GlobalFrame>>
           ELSE Prepares(p, fs, acts[Len(acts)], pos[Len(acts)])

Failed(p, fs, acts) ==
    \E pos \in Places(fs, acts) :
        /\ Stack(p, fs, acts, pos) /\ acts # <<>>
        /\ Quiet(p, fs, acts[Len(acts)], pos[Len(acts)])

IInv ==
    /\ program \in Compiled /\ bypassed \in BOOLEAN
    /\ ~bypassed =>
          /\ exception \in Int /\ failing \in BOOLEAN
          /\ IF failing THEN Failed(program, frames, activations)
             ELSE Working(program, frames, activations)
          /\ ~Going => activations = <<>> \/ code[1].error \/ code[2].error

-----------------------------------------------------------------------------
(* Sequences.                                                              *)

(* The last position of a set of positions that has one.                   *)
LEMMA MaxIs ==
    ASSUME NEW S, S \subseteq Int, NEW m \in S, \A i \in S : i <= m
    PROVE  Max(S) = m
<1>1. \A x \in S : (\A y \in S : x >= y) => x = m
  <2> SUFFICES ASSUME NEW x \in S, \A y \in S : x >= y
               PROVE  x = m
    OBVIOUS
  <2>1. x >= m /\ x <= m /\ x \in Int /\ m \in Int
    OBVIOUS
  <2> QED BY <2>1
<1>2. \A y \in S : m >= y
  OBVIOUS
<1> QED BY <1>1, <1>2 DEF Max

(* Replacing an element of a sequence, or none.                            *)
LEMMA Replaced ==
    ASSUME NEW S, NEW s \in Seq(S), NEW t, NEW v, t \in DOMAIN s => v \in S
    PROVE  /\ [s EXCEPT ![t] = v] \in Seq(S)
           /\ Len([s EXCEPT ![t] = v]) = Len(s)
           /\ \A i \in DOMAIN s : [s EXCEPT ![t] = v][i] = IF i = t THEN v ELSE s[i]
<1> DEFINE r == [s EXCEPT ![t] = v]
<1>1. Len(s) \in Nat /\ DOMAIN s = 1 .. Len(s)
  OBVIOUS
<1>2. DOMAIN r = 1 .. Len(s)
      /\ \A i \in 1 .. Len(s) : r[i] = (IF i = t THEN v ELSE s[i]) /\ r[i] \in S
  BY <1>1
<1>3. r = [i \in 1 .. Len(s) |-> r[i]]
  BY <1>1
<1>4. r \in [1 .. Len(s) -> S]
  BY <1>2, <1>3
<1> HIDE DEF r
<1>5. r \in Seq(S) /\ Len(r) = Len(s)
  BY <1>1, <1>2, <1>4
<1> QED BY <1>1, <1>2, <1>5 DEF r

(* The same of an element that there is.                                   *)
LEMMA ReplacedAt ==
    ASSUME NEW S, NEW s \in Seq(S), NEW t \in 1 .. Len(s), NEW v \in S
    PROVE  /\ [s EXCEPT ![t] = v] \in Seq(S)
           /\ Len([s EXCEPT ![t] = v]) = Len(s)
           /\ [s EXCEPT ![t] = v][t] = v
           /\ \A i \in 1 .. Len(s) : i # t => [s EXCEPT ![t] = v][i] = s[i]
<1>1. DOMAIN s = 1 .. Len(s)
  OBVIOUS
<1> QED BY <1>1, Replaced

(* The first m elements of a sequence.                                     *)
LEMMA PrefixIs ==
    ASSUME NEW S, NEW s \in Seq(S), NEW m \in 0 .. Len(s)
    PROVE  /\ SubSeq(s, 1, m) \in Seq(S) /\ Len(SubSeq(s, 1, m)) = m
           /\ DOMAIN SubSeq(s, 1, m) = 1 .. m
           /\ \A i \in 1 .. m : SubSeq(s, 1, m)[i] = s[i]
  OBVIOUS

(* All but the last element of a sequence.                                 *)
LEMMA FrontIs ==
    ASSUME NEW S, NEW s \in Seq(S), s # <<>>
    PROVE  /\ Front(s) \in Seq(S) /\ Len(Front(s)) = Len(s) - 1
           /\ DOMAIN Front(s) = 1 .. Len(s) - 1
           /\ \A i \in 1 .. Len(s) - 1 : Front(s)[i] = s[i]
           /\ Len(s) \in Nat /\ Len(s) >= 1 /\ Last(s) = s[Len(s)] /\ Last(s) \in S
<1>1. Len(s) \in Nat /\ Len(s) >= 1 /\ Len(s) - 1 \in 0 .. Len(s)
  OBVIOUS
<1>2. s[Len(s)] \in S
  BY <1>1
<1> QED BY <1>1, <1>2, PrefixIs DEF Front, Last

(* The length of a sequence is given by its domain.                        *)
LEMMA SameLength ==
    ASSUME NEW S, NEW s \in Seq(S), NEW r \in Seq(S), DOMAIN r = DOMAIN s
    PROVE  Len(r) = Len(s)
  OBVIOUS

(* Sequences are equal if their elements are.                              *)
LEMMA SameSequence ==
    ASSUME NEW S, NEW s \in Seq(S), NEW T, NEW t \in Seq(T), Len(s) = Len(t),
           \A i \in 1 .. Len(s) : s[i] = t[i]
    PROVE  s = t
<1>1. /\ s = [i \in 1 .. Len(s) |-> s[i]]
      /\ t = [i \in 1 .. Len(t) |-> t[i]]
  OBVIOUS
<1> QED BY <1>1

-----------------------------------------------------------------------------
(* The code of a function and the handlers of its instructions.            *)

(* What is relied on in the code.                                          *)
LEMMA CodeIs ==
    ASSUME NEW p \in Compiled, NEW fn \in 1..2
    PROVE  /\ WellFormed(Code(p, fn)) /\ p.code[fn].tries \in Nat /\ p.code[fn].loops \in Nat
           /\ \A i \in DOMAIN Code(p, fn) :
                 Code(p, fn)[i].op = "finally" => Code(p, fn)[i].t \in 1..p.code[fn].tries
  BY CompiledAssumption DEF Code, Numbered

(* An instruction and its handlers.                                        *)
LEMMA InstructionIs ==
    ASSUME NEW c, WellFormed(c), NEW i \in DOMAIN c
    PROVE  /\ c \in Seq(Instructions) /\ i \in Nat /\ i + 1 \in Nat
           /\ c[i].op \in Operations /\ c[i].n \in Int /\ c[i].t \in Nat
           /\ c[i].to \in Nat /\ c[i].alt \in Nat
           /\ c[i].within \in Seq(Nat)
           /\ c[i].calls \in Seq({"lambda", "native", "apply", "method"})
           /\ \A k \in DOMAIN c[i].within : c[i].within[k] \in DOMAIN c
           /\ Handlers(c, i) \in Seq(Nat)
           /\ Len(Handlers(c, i)) = Len(c[i].within)
           /\ \A k \in 1 .. Len(c[i].within) : Handlers(c, i)[k] = c[c[i].within[k]].to
<1>1. c \in Seq(Instructions) /\ c[i] \in Instructions /\ i \in Nat
  BY DEF WellFormed
<1>2. /\ c[i].op \in Operations /\ c[i].n \in Int /\ c[i].t \in Nat
      /\ c[i].to \in Nat /\ c[i].alt \in Nat /\ c[i].within \in Seq(Nat)
      /\ c[i].calls \in Seq({"lambda", "native", "apply", "method"})
  BY <1>1 DEF Instructions
<1>3. \A k \in DOMAIN c[i].within : c[i].within[k] \in DOMAIN c
  BY DEF WellFormed, Structured
<1>4. \A k \in DOMAIN c : c[k].to \in Nat
  <2>1. \A k \in DOMAIN c : c[k] \in Instructions
    BY <1>1
  <2> QED BY <2>1 DEF Instructions
<1> DEFINE w == c[i].within
<1>5. w \in Seq(Nat) /\ DOMAIN w = 1 .. Len(w) /\ Len(w) \in Nat
  BY <1>2
<1> HIDE DEF w
<1>6. Handlers(c, i) = [k \in 1 .. Len(w) |-> c[w[k]].to]
  BY <1>5 DEF Handlers, w
<1>7. \A k \in 1 .. Len(w) : c[w[k]].to \in Nat
  BY <1>3, <1>4, <1>5 DEF w
<1>8. Handlers(c, i) \in Seq(Nat) /\ Len(Handlers(c, i)) = Len(w)
  BY <1>5, <1>6, <1>7
<1>9. \A k \in 1 .. Len(w) : Handlers(c, i)[k] = c[w[k]].to
  BY <1>6
<1> QED BY <1>1, <1>2, <1>3, <1>8, <1>9 DEF w

(* A try block is entered.                                                 *)
LEMMA HandlersAppend ==
    ASSUME NEW c, WellFormed(c), NEW i \in DOMAIN c, NEW j \in DOMAIN c, NEW s \in DOMAIN c,
           c[j].within = Append(c[i].within, s)
    PROVE  Handlers(c, j) = Append(Handlers(c, i), c[s].to)
<1> DEFINE w == c[i].within
           x == Append(Handlers(c, i), c[s].to)
<1>1. w \in Seq(Nat) /\ Len(w) \in Nat /\ s \in Nat
  <2>1. c[i].within \in Seq(Nat) /\ s \in Nat
    BY InstructionIs, Zenon
  <2> QED BY <2>1
<1>2. Handlers(c, i) \in Seq(Nat) /\ Len(Handlers(c, i)) = Len(w) /\ c[s].to \in Nat
  BY InstructionIs, Zenon
<1>3. /\ Handlers(c, j) \in Seq(Nat) /\ Len(Handlers(c, j)) = Len(Append(w, s))
      /\ \A k \in 1 .. Len(Append(w, s)) : Handlers(c, j)[k] = c[Append(w, s)[k]].to
  <2>1. c[j].within = Append(w, s)
    OBVIOUS
  <2> HIDE DEF w
  <2>2. /\ Handlers(c, j) \in Seq(Nat) /\ Len(Handlers(c, j)) = Len(c[j].within)
        /\ \A k \in 1 .. Len(c[j].within) : Handlers(c, j)[k] = c[c[j].within[k]].to
    BY InstructionIs, Zenon
  <2> QED BY <2>1, <2>2, Zenon
<1>4. \A k \in 1 .. Len(w) : Handlers(c, i)[k] = c[w[k]].to
  BY InstructionIs, Zenon
<1> HIDE DEF w
<1>5. /\ Len(Append(w, s)) = Len(w) + 1 /\ Append(w, s)[Len(w) + 1] = s
      /\ \A k \in 1 .. Len(w) : Append(w, s)[k] = w[k]
  BY <1>1
<1>6. /\ x \in Seq(Nat) /\ Len(x) = Len(w) + 1 /\ x[Len(w) + 1] = c[s].to
      /\ \A k \in 1 .. Len(w) : x[k] = Handlers(c, i)[k]
  BY <1>1, <1>2
<1> HIDE DEF x
<1>7. \A k \in 1 .. Len(w) + 1 : Handlers(c, j)[k] = x[k]
  <2> SUFFICES ASSUME NEW k \in 1 .. Len(w) + 1
               PROVE  Handlers(c, j)[k] = x[k]
    OBVIOUS
  <2>1. Handlers(c, j)[k] = c[Append(w, s)[k]].to
    BY <1>3, <1>5
  <2>2. CASE k = Len(w) + 1
    BY <2>1, <2>2, <1>5, <1>6
  <2>3. CASE k # Len(w) + 1
    <3>1. k \in 1 .. Len(w)
      BY <2>3, <1>1
    <3>2. Append(w, s)[k] = w[k] /\ x[k] = Handlers(c, i)[k]
      BY <3>1, <1>5, <1>6
    <3> QED BY <2>1, <3>1, <3>2, <1>4
  <2> QED BY <2>2, <2>3
<1>8. Len(Handlers(c, j)) = Len(x)
  BY <1>3, <1>5, <1>6
<1>9. Handlers(c, j) = x
  BY <1>3, <1>5, <1>6, <1>7, <1>8, SameSequence
<1> QED BY <1>9 DEF x

(* A try block is left.                                                    *)
LEMMA HandlersFront ==
    ASSUME NEW c, WellFormed(c), NEW i \in DOMAIN c, NEW j \in DOMAIN c,
           c[i].within # <<>>, c[j].within = Front(c[i].within)
    PROVE  Handlers(c, j) = Front(Handlers(c, i))
<1> DEFINE w == c[i].within
           h == Handlers(c, i)
<1>1. /\ w \in Seq(Nat) /\ w # <<>>
      /\ h \in Seq(Nat) /\ Len(h) = Len(w)
      /\ \A k \in 1 .. Len(w) : h[k] = c[w[k]].to
  BY InstructionIs
<1>2. /\ Handlers(c, j) \in Seq(Nat) /\ Len(Handlers(c, j)) = Len(Front(w))
      /\ \A k \in 1 .. Len(Front(w)) : Handlers(c, j)[k] = c[Front(w)[k]].to
  <2>1. c[j].within = Front(w)
    OBVIOUS
  <2>2. /\ Handlers(c, j) \in Seq(Nat) /\ Len(Handlers(c, j)) = Len(c[j].within)
        /\ \A k \in 1 .. Len(c[j].within) : Handlers(c, j)[k] = c[c[j].within[k]].to
    BY InstructionIs, Zenon
  <2> HIDE DEF w
  <2> QED BY <2>1, <2>2, Zenon
<1> HIDE DEF w, h
<1>3. h # <<>>
  BY <1>1
<1>4. /\ Len(Front(w)) = Len(w) - 1 /\ Len(w) \in Nat /\ Len(w) >= 1
      /\ \A k \in 1 .. Len(w) - 1 : Front(w)[k] = w[k]
  BY <1>1, FrontIs
<1>5. /\ Front(h) \in Seq(Nat) /\ Len(Front(h)) = Len(w) - 1
      /\ \A k \in 1 .. Len(w) - 1 : Front(h)[k] = h[k]
  BY <1>1, <1>3, FrontIs
<1>6. \A k \in 1 .. Len(w) - 1 : Handlers(c, j)[k] = Front(h)[k]
  <2> SUFFICES ASSUME NEW k \in 1 .. Len(w) - 1
               PROVE  Handlers(c, j)[k] = Front(h)[k]
    OBVIOUS
  <2>1. k \in 1 .. Len(w) /\ k \in 1 .. Len(Front(w))
    BY <1>4
  <2>2. Handlers(c, j)[k] = c[Front(w)[k]].to /\ Front(w)[k] = w[k]
    BY <1>2, <1>4, <2>1
  <2>3. Front(h)[k] = h[k] /\ h[k] = c[w[k]].to
    BY <1>1, <1>5, <2>1
  <2> QED BY <2>2, <2>3
<1> QED BY <1>2, <1>4, <1>5, <1>6, SameSequence DEF h

(* A catch block replaces the handler of its try block.                    *)
LEMMA HandlersReplaced ==
    ASSUME NEW c, WellFormed(c), NEW i \in DOMAIN c, NEW j \in DOMAIN c, NEW s \in DOMAIN c,
           c[i].within # <<>>, c[j].within = Append(Front(c[i].within), s)
    PROVE  Handlers(c, j) = [Handlers(c, i) EXCEPT ![Len(Handlers(c, i))] = c[s].to]
<1> DEFINE w == c[i].within
           h == Handlers(c, i)
           v == Append(Front(w), s)
           x == [h EXCEPT ![Len(h)] = c[s].to]
<1>1. w \in Seq(Nat) /\ w # <<>> /\ s \in Nat /\ c[s].to \in Nat
  BY InstructionIs, Zenon
<1>2. /\ h \in Seq(Nat) /\ Len(h) = Len(w)
      /\ \A k \in 1 .. Len(w) : h[k] = c[w[k]].to
  BY InstructionIs, Zenon
<1>3. /\ Handlers(c, j) \in Seq(Nat) /\ Len(Handlers(c, j)) = Len(v)
      /\ \A k \in 1 .. Len(v) : Handlers(c, j)[k] = c[v[k]].to
  <2>1. c[j].within = v
    OBVIOUS
  <2>2. /\ Handlers(c, j) \in Seq(Nat) /\ Len(Handlers(c, j)) = Len(c[j].within)
        /\ \A k \in 1 .. Len(c[j].within) : Handlers(c, j)[k] = c[c[j].within[k]].to
    BY InstructionIs, Zenon
  <2> HIDE DEF v
  <2> QED BY <2>1, <2>2, Zenon
<1> HIDE DEF w, h
<1>4. /\ Front(w) \in Seq(Nat) /\ Len(Front(w)) = Len(w) - 1 /\ Len(w) \in Nat /\ Len(w) >= 1
      /\ \A k \in 1 .. Len(w) - 1 : Front(w)[k] = w[k]
  BY <1>1, FrontIs
<1>5. /\ Len(v) = Len(w) /\ v[Len(w)] = s
      /\ \A k \in 1 .. Len(w) - 1 : v[k] = w[k]
  BY <1>1, <1>4
<1>6. /\ x \in Seq(Nat) /\ Len(x) = Len(w)
      /\ \A k \in 1 .. Len(w) : x[k] = IF k = Len(w) THEN c[s].to ELSE h[k]
  <2>1. DOMAIN h = 1 .. Len(w)
    BY <1>2
  <2> QED BY <1>1, <1>2, <2>1, Replaced
<1> HIDE DEF x, v
<1>7. \A k \in 1 .. Len(w) : Handlers(c, j)[k] = x[k]
  <2> SUFFICES ASSUME NEW k \in 1 .. Len(w)
               PROVE  Handlers(c, j)[k] = x[k]
    OBVIOUS
  <2>1. Handlers(c, j)[k] = c[v[k]].to
    BY <1>3, <1>5
  <2>2. k # Len(w) => k \in 1 .. Len(w) - 1
    BY <1>4
  <2>3. k # Len(w) => v[k] = w[k]
    BY <2>2, <1>5
  <2> QED BY <2>1, <2>3, <1>2, <1>5, <1>6
<1> QED BY <1>3, <1>5, <1>6, <1>7, SameSequence DEF x, h

(* The handler that an exception goes to is that of the innermost block.   *)
LEMMA HandlersLast ==
    ASSUME NEW c, WellFormed(c), NEW i \in DOMAIN c, Handlers(c, i) # <<>>
    PROVE  /\ c[i].within # <<>> /\ Last(c[i].within) \in DOMAIN c
           /\ Last(Handlers(c, i)) = c[Last(c[i].within)].to
           /\ Last(Handlers(c, i)) \in Nat
<1> DEFINE w == c[i].within
           h == Handlers(c, i)
<1>1. w \in Seq(Nat) /\ \A k \in DOMAIN w : w[k] \in DOMAIN c
  BY InstructionIs, Zenon
<1>2. /\ h \in Seq(Nat) /\ Len(h) = Len(w) /\ h # <<>>
      /\ \A k \in 1 .. Len(w) : h[k] = c[w[k]].to
  BY InstructionIs, Zenon
<1> HIDE DEF w, h
<1>3. Len(h) >= 1 /\ Len(h) \in Nat /\ Last(h) = h[Len(h)] /\ Last(h) \in Nat
  BY <1>2, FrontIs
<1>4. w # <<>> /\ Len(w) \in 1 .. Len(w) /\ DOMAIN w = 1 .. Len(w)
  BY <1>1, <1>2, <1>3
<1>5. Last(w) = w[Len(w)] /\ w[Len(w)] \in DOMAIN c
  BY <1>1, <1>4 DEF Last
<1>6. Last(h) = c[Last(w)].to
  BY <1>2, <1>3, <1>4, <1>5
<1> QED BY <1>3, <1>4, <1>5, <1>6 DEF w, h

(* The handlers of two instructions in the same blocks.                    *)
LEMMA HandlersSame ==
    ASSUME NEW c, NEW i, NEW j, c[i].within = c[j].within
    PROVE  Handlers(c, i) = Handlers(c, j)
  BY DEF Handlers

-----------------------------------------------------------------------------
(* The two stacks.                                                         *)

(* The frames of calls that are prepared have not been called.             *)
LEMMA PreparesIsQuiet ==
    ASSUME NEW p \in Compiled, NEW fs \in Seq(Frame(p)), NEW a, NEW at \in Nat,
           a.fn \in 1..2, Prepares(p, fs, a, at), Sits(p, a)
    PROVE  Quiet(p, fs, a, at)
<1> DEFINE calls == At(p, a).calls
<1>1. Len(fs) = at + Len(calls) /\ Waiting(fs, at, calls)
  BY DEF Prepares
<1>2. calls \in Seq({"lambda", "native", "apply", "method"})
  BY CodeIs, InstructionIs, Zenon DEF Sits, At
<1> HIDE DEF calls
<1>3. DOMAIN calls = 1 .. Len(calls) /\ Len(calls) \in Nat
  BY <1>2
<1> SUFFICES ASSUME NEW i \in at + 1 .. Len(fs)
             PROVE  Fresh(fs[i])
  BY DEF Quiet
<1>4. i - at \in DOMAIN calls /\ at + (i - at) = i
  BY <1>1, <1>3
<1> QED BY <1>1, <1>4, Zenon DEF Waiting, Prepared

(* What is known of the stacks, for every activation j.                    *)
LEMMA StackIs ==
    ASSUME NEW p, NEW fs, NEW acts, NEW pos, Stack(p, fs, acts, pos)
    PROVE  /\ fs \in Seq(Frame(p)) /\ acts \in Seq(Activation)
           /\ Len(fs) \in Nat /\ DOMAIN fs = 1 .. Len(fs) /\ Len(fs) >= 1 /\ fs[1] = GlobalFrame
           /\ Len(acts) \in Nat /\ DOMAIN acts = 1 .. Len(acts)
           /\ \A j \in 1 .. Len(acts) :
                 /\ acts[j] \in Activation /\ pos[j] \in 2 .. Len(fs) /\ pos[j] \in Nat
                 /\ \A i \in 1 .. Len(acts) : i < j => pos[i] < pos[j]
                 /\ acts[j].fn # 0 =>
                       /\ acts[j].fn \in 1..2
                       /\ Runs(p, fs[pos[j]], acts[j])
                       /\ j < Len(acts) => Suspended(p, fs, acts[j], pos[j], pos[j + 1])
                 /\ acts[j].fn = 0 => Between(fs, acts, pos, j)
           /\ acts # <<>> => /\ Len(acts) >= 1 /\ pos[1] = 2
                             /\ acts[1].fn # 0 /\ acts[Len(acts)].fn # 0
<1>1. /\ fs \in Seq(Frame(p)) /\ acts \in Seq(Activation) /\ fs # <<>> /\ fs[1] = GlobalFrame
      /\ pos \in [DOMAIN acts -> 2 .. Len(fs)]
  BY Zenon DEF Stack, Places
<1>2. /\ Len(fs) \in Nat /\ DOMAIN fs = 1 .. Len(fs) /\ Len(fs) >= 1
      /\ Len(acts) \in Nat /\ DOMAIN acts = 1 .. Len(acts)
      /\ acts # <<>> => Len(acts) >= 1
  BY <1>1
<1>3. acts # <<>> => pos[1] = 2 /\ acts[1].fn # 0 /\ acts[Len(acts)].fn # 0
  BY Zenon DEF Stack, Ordered
<1>4. ASSUME NEW j \in 1 .. Len(acts)
      PROVE  /\ acts[j] \in Activation /\ pos[j] \in 2 .. Len(fs) /\ pos[j] \in Nat
             /\ \A i \in 1 .. Len(acts) : i < j => pos[i] < pos[j]
             /\ acts[j].fn # 0 =>
                   /\ acts[j].fn \in 1..2
                   /\ Runs(p, fs[pos[j]], acts[j])
                   /\ j < Len(acts) => Suspended(p, fs, acts[j], pos[j], pos[j + 1])
             /\ acts[j].fn = 0 => Between(fs, acts, pos, j)
  <2>1. acts[j] \in Activation
    BY <1>1, <1>2
  <2>2. pos[j] \in 2 .. Len(fs)
    BY <1>1, <1>2
  <2>3. pos[j] \in Nat
    BY <1>2, <2>2
  <2>4. \A i \in 1 .. Len(acts) : i < j => pos[i] < pos[j]
    BY <1>2, Zenon DEF Stack, Ordered
  <2>5. acts[j].fn # 0 => acts[j].fn \in 1..2
    BY <2>1 DEF Activation
  <2>6. /\ acts[j].fn # 0 =>
              /\ Runs(p, fs[pos[j]], acts[j])
              /\ j < Len(acts) => Suspended(p, fs, acts[j], pos[j], pos[j + 1])
        /\ acts[j].fn = 0 => Between(fs, acts, pos, j)
    BY <1>2, Zenon DEF Stack
  <2> QED BY <2>1, <2>2, <2>3, <2>4, <2>5, <2>6, Zenon
<1> QED BY <1>1, <1>2, <1>3, <1>4, Zenon

(* vm->active_frame is the frame of the last activation.                   *)
LEMMA TopIs ==
    ASSUME NEW p \in Compiled, NEW fs, NEW acts, NEW pos, Stack(p, fs, acts, pos), acts # <<>>,
           \/ Quiet(p, fs, acts[Len(acts)], pos[Len(acts)])
           \/ /\ Prepares(p, fs, acts[Len(acts)], pos[Len(acts)])
              /\ Sits(p, acts[Len(acts)])
    PROVE  /\ fs \in Seq(Frame(p)) /\ acts \in Seq(Activation)
           /\ Len(acts) \in Nat /\ Len(acts) >= 1
           /\ acts[Len(acts)] \in Activation /\ acts[Len(acts)].fn \in 1..2
           /\ pos[Len(acts)] \in 2 .. Len(fs) /\ fs[pos[Len(acts)]] \in Frame(p)
           /\ Sits(p, acts[Len(acts)])
           /\ Runs(p, fs[pos[Len(acts)]], acts[Len(acts)])
           /\ \A i \in pos[Len(acts)] + 1 .. Len(fs) : Fresh(fs[i])
           /\ ActiveAt(fs) = pos[Len(acts)]
<1> DEFINE n == Len(acts)
           a == acts[n]
           at == pos[n]
<1>1. fs \in Seq(Frame(p)) /\ acts \in Seq(Activation)
  BY DEF Stack
<1>2. Len(acts) \in Nat /\ Len(acts) >= 1 /\ DOMAIN acts = 1 .. Len(acts) /\ Len(acts) \in DOMAIN acts
  <2>1. Len(acts) \in Nat /\ Len(acts) >= 1
    BY <1>1, FrontIs, Zenon
  <2> QED BY <1>1, <2>1
<1>3. a \in Activation
  BY <1>1, FrontIs, Zenon DEF Last
<1>4. a.fn # 0
  BY Zenon DEF Stack, Ordered
<1>5. a.fn \in 1..2
  BY <1>3, <1>4 DEF Activation
<1>6. at \in 2 .. Len(fs)
  BY <1>2, StackIs, Zenon
<1>7. Runs(p, fs[at], a)
  BY <1>2, <1>4 DEF Stack
<1>8. Quiet(p, fs, a, at) \/ (Prepares(p, fs, a, at) /\ Sits(p, a))
  OBVIOUS
<1> HIDE DEF n, a, at
<1>9. Len(fs) \in Nat /\ DOMAIN fs = 1 .. Len(fs) /\ at \in Nat /\ at \in DOMAIN fs
  BY <1>1, <1>6
<1>10. Sits(p, a) /\ \A i \in at + 1 .. Len(fs) : Fresh(fs[i])
  BY <1>1, <1>5, <1>8, <1>9, PreparesIsQuiet, Zenon DEF Quiet
<1>11. ActiveAt(fs) = at
  <2> DEFINE S == {i \in DOMAIN fs : fs[i].called}
  <2>1. S \subseteq Int /\ at \in S
    BY <1>7, <1>9 DEF Runs
  <2>2. \A i \in S : i <= at
    BY <1>9, <1>10 DEF Fresh
  <2> HIDE DEF S
  <2>3. Max(S) = at
    BY <2>1, <2>2, MaxIs
  <2> QED BY <2>3 DEF S, ActiveAt
<1>12. fs[at] \in Frame(p)
  BY <1>1, <1>9
<1> QED BY <1>1, <1>2, <1>3, <1>5, <1>6, <1>7, <1>10, <1>11, <1>12 DEF a, at, n

(* A call that waits is not disturbed by what is done above it.            *)
LEMMA StillSuspended ==
    ASSUME NEW p \in Compiled, NEW fs, NEW fs2, NEW a, NEW at \in Nat, NEW next \in Nat,
           a.fn \in 1..2, Suspended(p, fs, a, at, next),
           \A i \in at + 1 .. next - 1 : fs2[i] = fs[i]
    PROVE  Suspended(p, fs2, a, at, next)
<1> DEFINE calls == At(p, a).calls
<1>1. Sits(p, a) /\ calls # <<>> /\ next = at + Len(calls) /\ Waiting(fs, at, Front(calls))
      /\ At(p, a).op = "function_call"
  BY DEF Suspended
<1>2. calls \in Seq({"lambda", "native", "apply", "method"})
  BY <1>1, CodeIs, InstructionIs, Zenon DEF Sits, At
<1>3. DOMAIN Front(calls) = 1 .. Len(calls) - 1 /\ Len(calls) \in Nat
  BY <1>1, <1>2, FrontIs
<1>4. Waiting(fs2, at, Front(calls))
  <2> SUFFICES ASSUME NEW k \in DOMAIN Front(calls)
               PROVE  Prepared(fs2[at + k], Front(calls)[k])
    BY DEF Waiting
  <2>1. at + k \in at + 1 .. next - 1
    BY <1>1, <1>3
  <2>2. fs2[at + k] = fs[at + k]
    BY <2>1
  <2> QED BY <1>1, <2>2, Zenon DEF Waiting
<1> QED BY <1>1, <1>4 DEF Suspended

(* The frame of the last activation is at the position at.                 *)
Placed(p, fs, acts, at) ==
    \E q \in Places(fs, acts) : Stack(p, fs, acts, q) /\ q[Len(acts)] = at

(* A step of the interpreter that is at m, when the activations above it   *)
(* have ended: what is below its frame stays.                              *)
LEMMA StackBelow ==
    ASSUME NEW p \in Compiled, NEW fs, NEW acts, NEW pos, NEW m \in 1 .. Len(acts),
           NEW fs2 \in Seq(Frame(p)), NEW acts2 \in Seq(Activation),
           Stack(p, fs, acts, pos), acts[m].fn # 0, Len(acts2) = m,
           \A j \in 1 .. m - 1 : acts2[j] = acts[j], acts2[m].fn = acts[m].fn,
           Len(fs2) >= pos[m], \A i \in 1 .. pos[m] - 1 : fs2[i] = fs[i],
           Runs(p, fs2[pos[m]], acts2[m])
    PROVE  Placed(p, fs2, acts2, pos[m])
<1> DEFINE pos2 == [j \in 1 .. m |-> pos[j]]
<1>1. /\ Len(fs) \in Nat /\ fs[1] = GlobalFrame
      /\ Len(acts) \in Nat /\ DOMAIN acts = 1 .. Len(acts) /\ acts # <<>>
      /\ m \in Nat /\ m >= 1 /\ m <= Len(acts)
  <2>1. /\ Len(fs) \in Nat /\ fs[1] = GlobalFrame /\ acts \in Seq(Activation)
        /\ Len(acts) \in Nat /\ DOMAIN acts = 1 .. Len(acts)
    BY StackIs, Zenon
  <2> QED BY <2>1
<1>2. \A j \in 1 .. Len(acts) :
         /\ pos[j] \in 2 .. Len(fs) /\ pos[j] \in Nat
         /\ \A i \in 1 .. Len(acts) : i < j => pos[i] < pos[j]
  BY StackIs, Zenon
<1>3. pos[1] = 2 /\ acts[1].fn # 0
  BY <1>1, Zenon DEF Stack, Ordered
<1>4. DOMAIN acts2 = 1 .. m /\ Len(fs2) \in Nat /\ DOMAIN fs2 = 1 .. Len(fs2)
  OBVIOUS
<1>5. \A j \in 1 .. m : pos2[j] = pos[j] /\ pos[j] <= pos[m] /\ pos[j] \in 2 .. Len(fs2)
  BY <1>1, <1>2, <1>4
<1>6. \A j \in 1 .. m - 1 : pos[j] < pos[m] /\ j \in 1 .. m /\ j + 1 \in 1 .. m /\ j \in 1 .. Len(acts)
  BY <1>1, <1>2
<1>7. pos2 \in Places(fs2, acts2)
  BY <1>4, <1>5 DEF Places
<1> HIDE DEF pos2
<1>8. Ordered(acts2, pos2)
  <2>1. \A i, j \in DOMAIN acts2 : i < j => pos2[i] < pos2[j]
    <3> SUFFICES ASSUME NEW i \in 1 .. m, NEW j \in 1 .. m, i < j
                 PROVE  pos2[i] < pos2[j]
      BY <1>4
    <3>1. i \in 1 .. Len(acts) /\ j \in 1 .. Len(acts)
      BY <1>1
    <3> QED BY <3>1, <1>2, <1>5
  <2>2. pos2[1] = 2
    BY <1>1, <1>3, <1>5
  <2>3. acts2[1].fn # 0
    <3>1. CASE m = 1
      BY <3>1
    <3>2. CASE m # 1
      <4>1. 1 \in 1 .. m - 1
        BY <3>2, <1>1
      <4>2. acts2[1] = acts[1]
        BY <4>1
      <4> QED BY <4>2, <1>3
    <3> QED BY <3>1, <3>2
  <2> QED BY <2>1, <2>2, <2>3 DEF Ordered
<1>9. fs2 # <<>> /\ fs2[1] = GlobalFrame
  <2>1. pos[m] \in Nat /\ pos[m] >= 2
    BY <1>1, <1>2
  <2>2. 1 \in 1 .. pos[m] - 1 /\ Len(fs2) >= 1
    BY <2>1, <1>4
  <2>3. fs2[1] = fs[1]
    BY <2>2
  <2> QED BY <2>2, <2>3, <1>1
<1>10. ASSUME NEW j \in 1 .. m
       PROVE  /\ acts2[j].fn # 0 => Runs(p, fs2[pos2[j]], acts2[j])
              /\ acts2[j].fn # 0 /\ j < m => Suspended(p, fs2, acts2[j], pos2[j], pos2[j + 1])
              /\ acts2[j].fn = 0 => Between(fs2, acts2, pos2, j)
  <2>1. CASE j = m
    BY <2>1, <1>1, <1>5
  <2>2. CASE j # m
    <3>1. j \in 1 .. m - 1 /\ acts2[j] = acts[j] /\ j < Len(acts)
      BY <2>2, <1>1
    <3>2. pos2[j] = pos[j] /\ pos2[j + 1] = pos[j + 1] /\ pos[j] \in Nat /\ pos[j + 1] \in Nat
          /\ pos[j] >= 2 /\ pos[j + 1] <= pos[m] /\ pos[j] < pos[m]
      BY <3>1, <1>2, <1>5, <1>6
    <3>3. fs2[pos[j]] = fs[pos[j]]
      <4>1. pos[m] \in Nat
        BY <1>1, <1>2
      <4>2. pos[j] \in 1 .. pos[m] - 1
        BY <3>2, <4>1
      <4> QED BY <4>2
    <3>4. CASE acts[j].fn # 0
      <4>1. /\ acts[j].fn \in 1..2 /\ Runs(p, fs[pos[j]], acts[j])
            /\ Suspended(p, fs, acts[j], pos[j], pos[j + 1])
        BY <3>1, <3>4, <1>6, StackIs, Zenon
      <4>2. \A i \in pos[j] + 1 .. pos[j + 1] - 1 : fs2[i] = fs[i]
        <5> SUFFICES ASSUME NEW i \in pos[j] + 1 .. pos[j + 1] - 1
                     PROVE  i \in 1 .. pos[m] - 1
          OBVIOUS
        <5>1. pos[m] \in Nat
          BY <1>2, <1>1
        <5> QED BY <3>2, <5>1
      <4>3. Suspended(p, fs2, acts[j], pos[j], pos[j + 1])
        BY <3>2, <4>1, <4>2, StillSuspended
      <4> QED BY <3>1, <3>2, <3>3, <3>4, <4>1, <4>3, Zenon
    <3>5. CASE acts[j].fn = 0
      <4>1. Between(fs, acts, pos, j)
        BY <3>1, <3>5, <1>6, StackIs, Zenon
      <4>2. 1 < j /\ acts[j - 1].fn # 0 /\ acts[j + 1].fn # 0
            /\ acts[j] = Native /\ pos[j + 1] = pos[j] + 1 /\ Fresh(fs[pos[j]])
        BY <4>1 DEF Between
      <4>3. j - 1 \in 1 .. m - 1 /\ acts2[j - 1] = acts[j - 1]
        BY <3>1, <4>2, <1>1
      <4>4. acts2[j + 1].fn # 0
        <5>1. CASE j + 1 = m
          BY <5>1
        <5>2. CASE j + 1 # m
          <6>1. j + 1 \in 1 .. m - 1
            BY <5>2, <3>1, <1>1
          <6>2. acts2[j + 1] = acts[j + 1]
            BY <6>1
          <6> QED BY <6>2, <4>2
        <5> QED BY <5>1, <5>2
      <4>5. j < Len(acts2) /\ acts2[j] = Native /\ pos2[j + 1] = pos2[j] + 1
            /\ Fresh(fs2[pos2[j]]) /\ acts2[j - 1].fn # 0
        BY <3>1, <3>2, <3>3, <4>2, <4>3, <1>1
      <4> QED BY <3>1, <3>5, <4>2, <4>4, <4>5 DEF Between
    <3> QED BY <3>4, <3>5
  <2> QED BY <2>1, <2>2
<1>11. Stack(p, fs2, acts2, pos2)
  BY <1>4, <1>7, <1>8, <1>9, <1>10, Zenon DEF Stack
<1>12. pos2[m] = pos[m]
  BY <1>1, <1>5
<1> QED BY <1>7, <1>11, <1>12, Zenon DEF Placed

(* A call: the activation of the function, at m, is above that of the      *)
(* caller, which is suspended, or above that of a native function that the *)
(* caller has called.                                                      *)
LEMMA StackAbove ==
    ASSUME NEW p \in Compiled, NEW fs, NEW acts, NEW pos,
           NEW m \in {Len(acts) + 1, Len(acts) + 2},
           NEW fs2 \in Seq(Frame(p)), NEW acts2 \in Seq(Activation),
           Stack(p, fs, acts, pos), acts # <<>>, Len(acts2) = m,
           \A j \in 1 .. Len(acts) : acts2[j] = acts[j], acts2[m].fn # 0,
           Len(fs2) = Len(fs) + m - Len(acts) - 1, pos[Len(acts)] < Len(fs),
           \A i \in 1 .. Len(fs) - 1 : fs2[i] = fs[i],
           Suspended(p, fs, acts[Len(acts)], pos[Len(acts)], Len(fs)),
           Runs(p, fs2[Len(fs2)], acts2[m]),
           m = Len(acts) + 2 => acts2[Len(acts) + 1] = Native /\ Fresh(fs2[Len(fs)])
    PROVE  Placed(p, fs2, acts2, Len(fs2))
<1> DEFINE n == Len(acts)
           pos2 == [j \in 1 .. m |-> IF j <= n THEN pos[j] ELSE Len(fs) + j - n - 1]
<1>1. /\ Len(fs) \in Nat /\ fs[1] = GlobalFrame /\ Len(fs) >= 1
      /\ n \in Nat /\ DOMAIN acts = 1 .. n /\ n >= 1
      /\ m \in Nat /\ m > n /\ m <= n + 2
  <2>1. /\ Len(fs) \in Nat /\ fs[1] = GlobalFrame /\ acts \in Seq(Activation) /\ Len(fs) >= 1
        /\ Len(acts) \in Nat /\ DOMAIN acts = 1 .. Len(acts) /\ Len(acts) >= 1
    BY StackIs, Zenon
  <2> QED BY <2>1
<1>2. \A j \in 1 .. n :
         /\ pos[j] \in 2 .. Len(fs) /\ pos[j] \in Nat
         /\ \A i \in 1 .. n : i < j => pos[i] < pos[j]
  BY StackIs, Zenon
<1>3. pos[1] = 2 /\ acts[1].fn # 0 /\ acts[n].fn # 0
  BY <1>1, Zenon DEF Stack, Ordered
<1>4. DOMAIN acts2 = 1 .. m /\ Len(fs2) \in Nat /\ DOMAIN fs2 = 1 .. Len(fs2)
      /\ Len(fs2) >= Len(fs)
  BY <1>1
<1> HIDE DEF n
<1>5. pos[n] < Len(fs) /\ Len(fs2) = Len(fs) + m - n - 1
  BY DEF n
<1>6. /\ \A j \in 1 .. n : pos2[j] = pos[j] /\ pos[j] <= pos[n]
      /\ pos2[n + 1] = Len(fs) /\ pos2[m] = Len(fs2)
      /\ \A j \in 1 .. m : j > n => pos2[j] = Len(fs) + j - n - 1
  <2>1. \A j \in 1 .. m : pos2[j] = IF j <= n THEN pos[j] ELSE Len(fs) + j - n - 1
    OBVIOUS
  <2> HIDE DEF pos2
  <2>2. \A j \in 1 .. n : pos[j] <= pos[n]
    <3> SUFFICES ASSUME NEW j \in 1 .. n
                 PROVE  pos[j] <= pos[n]
      OBVIOUS
    <3>1. n \in 1 .. n /\ (j < n \/ j = n) /\ pos[j] \in Nat /\ pos[n] \in Nat
      BY <1>1, <1>2
    <3> QED BY <3>1, <1>2
  <2>3. \A j \in 1 .. n : j \in 1 .. m /\ j <= n
    BY <1>1
  <2>4. n + 1 \in 1 .. m /\ m \in 1 .. m /\ ~ (n + 1 <= n) /\ ~ (m <= n)
        /\ Len(fs) + (n + 1) - n - 1 = Len(fs)
    BY <1>1
  <2>5. pos2[n + 1] = Len(fs) /\ pos2[m] = Len(fs2)
    BY <2>1, <2>4, <1>5
  <2>6. \A j \in 1 .. m : j > n => ~ (j <= n)
    BY <1>1
  <2> QED BY <2>1, <2>2, <2>3, <2>5, <2>6
<1>7. pos2 = [j \in 1 .. m |-> pos2[j]]
  OBVIOUS
<1> HIDE DEF pos2
<1>8. pos2 \in Places(fs2, acts2)
  <2> SUFFICES ASSUME NEW j \in 1 .. m
               PROVE  pos2[j] \in 2 .. Len(fs2)
    BY <1>4, <1>7 DEF Places
  <2>1. CASE j <= n
    <3>1. j \in 1 .. n /\ pos2[j] = pos[j] /\ pos[j] \in 2 .. Len(fs)
      BY <2>1, <1>1, <1>2, <1>6
    <3> QED BY <3>1, <1>1, <1>4
  <2>2. CASE j > n
    <3>1. pos[n] >= 2 /\ pos[n] \in Nat
      BY <1>1, <1>2
    <3>2. pos2[j] = Len(fs) + j - n - 1
      BY <2>2, <1>6
    <3>3. j >= n + 1 /\ j <= m /\ j \in Nat
      BY <2>2, <1>1
    <3>4. pos2[j] >= Len(fs) /\ pos2[j] <= Len(fs2) /\ pos2[j] \in Int
      <4> HIDE DEF n
      <4>1. pos2[j] = Len(fs) + (j - n - 1) /\ Len(fs2) = Len(fs) + (m - n - 1)
        BY <3>2, <3>3, <1>1, <1>5
      <4>2. j - n - 1 >= 0 /\ j - n - 1 <= m - n - 1 /\ j - n - 1 \in Int /\ m - n - 1 \in Int
        BY <3>3, <1>1
      <4> QED BY <4>1, <4>2, <1>1
    <3>5. Len(fs) >= 2
      BY <3>1, <1>1, <1>5
    <3> QED BY <3>4, <3>5, <1>1, <1>4
  <2> QED BY <2>1, <2>2, <1>1
<1>9. \A i, j \in 1 .. m : i < j => pos2[i] < pos2[j]
  <2>1. pos[n] \in Nat
    <3>1. n \in 1 .. n
      BY <1>1
    <3> QED BY <3>1, <1>2, Zenon
  <2> SUFFICES ASSUME NEW i \in 1 .. m, NEW j \in 1 .. m, i < j
               PROVE  pos2[i] < pos2[j]
    OBVIOUS
  <2>2. CASE j <= n
    BY <1>1, <1>2, <1>6, <2>2
  <2>3. CASE j > n /\ i <= n
    <3>1. i \in 1 .. n /\ j \in Nat /\ j >= n + 1
      BY <1>1, <2>3
    <3>2. pos2[i] = pos[i] /\ pos[i] <= pos[n] /\ pos[i] \in Nat
      BY <3>1, <1>2, <1>6
    <3>3. pos2[j] = Len(fs) + j - n - 1
      BY <1>6, <2>3
    <3>4. pos2[j] >= Len(fs) /\ pos2[j] \in Int
      BY <3>1, <3>3, <1>1
    <3>5. pos2[i] \in Nat /\ pos2[i] <= pos[n] /\ pos[n] < Len(fs) /\ Len(fs) \in Nat
      BY <3>2, <1>1, <1>5
    <3> QED BY <3>4, <3>5, <2>1
  <2>4. CASE j > n /\ i > n
    <3>1. pos2[j] = Len(fs) + j - n - 1 /\ pos2[i] = Len(fs) + i - n - 1
      BY <1>6, <2>4
    <3>2. i \in Nat /\ j \in Nat
      BY <1>1
    <3> QED BY <3>1, <3>2, <1>1
  <2> QED BY <2>2, <2>3, <2>4, <1>1
<1>10. Ordered(acts2, pos2)
  <2>1. acts2[1] = acts[1] /\ pos2[1] = 2
    BY <1>1, <1>3, <1>6 DEF n
  <2> QED BY <1>3, <1>4, <1>9, <2>1 DEF Ordered
<1>11. fs2 # <<>> /\ fs2[1] = GlobalFrame
  <2>1. pos[n] \in Nat /\ pos[n] >= 2
    BY <1>1, <1>2
  <2>2. 1 \in 1 .. Len(fs) - 1 /\ Len(fs2) >= 1
    BY <2>1, <1>1, <1>4, <1>5
  <2>3. fs2[1] = fs[1]
    BY <2>2
  <2> QED BY <2>2, <2>3, <1>1
<1>12. ASSUME NEW j \in 1 .. m
       PROVE  /\ acts2[j].fn # 0 => Runs(p, fs2[pos2[j]], acts2[j])
              /\ acts2[j].fn # 0 /\ j < m => Suspended(p, fs2, acts2[j], pos2[j], pos2[j + 1])
              /\ acts2[j].fn = 0 => Between(fs2, acts2, pos2, j)
  <2>1. CASE j = m
    BY <2>1, <1>1, <1>6
  <2>2. CASE j \in 1 .. n
    <3>1. /\ acts2[j] = acts[j] /\ pos2[j] = pos[j] /\ pos[j] \in Nat /\ pos[j] >= 2
          /\ pos[j] < Len(fs) /\ j < m /\ j + 1 \in 1 .. m /\ pos[n] \in Nat
      <4>1. acts2[j] = acts[j] /\ pos2[j] = pos[j] /\ pos[j] \in 2 .. Len(fs)
            /\ pos[j] <= pos[n] /\ n \in 1 .. n
        BY <1>1, <1>2, <1>6, <2>2 DEF n
      <4>2. pos[n] \in Nat /\ pos[j] \in Nat
        BY <4>1, <1>2, <2>2
      <4>3. j \in Nat /\ j >= 1 /\ j <= n
        BY <2>2, <1>1
      <4>4. j < m /\ j + 1 \in 1 .. m
        BY <4>3, <1>1
      <4>5. pos[j] >= 2 /\ pos[j] < Len(fs)
        BY <4>1, <4>2, <1>1, <1>5
      <4> QED BY <4>1, <4>2, <4>4, <4>5
    <3>2. fs2[pos[j]] = fs[pos[j]]
      <4>1. pos[j] \in 1 .. Len(fs) - 1
        BY <3>1, <1>1
      <4> QED BY <4>1
    <3>3. CASE acts[j].fn # 0
      <4>1. acts[j].fn \in 1..2 /\ Runs(p, fs[pos[j]], acts[j])
        BY <2>2, <3>3, StackIs, Zenon DEF n
      <4>2. Suspended(p, fs, acts[j], pos[j], pos2[j + 1])
            /\ pos2[j + 1] \in Nat /\ pos2[j + 1] <= Len(fs)
        <5>1. CASE j = n
          BY <5>1, <1>1, <1>6 DEF n
        <5>2. CASE j # n
          <6>1. j < n /\ j + 1 \in 1 .. n
            BY <5>2, <2>2, <1>1
          <6>2. Suspended(p, fs, acts[j], pos[j], pos[j + 1])
            BY <6>1, <2>2, <3>3, StackIs, Zenon DEF n
          <6>3. pos2[j + 1] = pos[j + 1] /\ pos[j + 1] \in 2 .. Len(fs)
            BY <6>1, <1>2, <1>6
          <6> QED BY <6>2, <6>3, <1>1
        <5> QED BY <5>1, <5>2
      <4>3. \A i \in pos[j] + 1 .. pos2[j + 1] - 1 : fs2[i] = fs[i]
        <5> DEFINE next == pos2[j + 1]
        <5>1. next \in Nat /\ next <= Len(fs)
          BY <4>2
        <5>2. pos[j] \in Nat /\ Len(fs) \in Nat
          BY <3>1, <1>1
        <5> HIDE DEF next
        <5>3. \A i \in pos[j] + 1 .. next - 1 : i \in 1 .. Len(fs) - 1
          BY <5>1, <5>2
        <5>4. \A i \in pos[j] + 1 .. next - 1 : fs2[i] = fs[i]
          BY <5>3
        <5> QED BY <5>4 DEF next
      <4>4. Suspended(p, fs2, acts[j], pos[j], pos2[j + 1])
        <5> HIDE DEF pos2
        <5>1. pos2[j + 1] \in Nat /\ pos[j] \in Nat /\ acts[j].fn \in 1..2
          BY <3>1, <4>1, <4>2
        <5>2. Suspended(p, fs, acts[j], pos[j], pos2[j + 1])
          BY <4>2
        <5> QED BY <4>3, <5>1, <5>2, StillSuspended, Zenon
      <4> QED BY <3>1, <3>2, <3>3, <4>1, <4>4, Zenon
    <3>4. CASE acts[j].fn = 0
      <4>1. Between(fs, acts, pos, j)
        BY <2>2, <3>4, StackIs, Zenon DEF n
      <4>2. 1 < j /\ j < n /\ acts[j - 1].fn # 0 /\ acts[j + 1].fn # 0
            /\ acts[j] = Native /\ pos[j + 1] = pos[j] + 1 /\ Fresh(fs[pos[j]])
        BY <4>1 DEF Between, n
      <4>3. j - 1 \in 1 .. n /\ j + 1 \in 1 .. n
        BY <2>2, <4>2, <1>1
      <4>4. acts2[j - 1] = acts[j - 1] /\ acts2[j + 1] = acts[j + 1] /\ pos2[j + 1] = pos[j + 1]
        BY <4>3, <1>6 DEF n
      <4> QED BY <3>1, <3>2, <3>4, <4>2, <4>4 DEF Between
    <3> QED BY <3>3, <3>4
  <2>3. CASE j = n + 1 /\ m = n + 2
    <3>1. acts2[j] = Native /\ Fresh(fs2[Len(fs)]) /\ acts2[n] = acts[n]
      BY <2>3, <1>1 DEF n
    <3>2. pos2[j] = Len(fs) /\ pos2[j + 1] = Len(fs) + 1
      BY <2>3, <1>1, <1>5, <1>6
    <3>3. 1 < j /\ j < Len(acts2) /\ acts2[j - 1].fn # 0 /\ acts2[j + 1].fn # 0
      <4>1. j - 1 = n /\ j + 1 = m /\ 1 < j /\ j < m
        BY <2>3, <1>1
      <4> QED BY <4>1, <3>1, <1>3
    <3>4. Between(fs2, acts2, pos2, j)
      BY <3>1, <3>2, <3>3 DEF Between
    <3> QED BY <3>1, <3>4 DEF Native
  <2> QED BY <2>1, <2>2, <2>3, <1>1
<1>13. Stack(p, fs2, acts2, pos2)
  BY <1>4, <1>8, <1>10, <1>11, <1>12, Zenon DEF Stack
<1> QED BY <1>6, <1>8, <1>13, Zenon DEF Placed

(* The interpreter at m goes on at another instruction of its function,    *)
(* in the try blocks and with the calls of that instruction.               *)
LEMMA Resumes ==
    ASSUME NEW p \in Compiled, NEW fs, NEW acts, NEW pos, NEW m \in 1 .. Len(acts),
           NEW fs2 \in Seq(Frame(p)), NEW acts2 \in Seq(Activation), NEW to \in Nat,
           Stack(p, fs, acts, pos), acts[m].fn # 0, Len(acts2) = m,
           \A j \in 1 .. m - 1 : acts2[j] = acts[j], acts2[m] = [acts[m] EXCEPT !.at = to],
           Len(fs2) >= pos[m], \A i \in 1 .. pos[m] - 1 : fs2[i] = fs[i],
           fs2[pos[m]].fn = acts[m].fn, fs2[pos[m]].called, ~ fs2[pos[m]].skip,
           to \in DOMAIN Code(p, acts[m].fn) =>
              /\ fs2[pos[m]].catch = Handlers(Code(p, acts[m].fn), to)
              /\ Len(fs2) = pos[m] + Len(Code(p, acts[m].fn)[to].calls)
              /\ Waiting(fs2, pos[m], Code(p, acts[m].fn)[to].calls)
    PROVE  Working(p, fs2, acts2)
<1>1. acts[m] \in Activation
  BY StackIs, Zenon
<1>2. acts2[m].fn = acts[m].fn /\ acts2[m].at = to
  BY <1>1 DEF Activation
<1>3. Sits(p, acts2[m]) <=> to \in DOMAIN Code(p, acts[m].fn)
  BY <1>2 DEF Sits
<1>4. Runs(p, fs2[pos[m]], acts2[m])
  BY <1>2, <1>3, Zenon DEF Runs
<1>5. PICK pos2 \in Places(fs2, acts2) :
         Stack(p, fs2, acts2, pos2) /\ pos2[m] = pos[m]
  <2>1. Placed(p, fs2, acts2, pos[m])
    BY <1>2, <1>4, StackBelow, Zenon
  <2> QED BY <2>1 DEF Placed
<1>6. Prepares(p, fs2, acts2[m], pos2[m])
  <2>1. At(p, acts2[m]) = Code(p, acts[m].fn)[to]
    BY <1>2 DEF At
  <2> QED BY <1>3, <1>5, <2>1, Zenon DEF Prepares
<1>7. acts2 # <<>>
  OBVIOUS
<1> QED BY <1>5, <1>6, <1>7 DEF Working

(* The interpreter at m fails, or has already, where it is.                *)
LEMMA FailsWhereItIs ==
    ASSUME NEW p \in Compiled, NEW fs, NEW acts, NEW pos, NEW m \in 1 .. Len(acts),
           NEW fs2 \in Seq(Frame(p)), NEW acts2 \in Seq(Activation),
           Stack(p, fs, acts, pos), acts[m].fn # 0, Sits(p, acts[m]), Len(acts2) = m,
           \A j \in 1 .. m : acts2[j] = acts[j],
           Len(fs2) >= pos[m], \A i \in 1 .. pos[m] : fs2[i] = fs[i],
           \A i \in pos[m] + 1 .. Len(fs2) : Fresh(fs2[i])
    PROVE  Failed(p, fs2, acts2)
<1>1. pos[m] \in Nat /\ pos[m] >= 2 /\ Runs(p, fs[pos[m]], acts[m]) /\ m \in Nat /\ m >= 1
  <2>1. pos[m] \in 2 .. Len(fs) /\ Runs(p, fs[pos[m]], acts[m]) /\ Len(acts) \in Nat
        /\ Len(fs) \in Nat
    BY StackIs, Zenon
  <2> QED BY <2>1
<1>2. acts2[m] = acts[m] /\ fs2[pos[m]] = fs[pos[m]]
  BY <1>1
<1>3. \A j \in 1 .. m - 1 : acts2[j] = acts[j]
  BY <1>1
<1>4. \A i \in 1 .. pos[m] - 1 : fs2[i] = fs[i]
  BY <1>1
<1>5. Runs(p, fs2[pos[m]], acts2[m])
  BY <1>1, <1>2, Zenon
<1>6. PICK pos2 \in Places(fs2, acts2) :
         Stack(p, fs2, acts2, pos2) /\ pos2[m] = pos[m]
  <2>1. Placed(p, fs2, acts2, pos[m])
    BY <1>2, <1>3, <1>4, <1>5, StackBelow, Zenon
  <2> QED BY <2>1 DEF Placed
<1>7. Quiet(p, fs2, acts2[m], pos2[m])
  BY <1>2, <1>6, Zenon DEF Quiet
<1>8. acts2 # <<>>
  BY <1>1
<1> QED BY <1>6, <1>7, <1>8 DEF Failed

-----------------------------------------------------------------------------
(* The steps.                                                              *)

(* A sequence of one value, as long as is wanted.                          *)
LEMMA Filled ==
    ASSUME NEW S, NEW v \in S, NEW n \in Nat
    PROVE  [i \in 1 .. n |-> v] \in Seq(S)
  OBVIOUS

(* njs_function_lambda_frame() and njs_function_native_frame().            *)
LEMMA FramesAre ==
    ASSUME program \in Compiled
    PROVE  /\ \A fn \in 1..2, called \in BOOLEAN :
                 /\ NewFrame(fn, called) \in Frame(program) /\ NewFrame(fn, called).fn = fn
                 /\ NewFrame(fn, called).called = called /\ ~ NewFrame(fn, called).skip
                 /\ NewFrame(fn, called).catch = <<>>
           /\ \A fn \in {0, Callback, Apply} :
                 /\ NativeFrame(fn) \in Frame(program) /\ NativeFrame(fn).fn = fn
                 /\ ~ NativeFrame(fn).called /\ ~ NativeFrame(fn).skip
                 /\ NativeFrame(fn).catch = <<>>
           /\ GlobalFrame \in Frame(program) /\ GlobalFrame.called /\ ~ GlobalFrame.skip
           /\ GlobalFrame.catch = <<>>
<1>1. ASSUME NEW fn \in 1..2, NEW called \in BOOLEAN
      PROVE  /\ NewFrame(fn, called) \in Frame(program) /\ NewFrame(fn, called).fn = fn
             /\ NewFrame(fn, called).called = called /\ ~ NewFrame(fn, called).skip
             /\ NewFrame(fn, called).catch = <<>>
  <2>1. code[fn].tries \in Nat /\ code[fn].loops \in Nat
    BY CodeIs DEF code
  <2> DEFINE e == [t \in 1..code[fn].tries |-> 0]
             x == [t \in 1..code[fn].tries |-> Invalid(0)]
             l == [t \in 1..code[fn].loops |-> 0]
  <2>2. Invalid(0) \in [valid : BOOLEAN, v : Int]
    BY DEF Invalid
  <2>3. e \in Seq(Int) /\ x \in Seq([valid : BOOLEAN, v : Int]) /\ l \in Seq(Int)
    <3>1. 0 \in Int
      OBVIOUS
    <3>2. e \in Seq(Int)
      BY <2>1, <3>1, Filled, Zenon
    <3>3. x \in Seq([valid : BOOLEAN, v : Int])
      BY <2>1, <2>2, Filled, Zenon
    <3>4. l \in Seq(Int)
      BY <2>1, <3>1, Filled, Zenon
    <3> QED BY <3>2, <3>3, <3>4
  <2>6. Len(e) = program.code[fn].tries
    BY <2>1 DEF code
  <2> HIDE DEF e, x, l
  <2>4. NewFrame(fn, called) =
           [fn |-> fn, called |-> called, skip |-> FALSE, catch |-> <<>>,
            exception_value |-> e, exit_value |-> x, loop |-> l]
    BY DEF NewFrame, e, x, l
  <2>5. fn \in Nat /\ <<>> \in Seq(Nat)
    OBVIOUS
  <2> QED BY <2>3, <2>4, <2>5, <2>6 DEF Frame
<1>2. ASSUME NEW fn \in {0, Callback, Apply}
      PROVE  /\ NativeFrame(fn) \in Frame(program) /\ NativeFrame(fn).fn = fn
             /\ ~ NativeFrame(fn).called /\ ~ NativeFrame(fn).skip
             /\ NativeFrame(fn).catch = <<>>
  BY DEF NativeFrame, Frame, Callback, Apply
<1>3. /\ GlobalFrame \in Frame(program) /\ GlobalFrame.called /\ ~ GlobalFrame.skip
      /\ GlobalFrame.catch = <<>>
  <2>1. NativeFrame(0) \in Frame(program) /\ NativeFrame(0).catch = <<>> /\ ~ NativeFrame(0).skip
    BY <1>2
  <2> DEFINE f == NativeFrame(0)
  <2> HIDE DEF f
  <2>2. f \in Frame(program) /\ f.catch = <<>> /\ ~f.skip
    BY <2>1 DEF f
  <2>3. /\ [f EXCEPT !.called = TRUE] \in Frame(program) /\ [f EXCEPT !.called = TRUE].called
        /\ [f EXCEPT !.called = TRUE].catch = <<>> /\ ~ [f EXCEPT !.called = TRUE].skip
    BY <2>2 DEF Frame
  <2> QED BY <2>3 DEF GlobalFrame, f
<1> QED BY <1>1, <1>2, <1>3

(* What is known when an instruction is executed: pos is the position of   *)
(* each activation's frame.                                                *)
Executing(pos) ==
    /\ program \in Compiled /\ Interpreting /\ Valid
    /\ Stack(program, frames, activations, pos)
    /\ Prepares(program, frames, activations[Len(activations)], pos[Len(activations)])

(* The instruction and the frame that it works on.                         *)
LEMMA ExecutingIs ==
    ASSUME NEW pos, Executing(pos)
    PROVE  /\ program \in Compiled /\ Stack(program, frames, activations, pos)
           /\ activations # <<>> /\ ~failing
           /\ frames \in Seq(Frame(program)) /\ activations \in Seq(Activation)
           /\ Len(activations) \in Nat /\ Len(activations) >= 1
           /\ Len(activations) \in 1 .. Len(activations)
           /\ Pc = activations[Len(activations)] /\ Pc \in Activation
           /\ Pc.fn \in 1..2 /\ Pc.fn # 0 /\ Pc.at \in Nat
           /\ code[Pc.fn].code = Code(program, Pc.fn)
           /\ WellFormed(Code(program, Pc.fn)) /\ Sits(program, Pc)
           /\ Pc.at \in DOMAIN Code(program, Pc.fn)
           /\ Structured(Code(program, Pc.fn), Pc.at)
           /\ Instruction = Code(program, Pc.fn)[Pc.at] /\ Instruction = At(program, Pc)
           /\ ActiveAt(frames) = pos[Len(activations)] /\ ActiveAt(frames) \in 2 .. Len(frames)
           /\ ActiveAt(frames) \in Nat /\ Len(frames) \in Nat
           /\ Active \in Frame(program) /\ Active = frames[ActiveAt(frames)]
           /\ Active.fn = Pc.fn /\ Active.called /\ ~Active.skip
           /\ Active.catch = Handlers(Code(program, Pc.fn), Pc.at)
           /\ Len(frames) = ActiveAt(frames) + Len(Instruction.calls)
           /\ Waiting(frames, ActiveAt(frames), Instruction.calls)
<1> DEFINE n == Len(activations)
<1>1. /\ program \in Compiled /\ activations # <<>> /\ ~failing /\ Valid
      /\ Stack(program, frames, activations, pos)
      /\ Prepares(program, frames, activations[n], pos[n])
  BY Zenon DEF Executing, Interpreting
<1>2. Pc = activations[n]
  BY DEF Pc, Last
<1>3. code[Pc.fn].code = Code(program, Pc.fn)
  BY DEF code, Code
<1>4. Sits(program, Pc)
  BY <1>1, <1>3 DEF Valid, Sits
<1>5. /\ frames \in Seq(Frame(program)) /\ activations \in Seq(Activation)
      /\ n \in Nat /\ n >= 1 /\ Pc \in Activation /\ Pc.fn \in 1..2
      /\ pos[n] \in 2 .. Len(frames) /\ frames[pos[n]] \in Frame(program)
      /\ Runs(program, frames[pos[n]], Pc) /\ ActiveAt(frames) = pos[n]
  BY <1>1, <1>2, <1>4, TopIs, Zenon
<1>6. WellFormed(Code(program, Pc.fn))
  BY <1>1, <1>5, CodeIs
<1>7. Structured(Code(program, Pc.fn), Pc.at) /\ Pc.at \in DOMAIN Code(program, Pc.fn)
  BY <1>4, <1>6 DEF WellFormed, Sits
<1>8. Instruction = Code(program, Pc.fn)[Pc.at] /\ Instruction = At(program, Pc)
  BY <1>3 DEF Instruction, At
<1>9. Active = frames[ActiveAt(frames)]
  BY DEF Active
<1>10. /\ Active.fn = Pc.fn /\ Active.called /\ ~Active.skip
       /\ Active.catch = Handlers(Code(program, Pc.fn), Pc.at)
  BY <1>4, <1>5, <1>9, Zenon DEF Runs
<1>11. /\ Len(frames) = ActiveAt(frames) + Len(Instruction.calls)
       /\ Waiting(frames, ActiveAt(frames), Instruction.calls)
  BY <1>1, <1>2, <1>4, <1>5, <1>8, Zenon DEF Prepares
<1>12. Pc.fn # 0 /\ Pc.at \in Nat /\ n \in 1 .. n /\ ActiveAt(frames) \in 2 .. Len(frames)
       /\ ActiveAt(frames) \in Nat /\ Len(frames) \in Nat
  BY <1>5 DEF Activation
<1> QED BY <1>1, <1>2, <1>3, <1>4, <1>5, <1>6, <1>7, <1>8, <1>9, <1>10, <1>11, <1>12, Zenon

(* The interpreter goes on at another instruction of its function.         *)
LEMMA GoesOn ==
    ASSUME NEW pos, NEW to \in Nat, NEW fs2 \in Seq(Frame(program)), Executing(pos),
           Len(fs2) >= ActiveAt(frames),
           \A i \in 1 .. ActiveAt(frames) - 1 : fs2[i] = frames[i],
           fs2[ActiveAt(frames)].fn = Pc.fn, fs2[ActiveAt(frames)].called,
           ~ fs2[ActiveAt(frames)].skip,
           to \in DOMAIN Code(program, Pc.fn) =>
              /\ fs2[ActiveAt(frames)].catch = Handlers(Code(program, Pc.fn), to)
              /\ Len(fs2) = ActiveAt(frames) + Len(Code(program, Pc.fn)[to].calls)
              /\ Waiting(fs2, ActiveAt(frames), Code(program, Pc.fn)[to].calls)
    PROVE  Working(program, fs2, [activations EXCEPT ![Len(activations)].at = to])
<1> DEFINE m == Len(activations)
           acts2 == [activations EXCEPT ![m].at = to]
<1>1. /\ program \in Compiled /\ Stack(program, frames, activations, pos)
      /\ activations \in Seq(Activation) /\ m \in Nat /\ m \in 1 .. m
      /\ activations[m] = Pc /\ activations[m].fn # 0 /\ Pc \in Activation
      /\ pos[m] = ActiveAt(frames)
  BY ExecutingIs, Zenon
<1>2. acts2 = [activations EXCEPT ![m] = [activations[m] EXCEPT !.at = to]]
  OBVIOUS
<1>3. [activations[m] EXCEPT !.at = to] \in Activation
  BY <1>1 DEF Activation
<1>4. /\ acts2 \in Seq(Activation) /\ Len(acts2) = m
      /\ acts2[m] = [activations[m] EXCEPT !.at = to]
      /\ \A i \in 1 .. m : i # m => acts2[i] = activations[i]
  <2> DEFINE v == [activations[m] EXCEPT !.at = to]
  <2>1. v \in Activation /\ acts2 = [activations EXCEPT ![m] = v]
    BY <1>2, <1>3
  <2> HIDE DEF v, acts2
  <2> QED BY <1>1, <2>1, ReplacedAt DEF v
<1> HIDE DEF acts2
<1>5. \A j \in 1 .. m - 1 : acts2[j] = activations[j]
  BY <1>1, <1>4
<1>6. Working(program, fs2, acts2)
  <2>1. /\ Len(fs2) >= pos[m] /\ \A i \in 1 .. pos[m] - 1 : fs2[i] = frames[i]
        /\ fs2[pos[m]].fn = activations[m].fn /\ fs2[pos[m]].called /\ ~ fs2[pos[m]].skip
    BY <1>1
  <2>2. to \in DOMAIN Code(program, activations[m].fn) =>
           /\ fs2[pos[m]].catch = Handlers(Code(program, activations[m].fn), to)
           /\ Len(fs2) = pos[m] + Len(Code(program, activations[m].fn)[to].calls)
           /\ Waiting(fs2, pos[m], Code(program, activations[m].fn)[to].calls)
    BY <1>1
  <2> QED BY <1>1, <1>4, <1>5, <2>1, <2>2, Resumes, Zenon
<1> QED BY <1>6 DEF acts2

(* It changes nothing but its frame.                                       *)
LEMMA LocalStep ==
    ASSUME NEW pos, NEW to \in Nat, NEW f \in Frame(program), Executing(pos),
           f.fn = Pc.fn, f.called, ~f.skip,
           to \in DOMAIN Code(program, Pc.fn) =>
              /\ f.catch = Handlers(Code(program, Pc.fn), to)
              /\ Code(program, Pc.fn)[to].calls = Instruction.calls
    PROVE  Working(program, [frames EXCEPT ![ActiveAt(frames)] = f],
                   [activations EXCEPT ![Len(activations)].at = to])
<1> DEFINE at == ActiveAt(frames)
           fs2 == [frames EXCEPT ![at] = f]
<1>1. /\ frames \in Seq(Frame(program)) /\ at \in Nat /\ at \in 2 .. Len(frames) /\ Len(frames) \in Nat
      /\ Len(frames) = at + Len(Instruction.calls) /\ Waiting(frames, at, Instruction.calls)
      /\ Instruction = Code(program, Pc.fn)[Pc.at] /\ Pc.at \in DOMAIN Code(program, Pc.fn)
      /\ WellFormed(Code(program, Pc.fn))
  BY ExecutingIs, Zenon
<1> HIDE DEF at
<1>2. /\ fs2 \in Seq(Frame(program)) /\ Len(fs2) = Len(frames)
      /\ fs2[at] = f /\ \A i \in 1 .. Len(frames) : i # at => fs2[i] = frames[i]
  <2>1. at \in 1 .. Len(frames)
    BY <1>1
  <2> QED BY <1>1, <2>1, ReplacedAt
<1> HIDE DEF fs2
<1>3. Instruction.calls \in Seq({"lambda", "native", "apply", "method"})
  BY <1>1, InstructionIs, Zenon
<1>4. Waiting(fs2, at, Instruction.calls)
  <2> SUFFICES ASSUME NEW k \in DOMAIN Instruction.calls
               PROVE  Prepared(fs2[at + k], Instruction.calls[k])
    BY DEF Waiting
  <2>1. at + k \in 1 .. Len(frames) /\ at + k # at
    BY <1>1, <1>3
  <2>2. fs2[at + k] = frames[at + k]
    BY <2>1, <1>2
  <2> QED BY <2>2, <1>1, Zenon DEF Waiting
<1>5. Len(fs2) >= at /\ \A i \in 1 .. at - 1 : fs2[i] = frames[i]
  BY <1>1, <1>2
<1>6. to \in DOMAIN Code(program, Pc.fn) =>
         /\ fs2[at].catch = Handlers(Code(program, Pc.fn), to)
         /\ Len(fs2) = at + Len(Code(program, Pc.fn)[to].calls)
         /\ Waiting(fs2, at, Code(program, Pc.fn)[to].calls)
  BY <1>1, <1>2, <1>4, Zenon
<1>7. Working(program, fs2, [activations EXCEPT ![Len(activations)].at = to])
  BY <1>2, <1>5, <1>6, GoesOn, Zenon DEF at
<1> QED BY <1>7 DEF fs2, at

(* It does not even change that, when the try blocks are the same.         *)
LEMMA JumpStep ==
    ASSUME NEW pos, NEW to \in Nat, Executing(pos),
           Leads(Code(program, Pc.fn), to, Instruction.within, Instruction.calls)
    PROVE  Working(program, frames, [activations EXCEPT ![Len(activations)].at = to])
<1> DEFINE c == Code(program, Pc.fn)
<1>1. /\ Active \in Frame(program) /\ Active.fn = Pc.fn /\ Active.called /\ ~Active.skip
      /\ Active.catch = Handlers(c, Pc.at) /\ Instruction = c[Pc.at]
      /\ Active = frames[ActiveAt(frames)] /\ frames \in Seq(Frame(program))
      /\ ActiveAt(frames) \in 2 .. Len(frames)
  BY ExecutingIs, Zenon
<1>2. to \in DOMAIN c => Active.catch = Handlers(c, to) /\ c[to].calls = Instruction.calls
  <2> SUFFICES ASSUME to \in DOMAIN c
               PROVE  Active.catch = Handlers(c, to) /\ c[to].calls = Instruction.calls
    OBVIOUS
  <2>1. c[to].within = c[Pc.at].within /\ c[to].calls = Instruction.calls
    BY <1>1, Zenon DEF Leads
  <2>2. Handlers(c, Pc.at) = Handlers(c, to)
    BY <2>1, HandlersSame, Zenon
  <2> QED BY <1>1, <2>1, <2>2, Zenon
<1>3. Working(program, [frames EXCEPT ![ActiveAt(frames)] = Active],
              [activations EXCEPT ![Len(activations)].at = to])
  BY <1>1, <1>2, LocalStep, Zenon
<1>4. [frames EXCEPT ![ActiveAt(frames)] = Active] = frames
  BY <1>1
<1> QED BY <1>3, <1>4

(* A frame is prepared for a call.                                         *)
LEMMA FrameStep ==
    ASSUME NEW pos, NEW f \in Frame(program), NEW call \in {"lambda", "native", "apply", "method"},
           Executing(pos), Prepared(f, call),
           Leads(Code(program, Pc.fn), Pc.at + 1, Instruction.within,
                 Append(Instruction.calls, call))
    PROVE  Working(program, Append(frames, f),
                   [activations EXCEPT ![Len(activations)].at = Pc.at + 1])
<1> DEFINE c == Code(program, Pc.fn)
           at == ActiveAt(frames)
           calls == Instruction.calls
           fs2 == Append(frames, f)
           to == Pc.at + 1
<1>1. /\ frames \in Seq(Frame(program)) /\ at \in Nat /\ at \in 2 .. Len(frames) /\ Len(frames) \in Nat
      /\ Active.fn = Pc.fn /\ Active.called /\ ~Active.skip /\ Active = frames[at]
      /\ Active.catch = Handlers(c, Pc.at) /\ Instruction = c[Pc.at]
      /\ Len(frames) = at + Len(calls) /\ Waiting(frames, at, calls)
      /\ Pc.at \in DOMAIN c /\ WellFormed(c) /\ Pc.at \in Nat
  BY ExecutingIs, Zenon
<1>2. calls \in Seq({"lambda", "native", "apply", "method"}) /\ to \in Nat
  <2>1. c[Pc.at].calls \in Seq({"lambda", "native", "apply", "method"}) /\ to \in Nat
    BY <1>1, InstructionIs, Zenon
  <2> QED BY <1>1, <2>1
<1> HIDE DEF at, calls
<1>3. /\ fs2 \in Seq(Frame(program)) /\ Len(fs2) = Len(frames) + 1 /\ fs2[Len(frames) + 1] = f
      /\ \A i \in 1 .. Len(frames) : fs2[i] = frames[i]
  BY <1>1
<1> HIDE DEF fs2
<1>4. /\ Len(fs2) >= at /\ \A i \in 1 .. at - 1 : fs2[i] = frames[i]
      /\ fs2[at] = Active
  BY <1>1, <1>3
<1>5. Len(Append(calls, call)) = Len(calls) + 1 /\ DOMAIN Append(calls, call) = 1 .. Len(calls) + 1
      /\ Append(calls, call)[Len(calls) + 1] = call
      /\ \A k \in 1 .. Len(calls) : Append(calls, call)[k] = calls[k]
      /\ Len(calls) \in Nat /\ DOMAIN calls = 1 .. Len(calls)
  BY <1>2
<1>6. Waiting(fs2, at, Append(calls, call))
  <2> SUFFICES ASSUME NEW k \in 1 .. Len(calls) + 1
               PROVE  Prepared(fs2[at + k], Append(calls, call)[k])
    BY <1>5 DEF Waiting
  <2>1. CASE k = Len(calls) + 1
    <3>1. at + k = Len(frames) + 1
      BY <2>1, <1>1, <1>5
    <3> QED BY <3>1, <2>1, <1>3, <1>5
  <2>2. CASE k # Len(calls) + 1
    <3>1. k \in 1 .. Len(calls) /\ at + k \in 1 .. Len(frames)
      BY <2>2, <1>1, <1>5
    <3>2. Prepared(frames[at + k], calls[k])
      BY <3>1, <1>1, <1>5, Zenon DEF Waiting
    <3> QED BY <3>1, <3>2, <1>3, <1>5
  <2> QED BY <2>1, <2>2
<1>7. to \in DOMAIN c =>
         /\ fs2[at].catch = Handlers(c, to)
         /\ Len(fs2) = at + Len(c[to].calls)
         /\ Waiting(fs2, at, c[to].calls)
  <2> SUFFICES ASSUME to \in DOMAIN c
               PROVE  /\ fs2[at].catch = Handlers(c, to)
                      /\ Len(fs2) = at + Len(c[to].calls)
                      /\ Waiting(fs2, at, c[to].calls)
    OBVIOUS
  <2>1. c[to].within = c[Pc.at].within /\ c[to].calls = Append(calls, call)
    BY <1>1, Zenon DEF Leads, calls
  <2>2. Handlers(c, Pc.at) = Handlers(c, to)
    BY <2>1, HandlersSame, Zenon
  <2>3. Len(fs2) = at + Len(Append(calls, call))
    BY <1>1, <1>3, <1>5
  <2> QED BY <2>1, <2>2, <2>3, <1>1, <1>4, <1>6
<1>8. fs2[at].fn = Pc.fn /\ fs2[at].called /\ ~ fs2[at].skip
  BY <1>1, <1>4
<1>9. Working(program, fs2, [activations EXCEPT ![Len(activations)].at = to])
  BY <1>2, <1>3, <1>4, <1>7, <1>8, GoesOn, Zenon DEF at
<1> QED BY <1>9 DEF fs2

(* An interpreter starts at the first instruction, in no try block and     *)
(* with no call.                                                           *)
LEMMA StartsFunction ==
    ASSUME NEW p \in Compiled, NEW fn \in 1..2, NEW fs, NEW at \in Nat, Len(fs) = at,
           fs[at].fn = fn, fs[at].called, ~ fs[at].skip, fs[at].catch = <<>>
    PROVE  /\ Runs(p, fs[at], [fn |-> fn, at |-> 1])
           /\ Prepares(p, fs, [fn |-> fn, at |-> 1], at)
<1> DEFINE a == [fn |-> fn, at |-> 1]
           c == Code(p, fn)
<1>1. WellFormed(c) /\ a.fn = fn /\ a.at = 1
  BY CodeIs
<1>2. 1 \in DOMAIN c => c[1].within = <<>> /\ c[1].calls = <<>>
  BY <1>1 DEF WellFormed, Leads
<1>3. 1 \in DOMAIN c => Handlers(c, 1) = <<>>
  <2> SUFFICES ASSUME 1 \in DOMAIN c
               PROVE  Handlers(c, 1) = <<>>
    OBVIOUS
  <2>1. Handlers(c, 1) \in Seq(Nat) /\ Len(Handlers(c, 1)) = Len(c[1].within)
    BY <1>1, InstructionIs, Zenon
  <2> QED BY <2>1, <1>2
<1> HIDE DEF a, c
<1>4. (Sits(p, a) <=> 1 \in DOMAIN c) /\ At(p, a) = c[1]
  BY <1>1, Zenon DEF Sits, At, c
<1>5. Runs(p, fs[at], a)
  BY <1>1, <1>3, <1>4 DEF Runs, c
<1>6. Prepares(p, fs, a, at)
  <2>1. Len(<<>>) = 0 /\ at + 0 = at /\ Waiting(fs, at, <<>>)
    BY DEF Waiting
  <2> QED BY <1>2, <1>4, <2>1 DEF Prepares
<1> QED BY <1>5, <1>6 DEF a

(* What is known when a function is called.                                *)
LEMMA CallingIs ==
    ASSUME NEW pos, Executing(pos), Instruction.op = "function_call"
    PROVE  /\ Suspended(program, frames, Pc, ActiveAt(frames), Len(frames))
           /\ ActiveAt(frames) < Len(frames)
           /\ Top \in Frame(program) /\ Top = frames[Len(frames)] /\ Fresh(Top) /\ ~Top.skip
<1> DEFINE at == ActiveAt(frames)
           calls == Instruction.calls
<1>1. /\ frames \in Seq(Frame(program)) /\ at \in Nat /\ at \in 2 .. Len(frames) /\ Len(frames) \in Nat
      /\ Len(frames) = at + Len(calls) /\ Waiting(frames, at, calls)
      /\ Pc.at \in DOMAIN Code(program, Pc.fn) /\ WellFormed(Code(program, Pc.fn))
      /\ Structured(Code(program, Pc.fn), Pc.at) /\ Sits(program, Pc)
      /\ Instruction = Code(program, Pc.fn)[Pc.at] /\ Instruction = At(program, Pc)
  BY ExecutingIs, Zenon
<1>2. calls # <<>>
  BY <1>1 DEF Structured
<1>3. calls \in Seq({"lambda", "native", "apply", "method"})
  BY <1>1, InstructionIs, Zenon
<1> HIDE DEF at, calls
<1>4. /\ DOMAIN Front(calls) = 1 .. Len(calls) - 1 /\ Len(calls) \in Nat /\ Len(calls) >= 1
      /\ \A k \in 1 .. Len(calls) - 1 : Front(calls)[k] = calls[k]
      /\ DOMAIN calls = 1 .. Len(calls)
  BY <1>2, <1>3, FrontIs
<1>5. Waiting(frames, at, Front(calls))
  BY <1>1, <1>4 DEF Waiting
<1>6. Suspended(program, frames, Pc, at, Len(frames))
  BY <1>1, <1>2, <1>5 DEF Suspended, calls
<1>7. Prepared(frames[Len(frames)], calls[Len(calls)])
  <2>1. Len(calls) \in DOMAIN calls /\ at + Len(calls) = Len(frames)
    BY <1>1, <1>4
  <2> QED BY <1>1, <2>1 DEF Waiting
<1>8. frames[Len(frames)] \in Frame(program)
  BY <1>1
<1> QED BY <1>1, <1>4, <1>6, <1>7, <1>8 DEF Top, Prepared, at

(* A call of a lambda, whose frame is the one that was prepared.           *)
LEMMA LambdaCallStep ==
    ASSUME NEW pos, Executing(pos), Instruction.op = "function_call", Top.fn = 2
    PROVE  Working(program, [frames EXCEPT ![Len(frames)].called = TRUE],
                   Append(activations, [fn |-> 2, at |-> 1]))
<1> DEFINE n == Len(activations)
           m == n + 1
           l == Len(frames)
           f == [Top EXCEPT !.called = TRUE]
           a == [fn |-> 2, at |-> 1]
           fs2 == [frames EXCEPT ![l] = f]
           acts2 == Append(activations, a)
<1>1. /\ program \in Compiled /\ Stack(program, frames, activations, pos)
      /\ frames \in Seq(Frame(program)) /\ activations \in Seq(Activation) /\ activations # <<>>
      /\ n \in Nat /\ n >= 1 /\ l \in Nat /\ Pc = activations[n]
      /\ ActiveAt(frames) = pos[n] /\ ActiveAt(frames) \in Nat /\ ActiveAt(frames) \in 2 .. l
  BY ExecutingIs, Zenon
<1>2. /\ Suspended(program, frames, Pc, ActiveAt(frames), l) /\ ActiveAt(frames) < l
      /\ Top \in Frame(program) /\ Top = frames[l] /\ Fresh(Top) /\ ~Top.skip
  BY CallingIs, Zenon
<1>3. f \in Frame(program) /\ f.fn = 2 /\ f.called /\ ~f.skip /\ f.catch = <<>>
  BY <1>2 DEF Frame, Fresh
<1>4. [frames EXCEPT ![l].called = TRUE] = fs2
  BY <1>2
<1>5. a \in Activation /\ a.fn = 2
  BY DEF Activation
<1>6. /\ acts2 \in Seq(Activation) /\ Len(acts2) = m /\ acts2[m] = a
      /\ \A j \in 1 .. n : acts2[j] = activations[j]
  BY <1>1, <1>5
<1> HIDE DEF f
<1>7. /\ fs2 \in Seq(Frame(program)) /\ Len(fs2) = l /\ fs2[l] = f
      /\ \A i \in 1 .. l - 1 : fs2[i] = frames[i]
  <2>1. l \in 1 .. l
    BY <1>1
  <2>2. /\ fs2 \in Seq(Frame(program)) /\ Len(fs2) = l /\ fs2[l] = f
        /\ \A i \in 1 .. l : i # l => fs2[i] = frames[i]
    BY <1>1, <1>3, <2>1, ReplacedAt
  <2> HIDE DEF fs2
  <2>3. \A i \in 1 .. l - 1 : i \in 1 .. l /\ i # l
    BY <1>1
  <2> QED BY <2>2, <2>3
<1> HIDE DEF fs2, acts2, a
<1>8. /\ Runs(program, fs2[l], a) /\ Prepares(program, fs2, a, l)
  <2>1. fs2[l].fn = 2 /\ fs2[l].called /\ ~ fs2[l].skip /\ fs2[l].catch = <<>> /\ Len(fs2) = l
    BY <1>3, <1>7
  <2> QED BY <1>1, <2>1, StartsFunction DEF a
<1>9. Placed(program, fs2, acts2, Len(fs2))
  <2>1. m \in {Len(activations) + 1, Len(activations) + 2} /\ m # Len(activations) + 2
    BY <1>1
  <2>2. Len(fs2) = Len(frames) + m - Len(activations) - 1
    BY <1>1, <1>7
  <2>3. Suspended(program, frames, activations[n], pos[n], Len(frames)) /\ pos[n] < Len(frames)
    BY <1>1, <1>2
  <2>4. Runs(program, fs2[Len(fs2)], acts2[m]) /\ acts2[m].fn # 0
    BY <1>5, <1>6, <1>7, <1>8
  <2> HIDE DEF m
  <2> QED BY <1>1, <1>6, <1>7, <2>1, <2>2, <2>3, <2>4, StackAbove, Zenon
<1>10. Working(program, fs2, acts2)
  <2>1. PICK q \in Places(fs2, acts2) : Stack(program, fs2, acts2, q) /\ q[Len(acts2)] = Len(fs2)
    BY <1>9 DEF Placed
  <2>2. acts2 # <<>> /\ Prepares(program, fs2, acts2[Len(acts2)], q[Len(acts2)])
    BY <1>1, <1>6, <1>7, <1>8, <2>1
  <2> QED BY <2>1, <2>2 DEF Working
<1> QED BY <1>4, <1>10 DEF fs2, acts2, a

(* A call of a native function, which calls the second function.           *)
LEMMA NativeCallStep ==
    ASSUME NEW pos, Executing(pos), Instruction.op = "function_call"
    PROVE  Working(program,
                   Append([frames EXCEPT ![Len(frames)].skip = (Top.fn = Apply)],
                          NewFrame(2, TRUE)),
                   activations \o <<Native, [fn |-> 2, at |-> 1]>>)
<1> DEFINE n == Len(activations)
           m == n + 2
           l == Len(frames)
           f == [Top EXCEPT !.skip = (Top.fn = Apply)]
           g == NewFrame(2, TRUE)
           a == [fn |-> 2, at |-> 1]
           fs1 == [frames EXCEPT ![l] = f]
           fs2 == Append(fs1, g)
           acts2 == activations \o <<Native, a>>
<1>1. /\ program \in Compiled /\ Stack(program, frames, activations, pos)
      /\ frames \in Seq(Frame(program)) /\ activations \in Seq(Activation) /\ activations # <<>>
      /\ n \in Nat /\ n >= 1 /\ l \in Nat /\ Pc = activations[n]
      /\ ActiveAt(frames) = pos[n] /\ ActiveAt(frames) \in Nat /\ ActiveAt(frames) \in 2 .. l
  BY ExecutingIs, Zenon
<1>2. /\ Suspended(program, frames, Pc, ActiveAt(frames), l) /\ ActiveAt(frames) < l
      /\ Top \in Frame(program) /\ Top = frames[l] /\ Fresh(Top) /\ ~Top.skip
  BY CallingIs, Zenon
<1>3. f \in Frame(program) /\ Fresh(f)
  BY <1>2 DEF Frame, Fresh
<1>4. [frames EXCEPT ![l].skip = (Top.fn = Apply)] = fs1
  BY <1>2
<1>5. a \in Activation /\ a.fn = 2 /\ Native \in Activation
  BY DEF Activation, Native
<1>6. g \in Frame(program) /\ g.fn = 2 /\ g.called /\ ~g.skip /\ g.catch = <<>>
  <2>1. 2 \in 1..2 /\ TRUE \in BOOLEAN
    OBVIOUS
  <2>2. g \in Frame(program) /\ g.fn = 2 /\ g.called = TRUE /\ ~g.skip /\ g.catch = <<>>
    BY <1>1, <2>1, FramesAre, Zenon
  <2> QED BY <2>2
<1> HIDE DEF f, g, a
<1>7. /\ acts2 \in Seq(Activation) /\ Len(acts2) = m /\ acts2[m] = a /\ acts2[n + 1] = Native
      /\ \A j \in 1 .. n : acts2[j] = activations[j]
  BY <1>1, <1>5
<1>8. /\ fs1 \in Seq(Frame(program)) /\ Len(fs1) = l /\ fs1[l] = f
      /\ \A i \in 1 .. l - 1 : fs1[i] = frames[i]
  <2>1. l \in 1 .. l
    BY <1>1
  <2>2. /\ fs1 \in Seq(Frame(program)) /\ Len(fs1) = l /\ fs1[l] = f
        /\ \A i \in 1 .. l : i # l => fs1[i] = frames[i]
    BY <1>1, <1>3, <2>1, ReplacedAt
  <2> HIDE DEF fs1
  <2>3. \A i \in 1 .. l - 1 : i \in 1 .. l /\ i # l
    BY <1>1
  <2> QED BY <2>2, <2>3
<1> HIDE DEF fs1
<1>9. /\ fs2 \in Seq(Frame(program)) /\ Len(fs2) = l + 1 /\ fs2[l + 1] = g /\ fs2[l] = f
      /\ \A i \in 1 .. l - 1 : fs2[i] = frames[i]
  BY <1>1, <1>6, <1>8
<1> HIDE DEF fs2, acts2
<1>10. /\ Runs(program, fs2[l + 1], a) /\ Prepares(program, fs2, a, l + 1)
  <2>1. fs2[l + 1].fn = 2 /\ fs2[l + 1].called /\ ~ fs2[l + 1].skip
        /\ fs2[l + 1].catch = <<>> /\ Len(fs2) = l + 1 /\ l + 1 \in Nat
    BY <1>1, <1>6, <1>9
  <2> QED BY <1>1, <2>1, StartsFunction DEF a
<1>11. Placed(program, fs2, acts2, Len(fs2))
  <2>1. m \in {Len(activations) + 1, Len(activations) + 2}
        /\ acts2[Len(activations) + 1] = Native /\ Fresh(fs2[Len(frames)])
    BY <1>1, <1>3, <1>7, <1>9
  <2>2. Len(fs2) = Len(frames) + m - Len(activations) - 1
    BY <1>1, <1>9
  <2>3. Suspended(program, frames, activations[n], pos[n], Len(frames)) /\ pos[n] < Len(frames)
    BY <1>1, <1>2
  <2>4. Runs(program, fs2[Len(fs2)], acts2[m]) /\ acts2[m].fn # 0
    BY <1>5, <1>7, <1>9, <1>10
  <2> HIDE DEF m
  <2> QED BY <1>1, <1>7, <1>9, <2>1, <2>2, <2>3, <2>4, StackAbove, Zenon
<1>12. Working(program, fs2, acts2)
  <2>1. PICK q \in Places(fs2, acts2) : Stack(program, fs2, acts2, q) /\ q[Len(acts2)] = Len(fs2)
    BY <1>11 DEF Placed
  <2>2. acts2 # <<>> /\ Prepares(program, fs2, acts2[Len(acts2)], q[Len(acts2)])
    BY <1>1, <1>7, <1>9, <1>10, <2>1
  <2> QED BY <2>1, <2>2 DEF Working
<1> QED BY <1>4, <1>12 DEF fs2, acts2, a, g

(* The activations that are left when the interpreter returns, and a       *)
(* native function that called it.                                         *)
CalledBack(acts) == Front(acts) # <<>> /\ Last(Front(acts)) = Native
Rest(acts)       == IF CalledBack(acts) THEN Front(Front(acts)) ELSE Front(acts)

(* They are all but the last one or two, and end with an interpreter.      *)
Returned(fs, acts, pos) ==
    /\ Rest(acts) \in Seq(Activation) /\ Len(Rest(acts)) \in Nat
    /\ \A j \in 1 .. Len(Rest(acts)) : Rest(acts)[j] = acts[j]
    /\ Rest(acts) = <<>> => Len(acts) = 1 /\ ~CalledBack(acts)
    /\ Rest(acts) # <<>> =>
          /\ Len(Rest(acts)) \in 1 .. Len(acts) - 1
          /\ acts[Len(Rest(acts))].fn # 0
    /\ CalledBack(acts) =>
          /\ Len(Rest(acts)) = Len(acts) - 2 /\ Rest(acts) # <<>>
          /\ pos[Len(acts)] = pos[Len(acts) - 1] + 1 /\ Fresh(fs[pos[Len(acts) - 1]])
    /\ ~CalledBack(acts) => Len(Rest(acts)) = Len(acts) - 1

(* What calls the interpreter is an interpreter or a native function.      *)
LEMMA RestIs ==
    ASSUME NEW p, NEW fs, NEW acts, NEW pos, Stack(p, fs, acts, pos), acts # <<>>
    PROVE  Returned(fs, acts, pos)
<1> DEFINE n == Len(acts)
           callers == Front(acts)
<1>1. acts \in Seq(Activation) /\ n \in Nat /\ n >= 1
  BY StackIs, Zenon
<1>2. /\ callers \in Seq(Activation) /\ Len(callers) = n - 1
      /\ \A j \in 1 .. n - 1 : callers[j] = acts[j]
  BY <1>1, FrontIs
<1> HIDE DEF callers
<1>3. n - 1 \in Nat /\ (callers = <<>> <=> n = 1)
  BY <1>1, <1>2
<1>4. callers # <<>> => n - 1 \in 1 .. n /\ Last(callers) = acts[n - 1]
  BY <1>1, <1>2, <1>3 DEF Last
<1>5. CASE CalledBack(acts)
  <2>1. callers # <<>> /\ acts[n - 1] = Native /\ n - 1 \in 1 .. n
    BY <1>4, <1>5 DEF CalledBack, callers
  <2>2. Between(fs, acts, pos, n - 1)
    <3>1. acts[n - 1].fn = 0
      BY <2>1 DEF Native
    <3> QED BY <2>1, <3>1, StackIs, Zenon
  <2>3. /\ 1 < n - 1 /\ acts[n - 1 - 1].fn # 0
        /\ pos[n - 1 + 1] = pos[n - 1] + 1 /\ Fresh(fs[pos[n - 1]])
    BY <2>2 DEF Between
  <2>4. /\ Front(callers) \in Seq(Activation) /\ Len(Front(callers)) = n - 2
        /\ \A j \in 1 .. n - 2 : Front(callers)[j] = acts[j]
    <3>1. /\ Front(callers) \in Seq(Activation) /\ Len(Front(callers)) = Len(callers) - 1
          /\ \A j \in 1 .. Len(callers) - 1 : Front(callers)[j] = callers[j]
      BY <1>2, <2>1, FrontIs, Zenon
    <3> QED BY <3>1, <1>1, <1>2
  <2>5. Rest(acts) = Front(callers)
    BY <1>5 DEF Rest, callers
  <2>6. /\ n - 2 \in Nat /\ n - 2 \in 1 .. n - 1 /\ n - 1 - 1 = n - 2 /\ n - 1 + 1 = n
        /\ n - 2 # 0
    <3>1. 1 < n - 1
      BY <2>3
    <3> HIDE DEF n
    <3> QED BY <1>1, <3>1
  <2>7. Front(callers) # <<>>
    BY <2>4, <2>6
  <2> QED BY <1>5, <2>3, <2>4, <2>5, <2>6, <2>7 DEF Returned
<1>6. CASE ~CalledBack(acts)
  <2>1. Rest(acts) = callers
    BY <1>6 DEF Rest, callers
  <2>2. callers # <<>> => acts[n - 1].fn # 0
    <3> SUFFICES ASSUME callers # <<>>, acts[n - 1].fn = 0
                 PROVE  FALSE
      OBVIOUS
    <3>1. Between(fs, acts, pos, n - 1)
      BY <1>4, StackIs, Zenon
    <3>2. acts[n - 1] = Native
      BY <3>1 DEF Between
    <3> QED BY <1>4, <1>6, <3>2 DEF CalledBack, callers
  <2>3. callers # <<>> => n - 1 \in 1 .. n - 1
    <3> HIDE DEF n
    <3>1. n \in Nat /\ n >= 1 /\ (callers # <<>> => n # 1)
      BY <1>1, <1>3
    <3>2. n # 1 => n - 1 \in 1 .. n - 1
      BY <3>1
    <3> QED BY <3>1, <3>2
  <2>4. Len(Rest(acts)) = n - 1 /\ Rest(acts) \in Seq(Activation) /\ n - 1 \in Nat
        /\ \A j \in 1 .. n - 1 : Rest(acts)[j] = acts[j]
    BY <1>2, <1>3, <2>1
  <2>5. (Rest(acts) = <<>> => n = 1) /\ (Rest(acts) # <<>> => acts[n - 1].fn # 0)
        /\ (Rest(acts) # <<>> => n - 1 \in 1 .. n - 1)
    BY <1>3, <2>1, <2>2, <2>3
  <2> HIDE DEF n
  <2>6. /\ Len(Rest(acts)) \in Nat
        /\ \A j \in 1 .. Len(Rest(acts)) : Rest(acts)[j] = acts[j]
        /\ Rest(acts) # <<>> => /\ Len(Rest(acts)) \in 1 .. n - 1
                                /\ acts[Len(Rest(acts))].fn # 0
    BY <2>4, <2>5
  <2> QED BY <1>6, <2>4, <2>5, <2>6, Zenon DEF n, Returned
<1> QED BY <1>5, <1>6

(* When there is no activation, the global frame is the only one.          *)
LEMMA NothingRuns ==
    ASSUME program \in Compiled
    PROVE  Working(program, <<GlobalFrame>>, <<>>)
<1>1. <<GlobalFrame>> \in Seq(Frame(program)) /\ <<GlobalFrame>>[1] = GlobalFrame
      /\ <<GlobalFrame>> # <<>>
  BY FramesAre
<1>2. <<>> \in Seq(Activation) /\ DOMAIN <<>> = {}
  OBVIOUS
<1>3. <<>> \in Places(<<GlobalFrame>>, <<>>)
  BY DEF Places
<1>4. Ordered(<<>>, <<>>)
  BY <1>2 DEF Ordered
<1>5. Stack(program, <<GlobalFrame>>, <<>>, <<>>)
  BY <1>1, <1>2, <1>3, <1>4, Zenon DEF Stack
<1> QED BY <1>3, <1>5 DEF Working

(* What is known of a caller, at m, and of the frames up to the one that   *)
(* it has called.                                                          *)
Caller(p, fs, acts, pos, m) ==
    /\ fs \in Seq(Frame(p)) /\ acts \in Seq(Activation) /\ Len(fs) \in Nat
    /\ m \in Nat /\ m >= 1 /\ m \in 1 .. Len(acts) /\ acts[m] \in Activation
    /\ acts[m].fn \in 1..2 /\ acts[m].at \in DOMAIN Code(p, acts[m].fn)
    /\ Sits(p, acts[m]) /\ At(p, acts[m]) = Code(p, acts[m].fn)[acts[m].at]
    /\ WellFormed(Code(p, acts[m].fn))
    /\ Structured(Code(p, acts[m].fn), acts[m].at)
    /\ At(p, acts[m]).op = "function_call" /\ At(p, acts[m]).calls # <<>>
    /\ pos[m] \in Nat /\ pos[m] >= 2 /\ pos[m + 1] \in Nat /\ pos[m + 1] \in 2 .. Len(fs)
    /\ pos[m + 1] - 1 = pos[m] + Len(Front(At(p, acts[m]).calls))
    /\ pos[m + 1] - 1 >= pos[m]
    /\ Waiting(fs, pos[m], Front(At(p, acts[m]).calls))
    /\ DOMAIN Front(At(p, acts[m]).calls) = 1 .. Len(Front(At(p, acts[m]).calls))
    /\ Len(Front(At(p, acts[m]).calls)) \in Nat
    /\ Runs(p, fs[pos[m]], acts[m])

(* Any activation of an interpreter but the last is one.                   *)
LEMMA CallerIs ==
    ASSUME NEW p \in Compiled, NEW fs, NEW acts, NEW pos, NEW m \in 1 .. Len(acts) - 1,
           Stack(p, fs, acts, pos), acts[m].fn # 0
    PROVE  Caller(p, fs, acts, pos, m)
<1> DEFINE a == acts[m]
           c == Code(p, a.fn)
           calls == At(p, a).calls
<1>1. fs \in Seq(Frame(p)) /\ acts \in Seq(Activation) /\ Len(fs) \in Nat /\ Len(acts) \in Nat
  BY StackIs, Zenon
<1>2. m \in Nat /\ m >= 1 /\ m \in 1 .. Len(acts) /\ m + 1 \in 1 .. Len(acts) /\ m < Len(acts)
  BY <1>1
<1>3. /\ a \in Activation /\ a.fn \in 1..2 /\ pos[m] \in 2 .. Len(fs) /\ pos[m] \in Nat
      /\ pos[m + 1] \in 2 .. Len(fs) /\ pos[m + 1] \in Nat
      /\ Runs(p, fs[pos[m]], a) /\ Suspended(p, fs, a, pos[m], pos[m + 1])
  BY <1>2, StackIs, Zenon
<1> HIDE DEF a
<1>4. /\ Sits(p, a) /\ At(p, a).op = "function_call" /\ calls # <<>>
      /\ pos[m + 1] = pos[m] + Len(calls) /\ Waiting(fs, pos[m], Front(calls))
  BY <1>3 DEF Suspended
<1>5. WellFormed(c) /\ a.at \in DOMAIN c /\ At(p, a) = c[a.at]
  BY <1>3, <1>4, CodeIs DEF Sits, At
<1>6. Structured(c, a.at)
  BY <1>5 DEF WellFormed
<1>7. calls \in Seq({"lambda", "native", "apply", "method"})
  BY <1>5, InstructionIs
<1> HIDE DEF calls, c
<1>8. /\ Len(Front(calls)) = Len(calls) - 1 /\ Len(calls) \in Nat /\ Len(calls) >= 1
      /\ DOMAIN Front(calls) = 1 .. Len(calls) - 1
  BY <1>4, <1>7, FrontIs, Zenon
<1>9. /\ pos[m + 1] - 1 = pos[m] + Len(Front(calls)) /\ pos[m + 1] - 1 >= pos[m]
      /\ DOMAIN Front(calls) = 1 .. Len(Front(calls)) /\ Len(Front(calls)) \in Nat
      /\ pos[m] >= 2
  BY <1>1, <1>3, <1>4, <1>8
<1> QED BY <1>1, <1>2, <1>3, <1>4, <1>5, <1>6, <1>9 DEF a, calls, c, Caller

(* The caller gets the value, and goes on after the call.                  *)
LEMMA CallerGoesOn ==
    ASSUME NEW p \in Compiled, NEW fs, NEW acts, NEW pos, NEW m \in 1 .. Len(acts) - 1,
           NEW fs2 \in Seq(Frame(p)), NEW rest \in Seq(Activation),
           Stack(p, fs, acts, pos), acts[m].fn # 0,
           Len(rest) = m, \A j \in 1 .. m : rest[j] = acts[j],
           Len(fs2) = pos[m + 1] - 1, \A i \in 1 .. Len(fs2) : fs2[i] = fs[i]
    PROVE  Working(p, fs2, [rest EXCEPT ![m].at = @ + 1])
<1> DEFINE a == acts[m]
           c == Code(p, a.fn)
           to == a.at + 1
           calls == At(p, a).calls
           acts2 == [rest EXCEPT ![m].at = @ + 1]
           b == [a EXCEPT !.at = to]
<1>1. /\ m \in Nat /\ m >= 1 /\ m \in 1 .. Len(acts) /\ a \in Activation
      /\ a.fn \in 1..2 /\ a.at \in DOMAIN c /\ At(p, a) = c[a.at]
      /\ WellFormed(c) /\ Structured(c, a.at)
      /\ At(p, a).op = "function_call" /\ calls # <<>>
      /\ pos[m] \in Nat /\ pos[m] >= 2
      /\ pos[m + 1] - 1 = pos[m] + Len(Front(calls)) /\ pos[m + 1] - 1 >= pos[m]
      /\ Waiting(fs, pos[m], Front(calls))
      /\ DOMAIN Front(calls) = 1 .. Len(Front(calls)) /\ Len(Front(calls)) \in Nat
      /\ Runs(p, fs[pos[m]], a) /\ Sits(p, a)
  <2>1. Caller(p, fs, acts, pos, m)
    BY CallerIs, Zenon
  <2> QED BY <2>1 DEF Caller
<1>2. Len(fs2) = pos[m] + Len(Front(calls)) /\ Len(fs2) >= pos[m] /\ Len(fs2) \in Nat
  BY <1>1
<1>3. fs2[pos[m]] = fs[pos[m]] /\ \A i \in 1 .. pos[m] - 1 : fs2[i] = fs[i]
  BY <1>1, <1>2
<1>4. Waiting(fs2, pos[m], Front(calls))
  <2> SUFFICES ASSUME NEW k \in 1 .. Len(Front(calls))
               PROVE  Prepared(fs2[pos[m] + k], Front(calls)[k])
    BY <1>1 DEF Waiting
  <2>1. pos[m] + k \in 1 .. Len(fs2)
    BY <1>1, <1>2
  <2>2. fs2[pos[m] + k] = fs[pos[m] + k]
    BY <2>1
  <2> QED BY <2>2, <1>1 DEF Waiting
<1>5. /\ fs2[pos[m]].fn = a.fn /\ fs2[pos[m]].called /\ ~ fs2[pos[m]].skip
      /\ fs2[pos[m]].catch = Handlers(c, a.at)
  BY <1>1, <1>3, Zenon DEF Runs
<1>6. to \in DOMAIN c => c[to].within = c[a.at].within /\ c[to].calls = Front(calls)
  BY <1>1 DEF Structured, Leads
<1>7. to \in Nat /\ b \in Activation
  BY <1>1 DEF Activation
<1>8. /\ acts2 \in Seq(Activation) /\ Len(acts2) = m /\ acts2[m] = b
      /\ \A j \in 1 .. m - 1 : acts2[j] = acts[j]
  <2>1. acts2 = [rest EXCEPT ![m] = b]
    <3>1. rest[m] = a
      BY <1>1
    <3>2. acts2 = [rest EXCEPT ![m] = [rest[m] EXCEPT !.at = rest[m].at + 1]]
      OBVIOUS
    <3> QED BY <3>1, <3>2
  <2>2. m \in 1 .. Len(rest) /\ \A j \in 1 .. m - 1 : j \in 1 .. m /\ j # m
    BY <1>1
  <2> HIDE DEF acts2, b
  <2>3. /\ acts2 \in Seq(Activation) /\ Len(acts2) = Len(rest) /\ acts2[m] = b
        /\ \A j \in 1 .. Len(rest) : j # m => acts2[j] = rest[j]
    BY <1>7, <2>1, <2>2, ReplacedAt
  <2> QED BY <2>2, <2>3
<1>9. to \in DOMAIN c =>
         /\ fs2[pos[m]].catch = Handlers(c, to)
         /\ Len(fs2) = pos[m] + Len(c[to].calls)
         /\ Waiting(fs2, pos[m], c[to].calls)
  <2> SUFFICES ASSUME to \in DOMAIN c
               PROVE  /\ fs2[pos[m]].catch = Handlers(c, to)
                      /\ Len(fs2) = pos[m] + Len(c[to].calls)
                      /\ Waiting(fs2, pos[m], c[to].calls)
    OBVIOUS
  <2>1. c[to].within = c[a.at].within /\ c[to].calls = Front(calls)
    BY <1>6
  <2>2. Handlers(c, to) = Handlers(c, a.at)
    BY <2>1 DEF Handlers
  <2>3. Len(c[to].calls) = Len(Front(calls)) /\ Waiting(fs2, pos[m], c[to].calls)
    BY <2>1, <1>4
  <2> QED BY <2>2, <2>3, <1>2, <1>5
<1> HIDE DEF acts2, to
<1>10. Working(p, fs2, acts2)
  BY <1>1, <1>2, <1>3, <1>5, <1>7, <1>8, <1>9, Resumes, Zenon
<1> QED BY <1>10 DEF acts2

(* The caller fails with the exception of what it has called, whose frame, *)
(* if it is that of a native function, stays.                              *)
LEMMA CallerFails ==
    ASSUME NEW p \in Compiled, NEW fs, NEW acts, NEW pos, NEW m \in 1 .. Len(acts) - 1,
           NEW fs2 \in Seq(Frame(p)), NEW rest \in Seq(Activation),
           Stack(p, fs, acts, pos), acts[m].fn # 0,
           Len(rest) = m, \A j \in 1 .. m : rest[j] = acts[j],
           Len(fs2) >= pos[m + 1] - 1, \A i \in 1 .. Len(fs2) : fs2[i] = fs[i],
           \A i \in pos[m + 1] .. Len(fs2) : Fresh(fs[i])
    PROVE  Failed(p, fs2, rest)
<1> DEFINE calls == At(p, acts[m]).calls
<1>1. /\ m \in 1 .. Len(acts) /\ Sits(p, acts[m]) /\ pos[m] \in Nat /\ pos[m + 1] \in Nat
      /\ pos[m + 1] - 1 = pos[m] + Len(Front(calls)) /\ pos[m + 1] - 1 >= pos[m]
      /\ Waiting(fs, pos[m], Front(calls))
      /\ DOMAIN Front(calls) = 1 .. Len(Front(calls)) /\ Len(Front(calls)) \in Nat
  <2>1. Caller(p, fs, acts, pos, m)
    BY CallerIs, Zenon
  <2> QED BY <2>1 DEF Caller
<1> HIDE DEF calls
<1>2. Len(fs2) \in Nat /\ Len(fs2) >= pos[m]
  <2>1. Len(fs2) \in Nat
    OBVIOUS
  <2> QED BY <1>1, <2>1
<1>3. \A i \in 1 .. pos[m] : fs2[i] = fs[i]
  <2>1. \A i \in 1 .. pos[m] : i \in 1 .. Len(fs2)
    BY <1>1, <1>2
  <2> QED BY <2>1
<1>4. \A i \in pos[m] + 1 .. Len(fs2) : Fresh(fs2[i])
  <2> SUFFICES ASSUME NEW i \in pos[m] + 1 .. Len(fs2)
               PROVE  Fresh(fs[i])
    BY <1>1, <1>2
  <2>1. CASE i >= pos[m + 1]
    BY <2>1, <1>1, <1>2
  <2>2. CASE i < pos[m + 1]
    <3>1. i - pos[m] \in DOMAIN Front(calls) /\ pos[m] + (i - pos[m]) = i
      <4> DEFINE k == Len(Front(calls))
      <4>1. k \in Nat /\ DOMAIN Front(calls) = 1 .. k /\ pos[m + 1] - 1 = pos[m] + k
        BY <1>1
      <4> HIDE DEF k
      <4>2. i \in Int /\ i >= pos[m] + 1 /\ i <= pos[m] + k
        BY <2>2, <4>1, <1>1
      <4> QED BY <4>1, <4>2, <1>1
    <3>2. Prepared(fs[pos[m] + (i - pos[m])], Front(calls)[i - pos[m]])
      BY <3>1, <1>1, Zenon DEF Waiting
    <3> QED BY <3>1, <3>2 DEF Prepared
  <2> QED BY <2>1, <2>2, <1>1, <1>2
<1> QED BY <1>1, <1>2, <1>3, <1>4, FailsWhereItIs, Zenon

(* The interpreter returns a value, when no call is being prepared.        *)
LEMMA ReturnStep ==
    ASSUME NEW pos, NEW v, Executing(pos), Instruction.calls = <<>>, ReturnsValue(v)
    PROVE  /\ Working(program, frames', activations')
           /\ outcome' # <<>> => activations' = <<>>
<1> DEFINE n == Len(activations)
           l == Len(frames)
           callers == Front(activations)
           native == CalledBack(activations)
           rest == Rest(activations)
           m == Len(rest)
           skipped == l > 1 /\ frames[l - 1].skip
           left == SubSeq(frames, 1, l - IF skipped THEN 2 ELSE 1)
<1>1. /\ program \in Compiled /\ Stack(program, frames, activations, pos)
      /\ frames \in Seq(Frame(program)) /\ activations \in Seq(Activation) /\ activations # <<>>
      /\ n \in Nat /\ n >= 1 /\ l \in Nat
      /\ ActiveAt(frames) = pos[n] /\ ActiveAt(frames) \in 2 .. l
      /\ l = ActiveAt(frames) + Len(Instruction.calls)
  BY ExecutingIs, Zenon
<1>2. l = pos[n] /\ l >= 2
  BY <1>1
<1>3. /\ rest \in Seq(Activation) /\ m \in Nat
      /\ \A j \in 1 .. m : rest[j] = activations[j]
      /\ rest = <<>> => n = 1 /\ ~native
      /\ rest # <<>> => m \in 1 .. n - 1 /\ activations[m].fn # 0
      /\ native => /\ m = n - 2 /\ rest # <<>> /\ pos[n] = pos[n - 1] + 1
                   /\ Fresh(frames[pos[n - 1]])
      /\ ~native => m = n - 1
  <2>1. Returned(frames, activations, pos)
    BY <1>1, RestIs, Zenon
  <2> QED BY <2>1 DEF Returned
<1>4. /\ frames' = IF native /\ ~skipped THEN Front(left) ELSE left
      /\ activations' = IF rest = <<>> THEN <<>>
                        ELSE [rest EXCEPT ![Len(rest)].at = @ + 1]
      /\ outcome' = IF rest = <<>> THEN <<"return", v>> ELSE <<>>
  BY DEF ReturnsValue, Rest, CalledBack
<1> HIDE DEF native, rest, skipped
<1>5. /\ left \in Seq(Frame(program)) /\ Len(left) = l - IF skipped THEN 2 ELSE 1
      /\ \A i \in 1 .. Len(left) : left[i] = frames[i]
  <2>1. l - (IF skipped THEN 2 ELSE 1) \in 0 .. l
    BY <1>1, <1>2
  <2> QED BY <1>1, <2>1, PrefixIs
<1>6. CASE rest = <<>>
  <2>1. n = 1 /\ ~native /\ l = 2
    <3>1. pos[1] = 2
      BY <1>1, Zenon DEF Stack, Ordered
    <3> QED BY <3>1, <1>2, <1>3, <1>6
  <2>2. frames[1] = GlobalFrame
    BY <1>1, StackIs, Zenon
  <2>3. ~skipped
    BY <1>1, <2>1, <2>2, FramesAre DEF skipped
  <2>4. frames' = <<GlobalFrame>>
    <3>1. frames' = left /\ Len(left) = 1 /\ left[1] = GlobalFrame
      BY <1>4, <1>5, <2>1, <2>2, <2>3
    <3>2. frames' \in Seq(Frame(program)) /\ Len(frames') = 1 /\ frames'[1] = GlobalFrame
      BY <3>1, <1>5
    <3> QED BY <3>2
  <2>5. activations' = <<>>
    BY <1>4, <1>6
  <2> QED BY <1>1, <2>4, <2>5, NothingRuns
<1>7. CASE rest # <<>>
  <2>1. m \in 1 .. n - 1 /\ activations[m].fn # 0 /\ m \in Nat
    BY <1>3, <1>7
  <2>2. Caller(program, frames, activations, pos, m)
    BY <1>1, <2>1, CallerIs, Zenon
  <2>3. frames' \in Seq(Frame(program)) /\ Len(frames') = pos[m + 1] - 1
        /\ \A i \in 1 .. Len(frames') : frames'[i] = frames[i]
    <3>1. CASE native
      <4>1. /\ m + 1 = n - 1 /\ pos[n - 1] = l - 1 /\ l - 1 \in Nat
        <5>1. m = n - 2 /\ pos[n] = pos[n - 1] + 1
          BY <1>3, <3>1
        <5>2. m + 1 = n - 1
          BY <5>1, <1>1
        <5>3. pos[m + 1] \in Nat
          BY <2>2 DEF Caller
        <5> QED BY <5>1, <5>2, <5>3, <1>1, <1>2
      <4>2. CASE skipped
        <5>1. Len(left) = l - 2 /\ frames' = left
          BY <1>4, <1>5, <4>2
        <5> HIDE DEF left
        <5> QED BY <5>1, <4>1, <1>1, <1>5
      <4>3. CASE ~skipped
        <5>1. Len(left) = l - 1 /\ l - 1 \in Nat /\ left # <<>> /\ l - 1 >= 1
          BY <1>5, <4>3, <1>1, <1>2
        <5>2. /\ Front(left) \in Seq(Frame(program)) /\ Len(Front(left)) = l - 2
              /\ \A i \in 1 .. l - 2 : Front(left)[i] = left[i]
          <6>1. /\ Front(left) \in Seq(Frame(program)) /\ Len(Front(left)) = Len(left) - 1
                /\ \A i \in 1 .. Len(left) - 1 : Front(left)[i] = left[i]
            BY <1>5, <5>1, FrontIs
          <6> HIDE DEF left
          <6> QED BY <5>1, <6>1, <1>1
        <5>3. frames' = Front(left)
          BY <1>4, <3>1, <4>3
        <5> HIDE DEF left
        <5> QED BY <5>1, <5>2, <5>3, <1>1, <1>5, <4>1
      <4> QED BY <4>2, <4>3
    <3>2. CASE ~native
      <4>1. m + 1 = n /\ pos[n] = l
        BY <1>1, <1>2, <1>3, <3>2
      <4>2. ~skipped
        <5>1. /\ pos[m] \in Nat /\ l - 1 = pos[m] + Len(Front(At(program, activations[m]).calls))
              /\ Waiting(frames, pos[m], Front(At(program, activations[m]).calls))
              /\ Runs(program, frames[pos[m]], activations[m])
              /\ DOMAIN Front(At(program, activations[m]).calls)
                    = 1 .. Len(Front(At(program, activations[m]).calls))
              /\ Len(Front(At(program, activations[m]).calls)) \in Nat
          BY <2>2, <4>1 DEF Caller
        <5> DEFINE k == Len(Front(At(program, activations[m]).calls))
        <5>2. CASE k = 0
          BY <5>1, <5>2 DEF Runs, skipped
        <5>3. CASE k # 0
          <6>1. k \in 1 .. k /\ pos[m] + k = l - 1
            BY <5>1, <5>3
          <6> QED BY <5>1, <6>1 DEF Waiting, Prepared, skipped
        <5> QED BY <5>2, <5>3
      <4> QED BY <1>4, <1>5, <3>2, <4>1, <4>2
    <3> QED BY <3>1, <3>2
  <2>4. activations' = [rest EXCEPT ![m].at = @ + 1] /\ outcome' = <<>>
    BY <1>4, <1>7
  <2>5. Working(program, frames', activations')
    BY <1>1, <1>3, <2>1, <2>3, <2>4, CallerGoesOn, Zenon
  <2> QED BY <2>4, <2>5
<1> QED BY <1>6, <1>7

(* The interpreter returns an error, and its frame is freed.               *)
LEMMA ErrorStep ==
    ASSUME NEW pos, NEW fs2 \in Seq(Frame(program)), program \in Compiled,
           Stack(program, frames, activations, pos), activations # <<>>,
           Len(fs2) = pos[Len(activations)] - 1, \A i \in 1 .. Len(fs2) : fs2[i] = frames[i]
    PROVE  IF Rest(activations) = <<>> THEN Working(program, fs2, <<>>)
           ELSE Failed(program, fs2, Rest(activations))
<1> DEFINE n == Len(activations)
           native == CalledBack(activations)
           rest == Rest(activations)
           m == Len(rest)
<1>1. /\ n \in Nat /\ n >= 1 /\ Len(frames) \in Nat /\ frames[1] = GlobalFrame
      /\ pos[n] \in 2 .. Len(frames) /\ activations \in Seq(Activation)
  <2>1. /\ n \in Nat /\ n >= 1 /\ Len(frames) \in Nat /\ frames[1] = GlobalFrame
        /\ activations \in Seq(Activation)
    BY StackIs, Zenon
  <2>2. n \in 1 .. n
    BY <2>1
  <2> QED BY <2>1, <2>2, StackIs, Zenon
<1>2. /\ rest \in Seq(Activation) /\ m \in Nat
      /\ \A j \in 1 .. m : rest[j] = activations[j]
      /\ rest = <<>> => n = 1 /\ ~native
      /\ rest # <<>> => m \in 1 .. n - 1 /\ activations[m].fn # 0
      /\ native => /\ m = n - 2 /\ rest # <<>> /\ pos[n] = pos[n - 1] + 1
                   /\ Fresh(frames[pos[n - 1]])
      /\ ~native => m = n - 1
  <2>1. Returned(frames, activations, pos)
    BY RestIs, Zenon
  <2> QED BY <2>1 DEF Returned
<1> HIDE DEF native, rest
<1>3. CASE rest = <<>>
  <2>1. pos[n] = 2
    BY <1>2, <1>3, Zenon DEF Stack, Ordered
  <2>2. Len(fs2) = 1 /\ fs2[1] = GlobalFrame
    BY <1>1, <2>1
  <2>3. fs2 = <<GlobalFrame>>
    BY <2>2
  <2> QED BY <1>3, <2>3, NothingRuns DEF rest
<1>4. CASE rest # <<>>
  <2>1. m \in 1 .. n - 1 /\ activations[m].fn # 0
    BY <1>2, <1>4
  <2>2. Len(fs2) >= pos[m + 1] - 1 /\ \A i \in pos[m + 1] .. Len(fs2) : Fresh(frames[i])
    <3>1. CASE native
      <4>1. m + 1 = n - 1 /\ pos[n] = pos[n - 1] + 1 /\ Fresh(frames[pos[n - 1]])
        BY <1>1, <1>2, <3>1
      <4>2. pos[n - 1] \in Nat
        <5>1. n - 1 \in 1 .. n
          BY <1>1, <2>1
        <5> QED BY <5>1, StackIs, Zenon
      <4> DEFINE k == pos[m + 1]
      <4>3. k \in Nat /\ Fresh(frames[k]) /\ Len(fs2) = k
        BY <4>1, <4>2
      <4> HIDE DEF k
      <4>4. Len(fs2) >= k - 1 /\ \A i \in k .. Len(fs2) : i = k
        BY <4>3
      <4>5. Len(fs2) >= k - 1 /\ \A i \in k .. Len(fs2) : Fresh(frames[i])
        BY <4>3, <4>4
      <4> QED BY <4>5 DEF k
    <3>2. CASE ~native
      <4>1. m + 1 = n
        BY <1>1, <1>2, <3>2
      <4> QED BY <4>1, <1>1
    <3> QED BY <3>1, <3>2
  <2>3. Failed(program, fs2, rest)
    BY <1>2, <2>1, <2>2, CallerFails, Zenon
  <2> QED BY <1>4, <2>3 DEF rest
<1> QED BY <1>3, <1>4

(* An exception is caught: the frames of the calls that were prepared are  *)
(* freed, and the interpreter goes on at the handler of its own frame.     *)
LEMMA CaughtStep ==
    ASSUME NEW pos, program \in Compiled, activations # <<>>,
           Stack(program, frames, activations, pos),
           Quiet(program, frames, activations[Len(activations)], pos[Len(activations)]),
           frames[pos[Len(activations)]].catch # <<>>
    PROVE  Working(program, SubSeq(frames, 1, pos[Len(activations)]),
                   [activations EXCEPT ![Len(activations)] =
                       [fn |-> frames[pos[Len(activations)]].fn,
                        at |-> Last(frames[pos[Len(activations)]].catch)]])
<1> DEFINE n == Len(activations)
           at == pos[n]
           a == activations[n]
           c == Code(program, a.fn)
           f == frames[at]
           to == Last(f.catch)
           b == [fn |-> f.fn, at |-> to]
           fs2 == SubSeq(frames, 1, at)
           acts2 == [activations EXCEPT ![n] = b]
<1>1. /\ frames \in Seq(Frame(program)) /\ activations \in Seq(Activation)
      /\ n \in Nat /\ n >= 1 /\ a \in Activation /\ a.fn \in 1..2 /\ at \in 2 .. Len(frames)
      /\ Sits(program, a) /\ Runs(program, f, a)
  BY TopIs, Zenon
<1>2. WellFormed(c) /\ a.at \in DOMAIN c /\ Structured(c, a.at)
  BY <1>1, CodeIs DEF Sits, WellFormed
<1>3. /\ f.fn = a.fn /\ f.called /\ ~f.skip /\ f.catch = Handlers(c, a.at)
      /\ f.catch # <<>>
  BY <1>1, Zenon DEF Runs
<1>4. /\ c[a.at].within # <<>> /\ Last(c[a.at].within) \in DOMAIN c
      /\ to = c[Last(c[a.at].within)].to /\ to \in Nat
  BY <1>2, <1>3, HandlersLast
<1>5. Leads(c, to, c[a.at].within, <<>>)
  BY <1>2, <1>4 DEF Structured
<1> HIDE DEF c, to, f
<1>6. b = [a EXCEPT !.at = to] /\ b \in Activation
  BY <1>1, <1>3, <1>4 DEF Activation
<1>7. /\ fs2 \in Seq(Frame(program)) /\ Len(fs2) = at /\ at \in Nat /\ at >= 2
      /\ \A i \in 1 .. at : fs2[i] = frames[i]
  <2>1. at \in 0 .. Len(frames) /\ at \in Nat /\ at >= 2
    BY <1>1
  <2> HIDE DEF at
  <2> QED BY <1>1, <2>1, PrefixIs
<1>8. /\ acts2 \in Seq(Activation) /\ Len(acts2) = n /\ acts2[n] = b
      /\ \A i \in 1 .. n - 1 : acts2[i] = activations[i]
  <2>1. n \in 1 .. n /\ \A i \in 1 .. n - 1 : i \in 1 .. n /\ i # n
    BY <1>1
  <2> HIDE DEF b
  <2> QED BY <1>1, <1>6, <2>1, ReplacedAt
<1>9. to \in DOMAIN c =>
         /\ fs2[at].catch = Handlers(c, to) /\ Len(fs2) = at + Len(c[to].calls)
         /\ Waiting(fs2, at, c[to].calls)
  <2> SUFFICES ASSUME to \in DOMAIN c
               PROVE  /\ fs2[at].catch = Handlers(c, to) /\ Len(fs2) = at + Len(c[to].calls)
                      /\ Waiting(fs2, at, c[to].calls)
    OBVIOUS
  <2>1. c[to].within = c[a.at].within /\ c[to].calls = <<>>
    BY <1>5 DEF Leads
  <2>2. Handlers(c, to) = Handlers(c, a.at)
    BY <2>1, HandlersSame, Zenon
  <2>3. at + Len(c[to].calls) = at /\ Waiting(fs2, at, c[to].calls)
    BY <1>7, <2>1 DEF Waiting
  <2>4. fs2[at] = f
    BY <1>7 DEF f
  <2> QED BY <1>3, <1>7, <2>2, <2>3, <2>4
<1>10. Working(program, fs2, acts2)
  <2>1. /\ Len(fs2) >= at /\ \A i \in 1 .. at - 1 : fs2[i] = frames[i]
        /\ fs2[at] = f /\ n \in 1 .. n /\ a.fn # 0
    BY <1>1, <1>7 DEF f
  <2>2. acts2[n] = [a EXCEPT !.at = to]
    BY <1>6, <1>8
  <2> HIDE DEF fs2, acts2, b
  <2> QED BY <1>1, <1>3, <1>4, <1>7, <1>8, <1>9, <2>1, <2>2, Resumes, Zenon DEF c
<1> QED BY <1>10 DEF f, to

(* Where an instruction leads, by its kind.                                *)
LEMMA LeadsTo ==
    ASSUME NEW pos, Executing(pos)
    PROVE  LET c == Code(program, Pc.fn)
               i == Instruction
           IN  /\ i.n \in Int /\ i.t \in Nat /\ i.to \in Nat /\ i.alt \in Nat
               /\ Pc.at + 1 \in Nat
               /\ i.op \in {"step", "init", "update", "if_jump", "cond_jump", "finally"} =>
                     Leads(c, Pc.at + 1, i.within, i.calls)
               /\ i.op \in {"jump", "if_jump", "cond_jump", "try_break", "try_continue",
                            "try_return", "finally"} => Leads(c, i.to, i.within, i.calls)
               /\ i.op = "finally" => Leads(c, i.alt, i.within, i.calls)
               /\ i.op = "try_start" => Leads(c, Pc.at + 1, Append(i.within, Pc.at), i.calls)
               /\ i.op = "try_end" =>
                     i.within # <<>> /\ Leads(c, i.to, Front(i.within), i.calls)
               /\ i.op = "catch" =>
                     /\ i.within # <<>>
                     /\ Leads(c, Pc.at + 1,
                              IF i.to = 0 THEN Front(i.within)
                              ELSE Append(Front(i.within), Pc.at), i.calls)
               /\ i.op \in {"finally", "return"} => i.calls = <<>>
               /\ i.op = "lambda_frame" =>
                     Leads(c, Pc.at + 1, i.within, Append(i.calls, "lambda"))
               /\ i.op = "native_frame" =>
                     Leads(c, Pc.at + 1, i.within, Append(i.calls, "native"))
               /\ i.op = "apply_frame" =>
                     Leads(c, Pc.at + 1, i.within, Append(i.calls, "apply"))
               /\ i.op = "finally" => i.t \in 1..code[Pc.fn].tries
<1> DEFINE c == Code(program, Pc.fn)
<1>1. /\ program \in Compiled /\ Pc.fn \in 1..2 /\ WellFormed(c) /\ Pc.at \in DOMAIN c
      /\ Structured(c, Pc.at) /\ Instruction = c[Pc.at]
  BY ExecutingIs, Zenon
<1>2. /\ Instruction.n \in Int /\ Instruction.t \in Nat /\ Instruction.to \in Nat
      /\ Instruction.alt \in Nat /\ Pc.at + 1 \in Nat
  BY <1>1, InstructionIs
<1>3. Instruction.op = "finally" => Instruction.t \in 1..code[Pc.fn].tries
  BY <1>1, CodeIs DEF code
<1> HIDE DEF c
<1> QED BY <1>1, <1>2, <1>3 DEF Structured, c

(* Instructions that lead to another one in the same try blocks.           *)
LEMMA Jumps ==
    ASSUME NEW pos, Executing(pos), Jump \/ ConditionalJump \/ Effect
    PROVE  Working(program, frames', activations')
<1> DEFINE c == Code(program, Pc.fn)
           i == Instruction
<1>1. /\ i.to \in Nat /\ Pc.at + 1 \in Nat
      /\ i.op \in {"step", "if_jump"} => Leads(c, Pc.at + 1, i.within, i.calls)
      /\ i.op \in {"jump", "if_jump"} => Leads(c, i.to, i.within, i.calls)
  BY LeadsTo
<1>2. ASSUME NEW to \in Nat, Goes(to), Leads(c, to, i.within, i.calls), frames' = frames
      PROVE  Working(program, frames', activations')
  BY <1>2, JumpStep DEF Goes
<1>3. CASE Jump
  BY <1>1, <1>2, <1>3 DEF Jump, Executes, NoCall
<1>4. CASE ConditionalJump
  BY <1>1, <1>2, <1>4 DEF ConditionalJump, Executes, NoCall
<1>5. CASE Effect
  BY <1>1, <1>2, <1>5 DEF Effect, Executes, NoCall, Advances
<1> QED BY <1>3, <1>4, <1>5

(* An instruction that sets variables of the frame, and one that changes   *)
(* its handlers.                                                           *)
LEMMA FrameWith ==
    ASSUME NEW p, NEW f \in Frame(p), NEW s \in Seq(Nat), NEW e \in Seq(Int),
           NEW x \in Seq([valid : BOOLEAN, v : Int]), NEW l \in Seq(Int),
           Len(e) = Len(f.exception_value)
    PROVE  LET g == [fn |-> f.fn, called |-> f.called, skip |-> f.skip, catch |-> s,
                     exception_value |-> e, exit_value |-> x, loop |-> l]
           IN  g \in Frame(p) /\ g.fn = f.fn /\ g.called = f.called /\ g.skip = f.skip
               /\ g.catch = s
  BY DEF Frame

(* A frame is the record of its fields.                                    *)
LEMMA FrameIs ==
    ASSUME NEW p, NEW f \in Frame(p)
    PROVE  /\ f = [fn |-> f.fn, called |-> f.called, skip |-> f.skip, catch |-> f.catch,
                   exception_value |-> f.exception_value, exit_value |-> f.exit_value,
                   loop |-> f.loop]
           /\ f.catch \in Seq(Nat) /\ f.exception_value \in Seq(Int)
           /\ f.exit_value \in Seq([valid : BOOLEAN, v : Int]) /\ f.loop \in Seq(Int)
           /\ f.fn \in 1..2 => Len(f.exception_value) = p.code[f.fn].tries
  BY DEF Frame

(* An instruction leaves the try blocks and sets a variable.               *)
LEMMA SetsVariable ==
    ASSUME NEW pos, NEW to \in Nat, NEW f, Executing(pos), Goes(to), SetActive(f),
           Leads(Code(program, Pc.fn), to, Instruction.within, Instruction.calls),
           f \in Frame(program), f.fn = Active.fn, f.called = Active.called,
           f.skip = Active.skip, f.catch = Active.catch
    PROVE  Working(program, frames', activations')
<1> DEFINE c == Code(program, Pc.fn)
<1>1. /\ Active.fn = Pc.fn /\ Active.called /\ ~Active.skip
      /\ Active.catch = Handlers(c, Pc.at) /\ Instruction = c[Pc.at]
  BY ExecutingIs, Zenon
<1>2. to \in DOMAIN c => f.catch = Handlers(c, to) /\ c[to].calls = Instruction.calls
  <2> SUFFICES ASSUME to \in DOMAIN c
               PROVE  f.catch = Handlers(c, to) /\ c[to].calls = Instruction.calls
    OBVIOUS
  <2>1. c[to].within = c[Pc.at].within /\ c[to].calls = Instruction.calls
    BY <1>1, Zenon DEF Leads
  <2>2. Handlers(c, Pc.at) = Handlers(c, to)
    BY <2>1, HandlersSame, Zenon
  <2> QED BY <1>1, <2>1, <2>2, Zenon
<1>3. f.fn = Pc.fn /\ f.called /\ ~f.skip
  BY <1>1
<1>4. Working(program, [frames EXCEPT ![ActiveAt(frames)] = f],
              [activations EXCEPT ![Len(activations)].at = to])
  BY <1>2, <1>3, LocalStep, Zenon
<1> QED BY <1>4 DEF Goes, SetActive

(* Instructions of the loops.                                              *)
LEMMA LoopSteps ==
    ASSUME NEW pos, Executing(pos), LoopVariable
    PROVE  /\ Working(program, frames', activations')
           /\ UNCHANGED <<program, exception, failing, outcome, bypassed>>
<1> DEFINE c == Code(program, Pc.fn)
           i == Instruction
           v == Active.loop[Instruction.t]
<1>1. /\ i.to \in Nat /\ Pc.at + 1 \in Nat /\ i.t \in Nat
      /\ i.op \in {"init", "update", "cond_jump"} => Leads(c, Pc.at + 1, i.within, i.calls)
      /\ i.op = "cond_jump" => Leads(c, i.to, i.within, i.calls)
  BY LeadsTo
<1>2. Active \in Frame(program)
  BY ExecutingIs, Zenon
<1>3. ASSUME NEW l \in Seq(Int), Executes("init") \/ Executes("update"),
             Advances, SetActive([Active EXCEPT !.loop = l])
      PROVE  /\ Working(program, frames', activations')
             /\ UNCHANGED <<program, exception, failing, outcome, bypassed>>
  <2> DEFINE f == [Active EXCEPT !.loop = l]
  <2>1. /\ f \in Frame(program) /\ f.fn = Active.fn /\ f.called = Active.called
        /\ f.skip = Active.skip /\ f.catch = Active.catch
    BY <1>2 DEF Frame
  <2>2. Goes(Pc.at + 1) /\ SetActive(f) /\ Leads(c, Pc.at + 1, i.within, i.calls)
    BY <1>1, <1>3 DEF Executes, Advances
  <2> HIDE DEF f
  <2>3. Working(program, frames', activations')
    BY <1>1, <2>1, <2>2, SetsVariable
  <2>4. UNCHANGED <<program, exception, failing, outcome, bypassed>>
    BY <2>2, Zenon DEF SetActive, Same
  <2> QED BY <2>3, <2>4
<1>4. Active.loop \in Seq(Int)
  BY <1>2, FrameIs
<1>5. CASE Executes("init") /\ Advances /\ SetActive([Active EXCEPT !.loop[Instruction.t] = 0])
  <2> DEFINE y == 0
             l == [Active.loop EXCEPT ![Instruction.t] = y]
  <2>1. l \in Seq(Int)
    <3>1. y \in Int
      OBVIOUS
    <3> HIDE DEF y
    <3> QED BY <1>4, <3>1, Replaced
  <2>2. SetActive([Active EXCEPT !.loop = l])
    BY <1>5
  <2> QED BY <1>5, <1>3, <2>1, <2>2
<1>6. CASE Executes("update") /\ Advances /\ SetActive([Active EXCEPT !.loop[Instruction.t] = v + 1])
  <2> DEFINE y == v + 1
             l == [Active.loop EXCEPT ![Instruction.t] = y]
  <2>1. Instruction.t \in DOMAIN Active.loop => y \in Int
    BY <1>4
  <2>2. l \in Seq(Int)
    <3> HIDE DEF y
    <3> QED BY <1>4, <2>1, Replaced
  <2>3. SetActive([Active EXCEPT !.loop = l])
    BY <1>6
  <2> QED BY <1>6, <1>3, <2>2, <2>3
<1>7. CASE /\ Executes("cond_jump")
           /\ Goes(IF v < i.n THEN i.to ELSE Pc.at + 1)
           /\ UNCHANGED log /\ NoCall /\ Same
  <2>1. Leads(c, Pc.at + 1, i.within, i.calls) /\ Leads(c, i.to, i.within, i.calls)
    BY <1>1, <1>7 DEF Executes
  <2>2. ASSUME NEW to \in Nat, Goes(to), Leads(c, to, i.within, i.calls)
        PROVE  Working(program, frames', activations')
    BY <1>7, <2>2, JumpStep DEF Goes, NoCall
  <2>3. Goes(i.to) \/ Goes(Pc.at + 1)
    BY <1>7, Zenon
  <2>4. Working(program, frames', activations')
    BY <1>1, <2>1, <2>2, <2>3
  <2> QED BY <1>7, <2>4 DEF NoCall, Same
<1> QED BY <1>5, <1>6, <1>7 DEF LoopVariable

(* Jumps out of a try block.                                               *)
LEMMA ExitSteps ==
    ASSUME NEW pos, Executing(pos), TryBreak \/ TryContinue \/ TryReturn
    PROVE  /\ Working(program, frames', activations')
           /\ UNCHANGED <<program, exception, failing, outcome, bypassed>>
<1> DEFINE c == Code(program, Pc.fn)
           i == Instruction
           x == Active.exit_value[Instruction.t]
           X == [valid : BOOLEAN, v : Int]
<1>1. /\ i.to \in Nat /\ i.n \in Int
      /\ i.op \in {"try_break", "try_continue", "try_return"} =>
            Leads(c, i.to, i.within, i.calls)
  BY LeadsTo
<1>2. Active \in Frame(program) /\ Active.exit_value \in Seq(X)
  <2>1. Active \in Frame(program)
    BY ExecutingIs, Zenon
  <2> QED BY <2>1, FrameIs
<1>3. ASSUME NEW w \in Seq(X), Executes("try_break") \/ Executes("try_continue")
                                  \/ Executes("try_return"),
             Goes(i.to), SetActive([Active EXCEPT !.exit_value = w])
      PROVE  /\ Working(program, frames', activations')
             /\ UNCHANGED <<program, exception, failing, outcome, bypassed>>
  <2> DEFINE f == [Active EXCEPT !.exit_value = w]
  <2>1. /\ f \in Frame(program) /\ f.fn = Active.fn /\ f.called = Active.called
        /\ f.skip = Active.skip /\ f.catch = Active.catch
    BY <1>2 DEF Frame
  <2>2. Goes(i.to) /\ SetActive(f) /\ Leads(c, i.to, i.within, i.calls)
    BY <1>1, <1>3 DEF Executes
  <2> HIDE DEF f
  <2>3. Working(program, frames', activations')
    BY <1>1, <2>1, <2>2, SetsVariable
  <2>4. UNCHANGED <<program, exception, failing, outcome, bypassed>>
    BY <2>2, Zenon DEF SetActive, Same
  <2> QED BY <2>3, <2>4
<1>4. \A k \in DOMAIN Active.exit_value : Active.exit_value[k] \in X
  <2> HIDE DEF X
  <2> QED BY <1>2
<1>5. CASE TryBreak
  <2> DEFINE y == IF x.valid THEN x ELSE Invalid(1)
             w == [Active.exit_value EXCEPT ![i.t] = y]
  <2>1. Invalid(1) \in X
    BY DEF Invalid
  <2>2. i.t \in DOMAIN Active.exit_value => y \in X
    BY <1>4, <2>1
  <2>3. w \in Seq(X)
    <3> HIDE DEF y
    <3> QED BY <1>2, <2>2, Replaced
  <2>4. SetActive([Active EXCEPT !.exit_value = w]) /\ Executes("try_break") /\ Goes(i.to)
    BY <1>5 DEF TryBreak
  <2> QED BY <1>3, <2>3, <2>4
<1>6. CASE TryContinue
  <2> DEFINE y == [x EXCEPT !.v = -1]
             w == [Active.exit_value EXCEPT ![i.t] = y]
  <2>1. i.t \in DOMAIN Active.exit_value => y \in X
    BY <1>4
  <2>2. w \in Seq(X)
    <3> HIDE DEF y
    <3> QED BY <1>2, <2>1, Replaced
  <2>3. SetActive([Active EXCEPT !.exit_value = w]) /\ Executes("try_continue") /\ Goes(i.to)
    BY <1>6 DEF TryContinue
  <2> QED BY <1>3, <2>2, <2>3
<1>7. CASE TryReturn
  <2> DEFINE y == [valid |-> TRUE, v |-> i.n]
             w == [Active.exit_value EXCEPT ![i.t] = y]
  <2>1. y \in X
    BY <1>1
  <2>2. w \in Seq(X)
    <3> HIDE DEF y
    <3> QED BY <1>2, <2>1, Replaced
  <2>3. SetActive([Active EXCEPT !.exit_value = w]) /\ Executes("try_return") /\ Goes(i.to)
    BY <1>7 DEF TryReturn
  <2> QED BY <1>3, <2>2, <2>3
<1> QED BY <1>5, <1>6, <1>7

(* An instruction sets the handlers of the frame, and its exception value  *)
(* and exit value.                                                         *)
LEMMA SetsHandlers ==
    ASSUME NEW pos, NEW to \in Nat, NEW s \in Seq(Nat), NEW e \in Seq(Int),
           NEW x \in Seq([valid : BOOLEAN, v : Int]), Executing(pos), Goes(to),
           Len(e) = Len(Active.exception_value),
           SetActive([Active EXCEPT !.catch = s, !.exception_value = e, !.exit_value = x]),
           to \in DOMAIN Code(program, Pc.fn) =>
              /\ s = Handlers(Code(program, Pc.fn), to)
              /\ Code(program, Pc.fn)[to].calls = Instruction.calls
    PROVE  /\ Working(program, frames', activations')
           /\ UNCHANGED <<program, exception, failing, outcome, bypassed>>
<1> DEFINE f == [Active EXCEPT !.catch = s, !.exception_value = e, !.exit_value = x]
<1>1. Active \in Frame(program) /\ Active.fn = Pc.fn /\ Active.called /\ ~Active.skip
  BY ExecutingIs, Zenon
<1>2. f \in Frame(program) /\ f.fn = Pc.fn /\ f.called /\ ~f.skip /\ f.catch = s
  BY <1>1 DEF Frame
<1>3. SetActive(f)
  OBVIOUS
<1> HIDE DEF f
<1>4. to \in DOMAIN Code(program, Pc.fn) =>
         /\ f.catch = Handlers(Code(program, Pc.fn), to)
         /\ Code(program, Pc.fn)[to].calls = Instruction.calls
  BY <1>2
<1>5. Working(program, [frames EXCEPT ![ActiveAt(frames)] = f],
              [activations EXCEPT ![Len(activations)].at = to])
  BY <1>2, <1>4, LocalStep, Zenon
<1>6. frames' = [frames EXCEPT ![ActiveAt(frames)] = f]
  BY <1>3, Zenon DEF SetActive
<1>7. UNCHANGED <<program, exception, failing, outcome, bypassed>>
  BY <1>3, Zenon DEF SetActive, Same
<1>8. activations' = [activations EXCEPT ![Len(activations)].at = to]
  BY DEF Goes
<1> QED BY <1>5, <1>6, <1>7, <1>8

(* A try block is entered, and a try block or a catch block is left.       *)
LEMMA TrySteps ==
    ASSUME NEW pos, Executing(pos), exception \in Int, TryStart \/ TryEnd \/ Catch
    PROVE  /\ Working(program, frames', activations')
           /\ UNCHANGED <<program, exception, failing, outcome, bypassed>>
<1> DEFINE c == Code(program, Pc.fn)
           i == Instruction
           X == [valid : BOOLEAN, v : Int]
           h == Active.catch
<1>1. /\ i.to \in Nat /\ Pc.at + 1 \in Nat
      /\ i.op = "try_start" => Leads(c, Pc.at + 1, Append(i.within, Pc.at), i.calls)
      /\ i.op = "try_end" => i.within # <<>> /\ Leads(c, i.to, Front(i.within), i.calls)
      /\ i.op = "catch" =>
            /\ i.within # <<>>
            /\ Leads(c, Pc.at + 1, IF i.to = 0 THEN Front(i.within)
                                   ELSE Append(Front(i.within), Pc.at), i.calls)
  BY LeadsTo
<1>2. /\ Active \in Frame(program) /\ WellFormed(c) /\ Pc.at \in DOMAIN c /\ i = c[Pc.at]
      /\ h = Handlers(c, Pc.at)
  BY ExecutingIs, Zenon
<1>3. /\ h \in Seq(Nat) /\ Active.exception_value \in Seq(Int)
      /\ Active.exit_value \in Seq(X)
  BY <1>2, FrameIs
<1>4. i.within # <<>> => h # <<>>
  <2>1. i.within \in Seq(Nat) /\ Len(Handlers(c, Pc.at)) = Len(i.within)
    BY <1>2, InstructionIs, Zenon
  <2>2. Len(h) = Len(i.within)
    BY <1>2, <2>1
  <2> HIDE DEF h, i
  <2> QED BY <2>1, <2>2, <1>3
<1>5. CASE TryStart
  <2> DEFINE e == [Active.exception_value EXCEPT ![i.t] = 0]
             y == Invalid(0)
             x == [Active.exit_value EXCEPT ![i.t] = y]
             s == Append(h, i.to)
  <2>1. e \in Seq(Int) /\ Len(e) = Len(Active.exception_value)
    <3> DEFINE z == 0
    <3>1. z \in Int
      OBVIOUS
    <3> HIDE DEF z
    <3>2. [Active.exception_value EXCEPT ![i.t] = z] \in Seq(Int)
      BY <1>3, <3>1, Replaced
    <3>3. e \in Seq(Int)
      BY <3>2 DEF z
    <3>4. DOMAIN e = DOMAIN Active.exception_value
      OBVIOUS
    <3> HIDE DEF e
    <3> QED BY <1>3, <3>3, <3>4, SameLength, Zenon
  <2>2. x \in Seq(X)
    <3>1. y \in X
      BY DEF Invalid
    <3> HIDE DEF y
    <3> QED BY <1>3, <3>1, Replaced
  <2>3. s \in Seq(Nat)
    BY <1>1, <1>3
  <2>4. Executes("try_start") /\ Goes(Pc.at + 1)
        /\ SetActive([Active EXCEPT !.catch = s, !.exception_value = e, !.exit_value = x])
    BY <1>5 DEF TryStart, Advances
  <2>5. Pc.at + 1 \in DOMAIN c => s = Handlers(c, Pc.at + 1) /\ c[Pc.at + 1].calls = i.calls
    <3> SUFFICES ASSUME Pc.at + 1 \in DOMAIN c
                 PROVE  s = Handlers(c, Pc.at + 1) /\ c[Pc.at + 1].calls = i.calls
      OBVIOUS
    <3>1. c[Pc.at + 1].within = Append(c[Pc.at].within, Pc.at) /\ c[Pc.at + 1].calls = i.calls
      BY <1>1, <1>2, <2>4 DEF Leads, Executes
    <3>2. Handlers(c, Pc.at + 1) = Append(Handlers(c, Pc.at), c[Pc.at].to)
      BY <1>2, <3>1, HandlersAppend, Zenon
    <3> QED BY <1>2, <3>1, <3>2
  <2> HIDE DEF e, x, s
  <2> QED BY <1>1, <2>1, <2>2, <2>3, <2>4, <2>5, SetsHandlers
<1>6. CASE TryEnd
  <2> DEFINE s == Front(h)
  <2>1. Executes("try_end") /\ i.op = "try_end" /\ Goes(i.to)
        /\ SetActive([Active EXCEPT !.catch = s])
    BY <1>6 DEF TryEnd, Executes
  <2>2. s \in Seq(Nat)
    BY <1>1, <1>3, <1>4, <2>1, FrontIs
  <2>3. i.to \in DOMAIN c => s = Handlers(c, i.to) /\ c[i.to].calls = i.calls
    <3> SUFFICES ASSUME i.to \in DOMAIN c
                 PROVE  s = Handlers(c, i.to) /\ c[i.to].calls = i.calls
      OBVIOUS
    <3>1. /\ c[i.to].within = Front(c[Pc.at].within) /\ c[i.to].calls = i.calls
          /\ c[Pc.at].within # <<>>
      BY <1>1, <1>2, <2>1 DEF Leads
    <3>2. Handlers(c, i.to) = Front(Handlers(c, Pc.at))
      BY <1>2, <3>1, HandlersFront, Zenon
    <3> QED BY <1>2, <3>1, <3>2
  <2> HIDE DEF s
  <2>4. SetActive([Active EXCEPT !.catch = s, !.exception_value = Active.exception_value,
                                 !.exit_value = Active.exit_value])
    <3>1. [Active EXCEPT !.catch = s, !.exception_value = Active.exception_value,
                         !.exit_value = Active.exit_value] = [Active EXCEPT !.catch = s]
      BY <1>2 DEF Frame
    <3> QED BY <2>1, <3>1
  <2> QED BY <1>1, <1>3, <2>1, <2>2, <2>3, <2>4, SetsHandlers
<1>7. CASE Catch
  <2> DEFINE e == IF i.t = 0 THEN Active.exception_value
                  ELSE [Active.exception_value EXCEPT ![i.t] = exception]
             s == IF i.to = 0 THEN Front(h) ELSE [h EXCEPT ![Len(h)] = i.to]
  <2>1. Executes("catch") /\ i.op = "catch" /\ Goes(Pc.at + 1)
        /\ SetActive([Active EXCEPT !.exception_value = e, !.catch = s])
    BY <1>7 DEF Catch, Executes, Advances
  <2>2. s \in Seq(Nat)
    <3>1. Front(h) \in Seq(Nat)
      BY <1>1, <1>3, <1>4, <2>1, FrontIs
    <3>2. [h EXCEPT ![Len(h)] = i.to] \in Seq(Nat)
      BY <1>1, <1>3, Replaced
    <3> QED BY <3>1, <3>2
  <2>3. e \in Seq(Int) /\ Len(e) = Len(Active.exception_value)
    <3> DEFINE y == [Active.exception_value EXCEPT ![i.t] = exception]
    <3>1. y \in Seq(Int)
      BY <1>3, Replaced
    <3>2. DOMAIN y = DOMAIN Active.exception_value
      OBVIOUS
    <3>3. e = IF i.t = 0 THEN Active.exception_value ELSE y
      OBVIOUS
    <3> HIDE DEF y
    <3>4. Len(y) = Len(Active.exception_value)
      BY <1>3, <3>1, <3>2, SameLength, Zenon
    <3> HIDE DEF e
    <3> QED BY <1>3, <3>1, <3>3, <3>4
  <2>4. Pc.at + 1 \in DOMAIN c => s = Handlers(c, Pc.at + 1) /\ c[Pc.at + 1].calls = i.calls
    <3> SUFFICES ASSUME Pc.at + 1 \in DOMAIN c
                 PROVE  s = Handlers(c, Pc.at + 1) /\ c[Pc.at + 1].calls = i.calls
      OBVIOUS
    <3>1. /\ c[Pc.at + 1].within = IF i.to = 0 THEN Front(c[Pc.at].within)
                                   ELSE Append(Front(c[Pc.at].within), Pc.at)
          /\ c[Pc.at + 1].calls = i.calls /\ c[Pc.at].within # <<>>
      BY <1>1, <1>2, <2>1 DEF Leads
    <3>2. CASE i.to = 0
      <4>1. c[Pc.at + 1].within = Front(c[Pc.at].within)
        BY <3>1, <3>2
      <4>2. Handlers(c, Pc.at + 1) = Front(Handlers(c, Pc.at))
        BY <1>2, <3>1, <4>1, HandlersFront, Zenon
      <4> QED BY <1>2, <3>1, <3>2, <4>2
    <3>3. CASE i.to # 0
      <4>1. c[Pc.at + 1].within = Append(Front(c[Pc.at].within), Pc.at)
        BY <3>1, <3>3
      <4>2. Handlers(c, Pc.at + 1)
               = [Handlers(c, Pc.at) EXCEPT ![Len(Handlers(c, Pc.at))] = c[Pc.at].to]
        <5>1. /\ WellFormed(c) /\ Pc.at \in DOMAIN c /\ Pc.at + 1 \in DOMAIN c
              /\ c[Pc.at].within # <<>>
          BY <1>2, <3>1
        <5> HIDE DEF c, e, s, h, i
        <5> QED BY <5>1, <4>1, HandlersReplaced
      <4>3. s = [h EXCEPT ![Len(h)] = i.to]
        BY <3>3
      <4>4. [h EXCEPT ![Len(h)] = i.to] = Handlers(c, Pc.at + 1)
        BY <1>2, <4>2, Zenon
      <4> QED BY <3>1, <4>3, <4>4
    <3> QED BY <3>2, <3>3
  <2> HIDE DEF e, s
  <2>5. SetActive([Active EXCEPT !.catch = s, !.exception_value = e,
                                 !.exit_value = Active.exit_value])
    <3>1. [Active EXCEPT !.catch = s, !.exception_value = e, !.exit_value = Active.exit_value]
             = [Active EXCEPT !.exception_value = e, !.catch = s]
      BY <1>2 DEF Frame
    <3> QED BY <2>1, <3>1
  <2> QED BY <1>1, <1>3, <2>1, <2>2, <2>3, <2>4, <2>5, SetsHandlers
<1> QED BY <1>5, <1>6, <1>7

(* A frame is prepared, and its function is called.                        *)
LEMMA CallSteps ==
    ASSUME NEW pos, Executing(pos), FunctionFrame \/ FunctionCall
    PROVE  /\ Working(program, frames', activations')
           /\ UNCHANGED <<program, exception, failing, outcome, bypassed>>
<1> DEFINE c == Code(program, Pc.fn)
           i == Instruction
<1>1. program \in Compiled /\ activations \in Seq(Activation)
  BY ExecutingIs, Zenon
<1>2. CASE FunctionFrame
  <2>1. /\ i.op = "lambda_frame" => Leads(c, Pc.at + 1, i.within, Append(i.calls, "lambda"))
        /\ i.op = "native_frame" => Leads(c, Pc.at + 1, i.within, Append(i.calls, "native"))
        /\ i.op = "apply_frame" => Leads(c, Pc.at + 1, i.within, Append(i.calls, "apply"))
    BY LeadsTo
  <2>2. activations' = [activations EXCEPT ![Len(activations)].at = Pc.at + 1]
    BY <1>2 DEF FunctionFrame, Advances, Goes
  <2>3. UNCHANGED <<program, exception, failing, outcome, bypassed>>
    BY <1>2 DEF FunctionFrame, Same
  <2>4. CASE Executes("lambda_frame") /\ frames' = Append(frames, NewFrame(2, FALSE))
    <3> DEFINE f == NewFrame(2, FALSE)
    <3>1. f \in Frame(program) /\ Prepared(f, "lambda")
      <4>1. 2 \in 1..2 /\ FALSE \in BOOLEAN
        OBVIOUS
      <4>2. /\ f \in Frame(program) /\ f.fn = 2 /\ f.called = FALSE /\ ~f.skip
            /\ f.catch = <<>>
        BY <1>1, <4>1, FramesAre, Zenon
      <4> HIDE DEF f
      <4> QED BY <4>2 DEF Prepared, Fresh, FunctionOf
    <3>2. Leads(c, Pc.at + 1, i.within, Append(i.calls, "lambda"))
      BY <2>1, <2>4 DEF Executes
    <3> HIDE DEF f
    <3>3. Working(program, Append(frames, f),
                  [activations EXCEPT ![Len(activations)].at = Pc.at + 1])
      BY <3>1, <3>2, FrameStep
    <3> QED BY <2>2, <2>3, <2>4, <3>3 DEF f
  <2>5. CASE Executes("native_frame") /\ frames' = Append(frames, NativeFrame(Callback))
    <3> DEFINE f == NativeFrame(Callback)
    <3>1. f \in Frame(program) /\ Prepared(f, "native")
      BY <1>1, FramesAre DEF Prepared, Fresh, FunctionOf
    <3>2. Leads(c, Pc.at + 1, i.within, Append(i.calls, "native"))
      BY <2>1, <2>5 DEF Executes
    <3> HIDE DEF f
    <3>3. Working(program, Append(frames, f),
                  [activations EXCEPT ![Len(activations)].at = Pc.at + 1])
      BY <3>1, <3>2, FrameStep
    <3> QED BY <2>2, <2>3, <2>5, <3>3 DEF f
  <2>6. CASE Executes("apply_frame") /\ frames' = Append(frames, NativeFrame(Apply))
    <3> DEFINE f == NativeFrame(Apply)
    <3>1. f \in Frame(program) /\ Prepared(f, "apply")
      BY <1>1, FramesAre DEF Prepared, Fresh, FunctionOf
    <3>2. Leads(c, Pc.at + 1, i.within, Append(i.calls, "apply"))
      BY <2>1, <2>6 DEF Executes
    <3> HIDE DEF f
    <3>3. Working(program, Append(frames, f),
                  [activations EXCEPT ![Len(activations)].at = Pc.at + 1])
      BY <3>1, <3>2, FrameStep
    <3> QED BY <2>2, <2>3, <2>6, <3>3 DEF f
  <2> QED BY <1>2, <2>4, <2>5, <2>6 DEF FunctionFrame
<1>3. CASE FunctionCall
  <2>1. i.op = "function_call"
    BY <1>3 DEF FunctionCall, Executes
  <2>2. UNCHANGED <<program, exception, failing, outcome, bypassed>>
    BY <1>3 DEF FunctionCall, Same
  <2>3. CASE Top.fn = 2
    <3>1. Working(program, [frames EXCEPT ![Len(frames)].called = TRUE],
                  Append(activations, [fn |-> 2, at |-> 1]))
      BY <2>1, <2>3, LambdaCallStep
    <3>2. /\ frames' = [frames EXCEPT ![Len(frames)].called = TRUE]
          /\ activations' = Append(activations, [fn |-> 2, at |-> 1])
      BY <1>3, <2>3 DEF FunctionCall
    <3> QED BY <2>2, <3>1, <3>2
  <2>4. CASE Top.fn # 2
    <3>1. Working(program,
                  Append([frames EXCEPT ![Len(frames)].skip = (Top.fn = Apply)],
                         NewFrame(2, TRUE)),
                  activations \o <<Native, [fn |-> 2, at |-> 1]>>)
      BY <2>1, NativeCallStep
    <3>2. /\ frames' = Append([frames EXCEPT ![Len(frames)].skip = (Top.fn = Apply)],
                              NewFrame(2, TRUE))
          /\ activations' = activations \o <<Native, [fn |-> 2, at |-> 1]>>
      BY <1>3, <2>4 DEF FunctionCall
    <3> QED BY <2>2, <3>1, <3>2, Zenon
  <2> QED BY <2>3, <2>4
<1> QED BY <1>2, <1>3

(* The interpreter returns a value, goes on after a "finally", or throws   *)
(* again what it had caught.                                               *)
LEMMA ReturnSteps ==
    ASSUME NEW pos, Executing(pos), exception \in Int, failing \in BOOLEAN, outcome = <<>>,
           ReturnStatement \/ Finalize \/ ThrowStatement
    PROVE  /\ UNCHANGED <<program, bypassed>> /\ exception' \in Int /\ failing' \in BOOLEAN
           /\ IF failing' THEN Failed(program, frames', activations')
              ELSE Working(program, frames', activations')
           /\ outcome' # <<>> => activations' = <<>>
<1> DEFINE c == Code(program, Pc.fn)
           i == Instruction
<1>1. /\ i.to \in Nat /\ i.alt \in Nat /\ i.n \in Int /\ Pc.at + 1 \in Nat
      /\ i.op = "finally" => /\ Leads(c, Pc.at + 1, i.within, i.calls)
                             /\ Leads(c, i.to, i.within, i.calls)
                             /\ Leads(c, i.alt, i.within, i.calls)
                             /\ i.t \in 1..code[Pc.fn].tries
      /\ i.op \in {"finally", "return"} => i.calls = <<>>
  BY LeadsTo
<1>2. program \in Compiled /\ Active \in Frame(program) /\ Active.fn = Pc.fn /\ Pc.fn \in 1..2
      /\ ~failing
  BY ExecutingIs, Zenon
<1>3. ASSUME NEW v, ReturnsValue(v), i.calls = <<>>
      PROVE  /\ UNCHANGED <<program, bypassed>> /\ exception' \in Int /\ failing' \in BOOLEAN
             /\ IF failing' THEN Failed(program, frames', activations')
                ELSE Working(program, frames', activations')
             /\ outcome' # <<>> => activations' = <<>>
  <2>1. Working(program, frames', activations') /\ (outcome' # <<>> => activations' = <<>>)
    BY <1>3, ReturnStep
  <2>2. UNCHANGED <<program, bypassed, exception, failing>>
    BY <1>3 DEF ReturnsValue, Same
  <2> QED BY <1>2, <2>1, <2>2
<1>4. ASSUME NEW e \in Int, exception' = e, failing' = TRUE,
             UNCHANGED <<program, frames, activations, outcome, bypassed>>
      PROVE  /\ UNCHANGED <<program, bypassed>> /\ exception' \in Int /\ failing' \in BOOLEAN
             /\ IF failing' THEN Failed(program, frames', activations')
                ELSE Working(program, frames', activations')
             /\ outcome' # <<>> => activations' = <<>>
  <2> DEFINE n == Len(activations)
  <2>1. /\ frames \in Seq(Frame(program)) /\ n \in 1 .. n /\ activations \in Seq(Activation)
        /\ Stack(program, frames, activations, pos) /\ activations # <<>>
        /\ ActiveAt(frames) = pos[n] /\ ActiveAt(frames) \in Nat
        /\ Pc = activations[n] /\ Sits(program, Pc)
    BY ExecutingIs, Zenon
  <2>2. Prepares(program, frames, activations[n], pos[n])
    BY Zenon DEF Executing
  <2>3. Quiet(program, frames, activations[n], pos[n])
    <3>1. activations[n].fn \in 1..2 /\ Sits(program, activations[n]) /\ pos[n] \in Nat
      BY <1>2, <2>1
    <3> QED BY <1>2, <2>1, <2>2, <3>1, PreparesIsQuiet, Zenon
  <2>4. pos \in Places(frames, activations)
    BY <2>1, Zenon DEF Stack
  <2>5. Failed(program, frames, activations)
    BY <2>1, <2>3, <2>4, Zenon DEF Failed
  <2> QED BY <1>4, <2>5
<1>5. CASE ReturnStatement
  BY <1>1, <1>3, <1>5 DEF ReturnStatement, Executes
<1>6. CASE ThrowStatement
  BY <1>1, <1>4, <1>6 DEF ThrowStatement, Same
<1>7. CASE Finalize
  <2> DEFINE e == Active.exception_value[i.t]
             x == Active.exit_value[i.t]
  <2>1. i.op = "finally" /\ Executes("finally")
    BY <1>7 DEF Finalize, Executes
  <2>2. e \in Int
    <3>1. Active.exception_value \in Seq(Int)
          /\ Len(Active.exception_value) = program.code[Pc.fn].tries
      BY <1>2, FrameIs
    <3> QED BY <1>1, <2>1, <3>1 DEF code
  <2>3. CASE e # 0
    <3>1. /\ exception' = e /\ failing' = TRUE
          /\ UNCHANGED <<program, frames, activations, outcome, bypassed>>
      BY <1>7, <2>3 DEF Finalize, Same
    <3> HIDE DEF e
    <3> QED BY <1>4, <2>2, <3>1
  <2>4. CASE e = 0 /\ x.valid
    <3>1. ReturnsValue(x.v)
      BY <1>7, <2>4 DEF Finalize
    <3> HIDE DEF x
    <3> QED BY <1>1, <1>3, <2>1, <3>1
  <2>5. CASE e = 0 /\ ~x.valid
    <3>1. /\ Goes(IF x.v = 0 THEN Pc.at + 1 ELSE IF x.v > 0 THEN i.to ELSE i.alt)
          /\ UNCHANGED log /\ NoCall /\ Same
      BY <1>7, <2>5 DEF Finalize
    <3>2. Goes(Pc.at + 1) \/ Goes(i.to) \/ Goes(i.alt)
      BY <3>1, Zenon
    <3>3. ASSUME NEW to \in Nat, Goes(to), Leads(c, to, i.within, i.calls)
          PROVE  Working(program, frames', activations')
      BY <3>1, <3>3, JumpStep DEF Goes, NoCall
    <3>4. Working(program, frames', activations')
      BY <1>1, <2>1, <3>2, <3>3
    <3> QED BY <1>2, <3>1, <3>4 DEF NoCall, Same
  <2> QED BY <2>3, <2>4, <2>5
<1> QED BY <1>5, <1>6, <1>7

(* An exception looks for its handler.                                     *)
LEMMA UnwindStep ==
    ASSUME program \in Compiled, Failed(program, frames, activations), Unwind,
           outcome = <<>>
    PROVE  /\ UNCHANGED <<program, exception, bypassed>> /\ failing' \in BOOLEAN
           /\ IF failing' THEN Failed(program, frames', activations')
              ELSE Working(program, frames', activations')
           /\ outcome' # <<>> => activations' = <<>>
<1> DEFINE n == Len(activations)
           a == ActiveAt(frames)
           tries == {i \in a..Len(frames) : frames[i].catch # <<>>}
           h == Max(tries)
<1>1. PICK pos \in Places(frames, activations) :
         /\ Stack(program, frames, activations, pos) /\ activations # <<>>
         /\ Quiet(program, frames, activations[n], pos[n])
  BY DEF Failed
<1>2. /\ frames \in Seq(Frame(program)) /\ a = pos[n] /\ a \in 2 .. Len(frames)
      /\ \A i \in a + 1 .. Len(frames) : Fresh(frames[i])
  <2>1. /\ frames \in Seq(Frame(program)) /\ ActiveAt(frames) = pos[n]
        /\ pos[n] \in 2 .. Len(frames)
        /\ \A i \in pos[n] + 1 .. Len(frames) : Fresh(frames[i])
    BY <1>1, TopIs, Zenon
  <2> QED BY <2>1
<1>3. a \in Nat /\ Len(frames) \in Nat /\ a >= 2 /\ a <= Len(frames)
  <2>1. Len(frames) \in Nat
    BY <1>2
  <2> HIDE DEF a
  <2> QED BY <1>2, <2>1
<1>4. UNCHANGED <<program, exception, bypassed>>
  BY DEF Unwind, Same
<1>5. CASE tries # {}
  <2>1. \A i \in tries : i = a
    <3> SUFFICES ASSUME NEW i \in a .. Len(frames), frames[i].catch # <<>>
                 PROVE  i = a
      OBVIOUS
    <3> HIDE DEF a
    <3>1. i \notin a + 1 .. Len(frames)
      BY <1>2 DEF Fresh
    <3> QED BY <1>3, <3>1
  <2>2. a \in tries
    BY <1>5, <2>1
  <2>3. h = a
    <3>1. tries \subseteq Int
      BY <1>3
    <3>2. \A i \in tries : i <= a
      BY <1>3, <2>1
    <3> HIDE DEF tries
    <3> QED BY <2>2, <3>1, <3>2, MaxIs
  <2>4. frames[pos[n]].catch # <<>>
    BY <1>2, <2>2
  <2>5. /\ frames' = SubSeq(frames, 1, h)
        /\ activations' = [activations EXCEPT ![n] =
                              [fn |-> frames[h].fn, at |-> Last(frames[h].catch)]]
        /\ failing' = FALSE /\ UNCHANGED outcome
    BY <1>5 DEF Unwind
  <2>6. h = pos[n]
    BY <1>2, <2>3
  <2>7. Working(program, SubSeq(frames, 1, pos[n]),
                [activations EXCEPT ![n] = [fn |-> frames[pos[n]].fn,
                                            at |-> Last(frames[pos[n]].catch)]])
    BY <1>1, <2>4, CaughtStep
  <2> HIDE DEF h
  <2> QED BY <1>4, <2>5, <2>6, <2>7
<1>6. CASE tries = {}
  <2>1. frames' = SubSeq(frames, 1, IF a = 1 THEN 1 ELSE a - 1) /\ ReturnsError
    BY <1>6 DEF Unwind
  <2> HIDE DEF a, tries
  <2>2. frames' = SubSeq(frames, 1, a - 1)
    BY <1>3, <2>1
  <2> DEFINE fs2 == SubSeq(frames, 1, a - 1)
  <2>3. /\ fs2 \in Seq(Frame(program)) /\ Len(fs2) = a - 1
        /\ \A i \in 1 .. a - 1 : fs2[i] = frames[i]
    <3>1. a - 1 \in 0 .. Len(frames)
      BY <1>3
    <3> QED BY <1>2, <3>1, PrefixIs
  <2> HIDE DEF fs2
  <2>4. Len(fs2) = pos[n] - 1 /\ \A i \in 1 .. Len(fs2) : fs2[i] = frames[i]
    BY <1>2, <2>3
  <2>5. IF Rest(activations) = <<>> THEN Working(program, fs2, <<>>)
        ELSE Failed(program, fs2, Rest(activations))
    BY <1>1, <2>3, <2>4, ErrorStep
  <2>6. /\ activations' = Rest(activations) /\ failing' = (Rest(activations) # <<>>)
        /\ Rest(activations) # <<>> => outcome' = <<>>
    BY <2>1 DEF ReturnsError, Rest, CalledBack
  <2>7. frames' = fs2
    BY <2>2 DEF fs2
  <2> QED BY <1>4, <2>5, <2>6, <2>7
<1> QED BY <1>5, <1>6

-----------------------------------------------------------------------------
(* The invariant.                                                          *)

(* No step changes the program, or takes back that an error was returned   *)
(* without looking for a handler.                                          *)
LEMMA ProgramStays ==
    ASSUME Next
    PROVE  program' = program /\ bypassed' \in {bypassed, TRUE}
<1>1. ASSUME NEW v, ReturnsValue(v)
      PROVE  program' = program /\ bypassed' = bypassed
  BY <1>1 DEF ReturnsValue, Same
<1>2. ASSUME NEW f, SetActive(f)
      PROVE  program' = program /\ bypassed' = bypassed
  BY <1>2, Zenon DEF SetActive, Same
<1>3. CASE Jump \/ ConditionalJump \/ Effect
  BY <1>3 DEF Jump, ConditionalJump, Effect, NoCall, Same
<1>4. CASE LoopVariable
  BY <1>2, <1>4, Zenon DEF LoopVariable, NoCall, Same
<1>5. CASE TryStart \/ TryEnd
  BY <1>2, <1>5, Zenon DEF TryStart, TryEnd
<1>6. CASE TryBreak \/ TryContinue \/ TryReturn \/ Catch
  BY <1>2, <1>6, Zenon DEF TryBreak, TryContinue, TryReturn, Catch
<1>7. CASE FunctionFrame \/ FunctionCall
  BY <1>7 DEF FunctionFrame, FunctionCall, Same
<1>8. CASE ReturnStatement
  BY <1>1, <1>8 DEF ReturnStatement
<1>9. CASE Finalize
  BY <1>1, <1>9 DEF Finalize, NoCall, Same
<1>10. CASE ThrowStatement \/ Unwind
  BY <1>10 DEF ThrowStatement, Unwind, Same
<1>11. CASE MethodFrame
  BY <1>11 DEF MethodFrame, Same
<1>12. CASE Stray \/ Done
  BY <1>12 DEF Stray, Done, vars
<1> QED BY <1>3, <1>4, <1>5, <1>6, <1>7, <1>8, <1>9, <1>10, <1>11, <1>12 DEF Next

(* Initially the first function runs.                                      *)
LEMMA InitIInv == Init => IInv
<1> SUFFICES ASSUME Init
             PROVE  IInv
  OBVIOUS
<1> DEFINE a == [fn |-> 1, at |-> 1]
           f == NewFrame(1, TRUE)
           q == [j \in {1} |-> 2]
<1>1. program \in Compiled /\ bypassed = FALSE /\ exception = 0 /\ failing = FALSE
      /\ frames = <<GlobalFrame, f>> /\ activations = <<a>>
  BY DEF Init
<1>2. f \in Frame(program) /\ f.fn = 1 /\ f.called /\ ~f.skip /\ f.catch = <<>>
  <2>1. 1 \in 1..2 /\ TRUE \in BOOLEAN
    OBVIOUS
  <2>2. f \in Frame(program) /\ f.fn = 1 /\ f.called = TRUE /\ ~f.skip /\ f.catch = <<>>
    BY <1>1, <2>1, FramesAre, Zenon
  <2> QED BY <2>2
<1>3. GlobalFrame \in Frame(program)
  BY <1>1, FramesAre, Zenon
<1> HIDE DEF f
<1>4. /\ frames \in Seq(Frame(program)) /\ frames # <<>> /\ frames[1] = GlobalFrame
      /\ Len(frames) = 2 /\ frames[2] = f
  BY <1>1, <1>2, <1>3
<1>5. /\ activations \in Seq(Activation) /\ activations # <<>> /\ Len(activations) = 1
      /\ activations[1] = a /\ DOMAIN activations = {1}
  <2>1. a \in Activation
    BY DEF Activation
  <2> HIDE DEF a
  <2> QED BY <1>1, <2>1
<1>6. Runs(program, frames[2], a) /\ Prepares(program, frames, a, 2)
  <2>1. 1 \in 1..2 /\ 2 \in Nat
    OBVIOUS
  <2>2. frames[2].fn = 1 /\ frames[2].called /\ ~ frames[2].skip /\ frames[2].catch = <<>>
    BY <1>2, <1>4
  <2> QED BY <1>1, <1>4, <2>1, <2>2, StartsFunction
<1>7. q \in Places(frames, activations) /\ q[1] = 2
  BY <1>4, <1>5 DEF Places
<1> HIDE DEF q
<1>8. Ordered(activations, q)
  BY <1>5, <1>7 DEF Ordered
<1>9. Stack(program, frames, activations, q)
  <2>1. ASSUME NEW j \in DOMAIN activations
        PROVE  /\ activations[j].fn # 0 => Runs(program, frames[q[j]], activations[j])
               /\ activations[j].fn # 0 /\ j < Len(activations) =>
                     Suspended(program, frames, activations[j], q[j], q[j + 1])
               /\ activations[j].fn = 0 => Between(frames, activations, q, j)
    BY <1>5, <1>6, <1>7
  <2> QED BY <1>4, <1>5, <1>7, <1>8, <2>1, Zenon DEF Stack
<1>10. Working(program, frames, activations)
  <2>1. Prepares(program, frames, activations[Len(activations)], q[Len(activations)])
    BY <1>5, <1>6, <1>7
  <2> QED BY <1>5, <1>7, <1>9, <2>1, Zenon DEF Working
<1>11. ~Going => code[1].error \/ code[2].error
  BY DEF Init, Going
<1>12. exception \in Int /\ failing \in BOOLEAN /\ ~failing /\ bypassed \in BOOLEAN
  <2>1. exception = 0 /\ failing = FALSE /\ bypassed = FALSE
    BY DEF Init
  <2>2. exception \in Int
    BY <2>1
  <2>3. failing \in BOOLEAN /\ ~failing /\ bypassed \in BOOLEAN
    BY <2>1
  <2> QED BY <2>2, <2>3
<1> QED BY <1>1, <1>10, <1>11, <1>12, Zenon DEF IInv

(* What is known when an instruction is executed.                          *)
LEMMA ExecutesIs ==
    ASSUME IInv, ~bypassed, NEW op, Executes(op)
    PROVE  exception \in Int /\ failing \in BOOLEAN /\ ~failing /\ \E pos : Executing(pos)
<1>1. /\ program \in Compiled /\ exception \in Int /\ failing \in BOOLEAN
      /\ ~failing /\ activations # <<>> /\ Interpreting /\ Valid
  BY DEF IInv, Executes, Interpreting
<1>2. Working(program, frames, activations)
  BY <1>1 DEF IInv
<1>3. PICK pos \in Places(frames, activations) :
         /\ Stack(program, frames, activations, pos)
         /\ Prepares(program, frames, activations[Len(activations)], pos[Len(activations)])
  BY <1>1, <1>2 DEF Working
<1>4. Executing(pos)
  BY <1>1, <1>3, Zenon DEF Executing
<1> QED BY <1>1, <1>4

(* Every step keeps the invariant.                                         *)
LEMMA NextIInv == IInv /\ [Next]_vars => IInv'
<1> SUFFICES ASSUME IInv, [Next]_vars
             PROVE  IInv'
  OBVIOUS
<1>1. program \in Compiled /\ bypassed \in BOOLEAN
  BY DEF IInv
<1>2. CASE UNCHANGED vars
  <2>1. UNCHANGED <<program, frames, activations, exception, failing, outcome, bypassed>>
    BY <1>2 DEF vars
  <2> QED BY <2>1 DEF IInv, Going, code
<1>3. CASE Next /\ bypassed'
  <2>1. program' = program
    BY <1>3, ProgramStays
  <2> QED BY <1>1, <1>3, <2>1, ProgramStays DEF IInv
<1>4. CASE Next /\ ~bypassed'
  <2>1. program' = program /\ ~bypassed /\ bypassed' = bypassed
    BY <1>1, <1>4, ProgramStays
  <2>2. exception \in Int /\ failing \in BOOLEAN
    BY <2>1 DEF IInv
  <2>3. ASSUME UNCHANGED <<program, exception, failing, outcome, bypassed>>,
               Working(program, frames', activations'), ~failing, Going
        PROVE  IInv'
    BY <1>1, <2>1, <2>2, <2>3 DEF IInv, Going, code
  <2>4. ASSUME exception' \in Int, failing' \in BOOLEAN,
               IF failing' THEN Failed(program, frames', activations')
               ELSE Working(program, frames', activations'),
               outcome' # <<>> => activations' = <<>>
        PROVE  IInv'
    BY <1>1, <2>1, <2>4 DEF IInv, Going, code
  <2>5. CASE Jump \/ ConditionalJump \/ Effect
    <3>1. PICK pos : Executing(pos)
      BY <2>1, <2>5, ExecutesIs DEF Jump, ConditionalJump, Effect
    <3>2. ~failing
      BY <2>1, <2>5, ExecutesIs DEF Jump, ConditionalJump, Effect
    <3>3. /\ UNCHANGED <<program, exception, failing, outcome, bypassed>> /\ Going
      BY <2>5 DEF Jump, ConditionalJump, Effect, NoCall, Same
    <3> QED BY <2>3, <2>5, <3>1, <3>2, <3>3, Jumps
  <2>6. CASE LoopVariable
    <3>1. Going /\ (Executes("init") \/ Executes("update") \/ Executes("cond_jump"))
      BY <2>6 DEF LoopVariable
    <3>2. ~failing /\ \E pos : Executing(pos)
      BY <2>1, <3>1, ExecutesIs
    <3> QED BY <2>3, <2>6, <3>1, <3>2, LoopSteps
  <2>7. CASE TryBreak \/ TryContinue \/ TryReturn
    <3>1. Going /\ (Executes("try_break") \/ Executes("try_continue") \/ Executes("try_return"))
      BY <2>7 DEF TryBreak, TryContinue, TryReturn
    <3>2. ~failing /\ \E pos : Executing(pos)
      BY <2>1, <3>1, ExecutesIs
    <3> QED BY <2>3, <2>7, <3>1, <3>2, ExitSteps
  <2>8. CASE TryStart \/ TryEnd \/ Catch
    <3>1. Going /\ (Executes("try_start") \/ Executes("try_end") \/ Executes("catch"))
      BY <2>8 DEF TryStart, TryEnd, Catch
    <3>2. ~failing /\ \E pos : Executing(pos)
      BY <2>1, <3>1, ExecutesIs
    <3> QED BY <2>2, <2>3, <2>8, <3>1, <3>2, TrySteps
  <2>9. CASE FunctionFrame \/ FunctionCall
    <3>1. Going /\ \/ Executes("lambda_frame") \/ Executes("native_frame")
                   \/ Executes("apply_frame") \/ Executes("function_call")
      BY <2>9 DEF FunctionFrame, FunctionCall
    <3>2. ~failing /\ \E pos : Executing(pos)
      BY <2>1, <3>1, ExecutesIs
    <3> QED BY <2>3, <2>9, <3>1, <3>2, CallSteps
  <2>10. CASE ReturnStatement \/ Finalize \/ ThrowStatement
    <3>1. Going /\ (Executes("return") \/ Executes("finally") \/ Executes("throw"))
      BY <2>10 DEF ReturnStatement, Finalize, ThrowStatement
    <3>2. PICK pos : Executing(pos)
      BY <2>1, <3>1, ExecutesIs
    <3> QED BY <2>2, <2>4, <2>10, <3>1, <3>2, ReturnSteps DEF Going
  <2>11. CASE Unwind
    <3>1. Failed(program, frames, activations) /\ outcome = <<>>
      BY <2>1, <2>11 DEF IInv, Unwind, Going
    <3> QED BY <1>1, <2>2, <2>4, <2>11, <3>1, UnwindStep
  <2>12. CASE MethodFrame
    BY <1>4, <2>12 DEF MethodFrame
  <2>13. CASE Stray \/ Done
    <3>1. UNCHANGED vars
      BY <2>13 DEF Stray, Done
    <3> QED BY <1>2, <3>1
  <2> QED BY <1>4, <2>5, <2>6, <2>7, <2>8, <2>9, <2>10, <2>11, <2>12, <2>13 DEF Next
<1> QED BY <1>1, <1>2, <1>3, <1>4

(* The frames match the code, by the invariant.                            *)
LEMMA IInvFramesMatch == IInv => FramesMatch
<1> SUFFICES ASSUME IInv
             PROVE  FramesMatch
  OBVIOUS
<1>1. ASSUME Interpreting, Valid, ~bypassed
      PROVE  /\ Active.fn = Pc.fn
             /\ Active.catch = Handlers(code[Pc.fn].code, Pc.at)
             /\ Len(frames) = ActiveAt(frames) + Len(Instruction.calls)
             /\ \A k \in DOMAIN Instruction.calls :
                   frames[ActiveAt(frames) + k].fn = FunctionOf(Instruction.calls[k])
  <2>1. Executes(Instruction.op)
    BY <1>1 DEF Executes
  <2>2. PICK pos : Executing(pos)
    BY <1>1, <2>1, ExecutesIs
  <2>3. /\ Active.fn = Pc.fn /\ Active.catch = Handlers(Code(program, Pc.fn), Pc.at)
        /\ code[Pc.fn].code = Code(program, Pc.fn)
        /\ Len(frames) = ActiveAt(frames) + Len(Instruction.calls)
        /\ Waiting(frames, ActiveAt(frames), Instruction.calls)
    BY <2>2, ExecutingIs, Zenon
  <2> QED BY <2>3 DEF Waiting, Prepared
<1>2. ASSUME Sound, ~Going
      PROVE  frames = <<GlobalFrame>>
  <2>1. activations = <<>> /\ ~bypassed
    BY <1>2 DEF IInv, Sound
  <2>2. IF failing THEN Failed(program, frames, activations)
        ELSE Working(program, frames, activations)
    BY <2>1 DEF IInv
  <2>3. Working(program, frames, activations)
    BY <2>1, <2>2 DEF Failed
  <2> QED BY <2>1, <2>3 DEF Working
<1> QED BY <1>1, <1>2 DEF FramesMatch

(* For every program, of any two functions whose code is well-formed, and  *)
(* for calls of any depth: while an instruction is executed, the active    *)
(* frame is that of the function that runs, its chain of handlers is that  *)
(* of the try blocks that the instruction lies in, and the frames above it *)
(* are those of the calls that are being prepared; when the host gets the  *)
(* result, all frames but the global one have been freed.  This is about   *)
(* njs_vmcode_interpreter(), its "error" label and njs_vm_scopes_restore().*)
THEOREM FramesMatchTheorem == Spec => []FramesMatch
<1>1. Init => IInv
  BY InitIInv
<1>2. IInv /\ [Next]_vars => IInv'
  BY NextIInv
<1>3. IInv => FramesMatch
  BY IInvFramesMatch
<1> QED BY <1>1, <1>2, <1>3, PTL DEF Spec

=============================================================================
