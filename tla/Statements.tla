----------------------------- MODULE Statements -----------------------------
(***************************************************************************)
(* What a function does that is built from statements that may complete    *)
(* abruptly: chapter 12 of ECMAScript 5.1, without code, jumps or frames.  *)
(* This is what the generator and the interpreter of njs shall implement.  *)
(*                                                                         *)
(* A statement is a record; "step" stands for whatever only has an effect. *)
(* A loop does its body twice, unless the body ends it; the body of an     *)
(* "if" is done if fewer than n steps were done before.                    *)
(***************************************************************************)
EXTENDS Naturals, Sequences

CONSTANT None

Step(n)            == [k |-> "step", n |-> n]
Throw(n)           == [k |-> "throw", n |-> n]
Return(n)          == [k |-> "return", n |-> n]
Break(label)       == [k |-> "break", label |-> label]
Continue(label)    == [k |-> "continue", label |-> label]
Both(s, t)         == [k |-> "both", first |-> s, second |-> t]
Block(label, body) == [k |-> "block", label |-> label, body |-> body]
For(label, body)   == [k |-> "for", label |-> label, body |-> body]
If(n, body)        == [k |-> "if", n |-> n, body |-> body]
Try(body, catch, finally) ==
    [k |-> "try", body |-> body, catch |-> catch, finally |-> finally]

(* A call of the program's second function: directly, through a native     *)
(* function that calls it back, with Function.prototype.call(), or of a    *)
(* method that is looked up by a symbol and is not a function.  arg, if    *)
(* not None, is a step, a throw or a call made to evaluate the arguments.  *)
Call(how, arg) == [k |-> "call", how |-> how, arg |-> arg]
TypeError      == 99
Iterations     == 2

(* What a statement did: the steps, how it completed, and whether a        *)
(* "return" that was under way was given up for something else.            *)
Completes(log, how, v, lost) == [log |-> log, how |-> how, v |-> v, lost |-> lost]
Normally(log, lost)          == Completes(log, "normal", 0, lost)

RECURSIVE Run(_, _, _, _), Loop(_, _, _, _, _)

(* s, in a program whose second function is f, after log.                  *)
Run(s, f, log, lost) ==
    CASE s.k = "step" -> Normally(Append(log, s.n), lost)
      [] s.k \in {"throw", "return"} -> Completes(log, s.k, s.n, lost)
      [] s.k \in {"break", "continue"} -> Completes(log, s.k, s.label, lost)
      [] s.k = "both" ->
            LET r == Run(s.first, f, log, lost)
            IN  IF r.how # "normal" THEN r ELSE Run(s.second, f, r.log, r.lost)
      [] s.k = "block" ->
            LET r == Run(s.body, f, log, lost)
            IN  IF r.how = "break" /\ r.v = s.label THEN Normally(r.log, r.lost) ELSE r
      [] s.k = "if" -> IF Len(log) < s.n THEN Run(s.body, f, log, lost) ELSE Normally(log, lost)
      [] s.k = "for" -> Loop(s, Iterations, f, log, lost)
      [] s.k = "call" ->
            IF s.how = "method" THEN Completes(log, "throw", TypeError, lost)
            ELSE LET given == IF s.arg = None THEN Normally(log, lost)
                              ELSE Run(s.arg, f, log, lost)
                     r == IF given.how = "throw" THEN given
                          ELSE Run(f, f, given.log, given.lost)
                 IN  IF r.how = "throw" THEN r ELSE Normally(r.log, r.lost)
      [] s.k = "try" ->
            LET tried == Run(s.body, f, log, lost)
                caught == IF tried.how = "throw" /\ s.catch # None
                          THEN Run(s.catch, f, tried.log, tried.lost) ELSE tried
                last == IF s.finally = None THEN Normally(caught.log, caught.lost)
                        ELSE Run(s.finally, f, caught.log, caught.lost)
            IN  IF last.how = "normal" THEN [caught EXCEPT !.log = last.log,
                                                           !.lost = last.lost]
                ELSE [last EXCEPT !.lost = @ \/ (caught.how = "return" /\ last.how # "return")]

Loop(s, n, f, log, lost) ==
    IF n = 0 THEN Normally(log, lost)
    ELSE LET r == Run(s.body, f, log, lost)
             mine == r.how \in {"break", "continue"} /\ r.v \in {"", s.label}
         IN  IF r.how = "normal" \/ (r.how = "continue" /\ mine)
             THEN Loop(s, n - 1, f, r.log, r.lost)
             ELSE IF mine THEN Normally(r.log, r.lost) ELSE r

=============================================================================
