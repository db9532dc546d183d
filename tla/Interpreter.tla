---------------------------- MODULE Interpreter ----------------------------
(***************************************************************************)
(* The interpreter njs_vmcode_interpreter() and the frames of              *)
(* njs_function.c: calls, returns and exceptions.                          *)
(*                                                                         *)
(* A program is two functions; the host calls the first, which may call    *)
(* the second.  There are two stacks: frames, the chain from the global    *)
(* frame to vm->top_frame, and activations, the C functions that run now:  *)
(* interpreters, each with its pc, and native functions that call back.    *)
(* The chain of exception handlers of a frame is a sequence of addresses,  *)
(* the innermost last.  failing is the interpreter's "error" label.        *)
(***************************************************************************)
EXTENDS Integers, Sequences, FiniteSetsExt, SequencesExt

CONSTANTS Programs,        \* pairs of statements, for the two functions
          CompiledOf(_)    \* a program: code, of the two functions, and meant,
                           \* what the statements shall do

Compiled == {CompiledOf(p) : p \in Programs}

Callback == 3   \* a native function that calls its argument
Apply    == 4   \* Function.prototype.call() or apply()

-----------------------------------------------------------------------------
(* What is relied on in the code of a function: the instructions agree on  *)
(* the try blocks that they lie in and on the calls that have a frame.     *)
Operations ==
    {"step", "jump", "if_jump", "init", "update", "cond_jump", "try_start", "try_end",
     "try_break", "try_continue", "try_return", "catch", "finally", "return", "throw",
     "lambda_frame", "native_frame", "apply_frame", "method_frame", "function_call"}

Instructions ==
    [op : Operations, n : Int, t : Nat, to : Nat, alt : Nat, within : Seq(Nat),
     calls : Seq({"lambda", "native", "apply", "method"})]

FunctionOf(call) ==
    CASE call = "lambda" -> 2 [] call = "native" -> Callback
      [] call = "apply" -> Apply [] call = "method" -> 0

(* The handlers of the try blocks that an instruction lies in.             *)
Handlers(c, i) == [k \in DOMAIN c[i].within |-> c[c[i].within[k]].to]

(* A jump that was not set, or the end of the code, leads nowhere.         *)
Leads(c, at, within, calls) ==
    at \in DOMAIN c => c[at].within = within /\ c[at].calls = calls

Structured(c, i) ==
    LET op == c[i].op
        within == c[i].within
        calls == c[i].calls
        On(w, a) == Leads(c, i + 1, w, a)
        To(w) == Leads(c, c[i].to, w, calls)
    IN  /\ \A k \in DOMAIN within : within[k] \in DOMAIN c
        /\ within # <<>> => Leads(c, c[Last(within)].to, within, <<>>)
        /\ op \in {"step", "init", "update", "if_jump", "cond_jump", "finally"} =>
              On(within, calls)
        /\ op \in {"jump", "if_jump", "cond_jump", "try_break", "try_continue",
                   "try_return", "finally"} => To(within)
        /\ op = "finally" => Leads(c, c[i].alt, within, calls)
        /\ op = "try_start" => On(Append(within, i), calls)
        /\ op = "try_end" => within # <<>> /\ To(Front(within))
        /\ op = "catch" =>
              /\ within # <<>>
              /\ On(IF c[i].to = 0 THEN Front(within) ELSE Append(Front(within), i), calls)
        /\ op \in {"try_start", "finally", "return"} => calls = <<>>
        /\ op = "lambda_frame" => On(within, Append(calls, "lambda"))
        /\ op = "native_frame" => On(within, Append(calls, "native"))
        /\ op = "apply_frame" => On(within, Append(calls, "apply"))
        /\ op = "function_call" => calls # <<>> /\ On(within, Front(calls))

WellFormed(c) ==
    /\ c \in Seq(Instructions)
    /\ Leads(c, 1, <<>>, <<>>)
    /\ \A i \in DOMAIN c : Structured(c, i)

(* The variables of a try statement are those of one of the function.      *)
Numbered(f) ==
    /\ f.tries \in Nat /\ f.loops \in Nat
    /\ \A i \in DOMAIN f.code : f.code[i].op = "finally" => f.code[i].t \in 1..f.tries

(* MCInterpreter has what the generator makes of the statements.           *)
ASSUME CompiledAssumption ==
    \A p \in Compiled, fn \in 1..2 : WellFormed(p.code[fn].code) /\ Numbered(p.code[fn])

VARIABLES program, frames, activations,
          exception,   \* vm->retval, while an exception is under way
          failing, log, outcome,
          bypassed     \* an error was returned without looking for a handler

vars == <<program, frames, activations, exception, failing, log, outcome, bypassed>>

code        == program.code
Top         == frames[Len(frames)]
ActiveAt(f) == Max({i \in DOMAIN f : f[i].called})
Active      == frames[ActiveAt(frames)]

Interpreting == activations # <<>> /\ ~failing
Pc           == Last(activations)
Valid        == Pc.at \in DOMAIN code[Pc.fn].code
Instruction  == code[Pc.fn].code[Pc.at]
Executes(op) == Interpreting /\ Valid /\ Instruction.op = op

Goes(at) == activations' = [activations EXCEPT ![Len(activations)].at = at]
Advances == Goes(Pc.at + 1)

Invalid(n) == [valid |-> FALSE, v |-> n]

(* njs_function_lambda_frame() and njs_function_native_frame().            *)
NewFrame(fn, called) ==
    [fn |-> fn, called |-> called, skip |-> FALSE, catch |-> <<>>,
     exception_value |-> [t \in 1..code[fn].tries |-> 0],
     exit_value |-> [t \in 1..code[fn].tries |-> Invalid(0)],
     loop |-> [l \in 1..code[fn].loops |-> 0]]
NativeFrame(fn) ==
    [fn |-> fn, called |-> FALSE, skip |-> FALSE, catch |-> <<>>,
     exception_value |-> <<>>, exit_value |-> <<>>, loop |-> <<>>]
GlobalFrame == [NativeFrame(0) EXCEPT !.called = TRUE]

(* njs_vm_call() of the first function.                                    *)
Init ==
    /\ program \in Compiled
    /\ frames = <<GlobalFrame, NewFrame(1, TRUE)>>
    /\ activations = <<[fn |-> 1, at |-> 1]>>
    /\ exception = 0 /\ failing = FALSE /\ log = <<>> /\ bypassed = FALSE
    /\ outcome = IF code[1].error \/ code[2].error THEN <<"rejected", 0>> ELSE <<>>

Same    == UNCHANGED program
NoCall  == UNCHANGED <<frames, exception, failing, outcome, bypassed>>
Going   == outcome = <<>>

-----------------------------------------------------------------------------
(* Instructions that neither call nor throw.                               *)

Jump == /\ Going /\ Executes("jump") /\ Goes(Instruction.to)
        /\ UNCHANGED log /\ NoCall /\ Same

ConditionalJump ==
    /\ Going /\ Executes("if_jump")
    /\ Goes(IF Len(log) < Instruction.n THEN Pc.at + 1 ELSE Instruction.to)
    /\ UNCHANGED log /\ NoCall /\ Same

Effect == /\ Going /\ Executes("step") /\ Advances
          /\ log' = Append(log, Instruction.n)
          /\ NoCall /\ Same

SetActive(f) ==
    /\ frames' = [frames EXCEPT ![ActiveAt(frames)] = f]
    /\ UNCHANGED <<exception, failing, log, outcome, bypassed>> /\ Same

LoopVariable ==
    LET t == Instruction.t
        i == Active.loop[t]
    IN  /\ Going
        /\ \/ Executes("init") /\ Advances /\ SetActive([Active EXCEPT !.loop[t] = 0])
           \/ Executes("update") /\ Advances /\ SetActive([Active EXCEPT !.loop[t] = i + 1])
           \/ /\ Executes("cond_jump")
              /\ Goes(IF i < Instruction.n THEN Instruction.to ELSE Pc.at + 1)
              /\ UNCHANGED log /\ NoCall /\ Same

TryStartKeepsExit ==                                             \* mutant
    LET t == Instruction.t
    IN  /\ Going /\ Executes("try_start") /\ Advances
        /\ SetActive([Active EXCEPT !.catch = Append(@, Instruction.to),
                                    !.exception_value[t] = 0])

(* njs_vmcode_try_start().                                                 *)
TryStart ==
    LET t == Instruction.t
    IN  /\ Going /\ Executes("try_start") /\ Advances
        /\ SetActive([Active EXCEPT !.catch = Append(@, Instruction.to),
                                    !.exception_value[t] = 0,
                                    !.exit_value[t] = Invalid(0)])

TryEndKeepsHandler ==                                            \* mutant
    /\ Going /\ Executes("try_end") /\ Goes(Instruction.to)
    /\ UNCHANGED log /\ NoCall /\ Same

(* njs_vmcode_try_end().                                                   *)
TryEnd == /\ Going /\ Executes("try_end") /\ Goes(Instruction.to)
          /\ SetActive([Active EXCEPT !.catch = Front(@)])

(* njs_vmcode_try_break().                                                 *)
TryBreak ==
    /\ Going /\ Executes("try_break") /\ Goes(Instruction.to)
    /\ SetActive([Active EXCEPT !.exit_value[Instruction.t] =
                                    IF @.valid THEN @ ELSE Invalid(1)])

(* njs_vmcode_try_continue() sets the number, and leaves the type.         *)
TryContinue ==
    /\ Going /\ Executes("try_continue") /\ Goes(Instruction.to)
    /\ SetActive([Active EXCEPT !.exit_value[Instruction.t].v = -1])

(* NJS_VMCODE_TRY_RETURN.                                                  *)
TryReturn ==
    /\ Going /\ Executes("try_return") /\ Goes(Instruction.to)
    /\ SetActive([Active EXCEPT !.exit_value[Instruction.t] =
                                    [valid |-> TRUE, v |-> Instruction.n]])

(* NJS_VMCODE_CATCH, of a variable or of exception_value; the handler is   *)
(* removed, or replaced by that of the catch block.                        *)
Catch ==
    LET t == Instruction.t
    IN  /\ Going /\ Executes("catch") /\ Advances
        /\ SetActive([Active EXCEPT
               !.exception_value = IF t = 0 THEN @ ELSE [@ EXCEPT ![t] = exception],
               !.catch = IF Instruction.to = 0 THEN Front(@)
                         ELSE [@ EXCEPT ![Len(@)] = Instruction.to]])

-----------------------------------------------------------------------------
(* Calls.                                                                  *)

(* NJS_VMCODE_FUNCTION_FRAME.                                              *)
FunctionFrame ==
    /\ Going /\ Advances
    /\ \/ Executes("lambda_frame") /\ frames' = Append(frames, NewFrame(2, FALSE))
       \/ Executes("native_frame") /\ frames' = Append(frames, NativeFrame(Callback))
       \/ Executes("apply_frame") /\ frames' = Append(frames, NativeFrame(Apply))
    /\ UNCHANGED <<exception, failing, log, outcome, bypassed>> /\ Same

(* NJS_VMCODE_FUNCTION_CALL: a native function calls the second function   *)
(* back; Function.prototype.call() marks its own frame as skipped before.  *)
Native == [fn |-> 0, at |-> 0]

FunctionCall ==
    /\ Going /\ Executes("function_call")
    /\ IF Top.fn = 2
       THEN /\ frames' = [frames EXCEPT ![Len(frames)].called = TRUE]
            /\ activations' = Append(activations, [fn |-> 2, at |-> 1])
       ELSE /\ frames' = Append([frames EXCEPT ![Len(frames)].skip = (Top.fn = Apply)],
                                NewFrame(2, TRUE))
            /\ activations' = activations \o <<Native, [fn |-> 2, at |-> 1]>>
    /\ UNCHANGED <<exception, failing, log, outcome, bypassed>> /\ Same

(* The interpreter returns NJS_OK, having freed the frame f[Len(f)], and   *)
(* the frames below it that are skipped; a native function that called it  *)
(* returns too, and frees its own frame unless that was skipped.           *)
ReturnsValue(v) ==
    LET skipped == Len(frames) > 1 /\ frames[Len(frames) - 1].skip
        left == SubSeq(frames, 1, Len(frames) - IF skipped THEN 2 ELSE 1)
        callers == Front(activations)
        native == callers # <<>> /\ Last(callers) = Native
        rest == IF native THEN Front(callers) ELSE callers
    IN  /\ frames' = IF native /\ ~skipped THEN Front(left) ELSE left
        /\ activations' = IF rest = <<>> THEN <<>>
                          ELSE [rest EXCEPT ![Len(rest)].at = @ + 1]
        /\ outcome' = IF rest = <<>> THEN <<"return", v>> ELSE <<>>
        /\ UNCHANGED <<exception, failing, log, bypassed>> /\ Same

(* NJS_VMCODE_RETURN.                                                      *)
ReturnStatement == Going /\ Executes("return") /\ ReturnsValue(Instruction.n)

(* njs_vmcode_finally().                                                   *)
Finalize ==
    LET e == Active.exception_value[Instruction.t]
        x == Active.exit_value[Instruction.t]
    IN  /\ Going /\ Executes("finally")
        /\ IF e # 0
           THEN /\ exception' = e /\ failing' = TRUE
                /\ UNCHANGED <<frames, activations, log, outcome, bypassed>> /\ Same
           ELSE IF x.valid THEN ReturnsValue(x.v)
           ELSE /\ Goes(IF x.v = 0 THEN Pc.at + 1
                        ELSE IF x.v > 0 THEN Instruction.to ELSE Instruction.alt)
                /\ UNCHANGED log /\ NoCall /\ Same

-----------------------------------------------------------------------------
(* Exceptions.                                                             *)

(* NJS_VMCODE_THROW, and any instruction that fails.                       *)
ThrowStatement ==
    /\ Going /\ Executes("throw")
    /\ exception' = Instruction.n /\ failing' = TRUE
    /\ UNCHANGED <<frames, activations, log, outcome, bypassed>> /\ Same

(* The interpreter returns NJS_ERROR, and so does a native function that   *)
(* called it, whose frame stays; the interpreter below them fails.         *)
ReturnsError ==
    LET callers == Front(activations)
        rest == IF callers # <<>> /\ Last(callers) = Native THEN Front(callers) ELSE callers
    IN  /\ activations' = rest
        /\ failing' = (rest # <<>>)
        /\ outcome' = IF rest = <<>> THEN <<"throw", exception'>> ELSE <<>>

(* The "error" loop: frames are freed up to one that has a handler, or     *)
(* with the frame of the function that this interpreter runs.              *)
Unwind ==
    LET a == ActiveAt(frames)
        tries == {i \in a..Len(frames) : frames[i].catch # <<>>}
        h == Max(tries)
    IN  /\ Going /\ failing
        /\ IF tries # {}
           THEN /\ frames' = SubSeq(frames, 1, h)
                /\ activations' = [activations EXCEPT ![Len(activations)] =
                                      [fn |-> frames[h].fn, at |-> Last(frames[h].catch)]]
                /\ failing' = FALSE
                /\ UNCHANGED <<exception, outcome>>
           ELSE /\ frames' = SubSeq(frames, 1, IF a = 1 THEN 1 ELSE a - 1)
                /\ UNCHANGED exception
                /\ ReturnsError
        /\ UNCHANGED <<log, bypassed>> /\ Same

(* NJS_VMCODE_METHOD_FRAME of a symbol that names no function: that the    *)
(* symbol does not convert to a string is returned at once.                *)
MethodFrame ==
    /\ Going /\ Executes("method_frame")
    /\ exception' = Instruction.n /\ bypassed' = TRUE
    /\ ReturnsError
    /\ UNCHANGED <<frames, log>> /\ Same

(* A jump that was never patched leads into the middle of an instruction;  *)
(* what is done then is undefined, and is not followed.                    *)
Stray == Going /\ Interpreting /\ ~Valid /\ UNCHANGED vars

(* The host has got the result.                                            *)
Done == ~Going /\ UNCHANGED vars

Next ==
    \/ Jump \/ ConditionalJump \/ Effect \/ LoopVariable \/ TryStart \/ TryEnd \/ TryBreak \/ TryContinue
    \/ TryReturn \/ Catch \/ FunctionFrame \/ FunctionCall \/ ReturnStatement
    \/ Finalize \/ ThrowStatement \/ Unwind \/ MethodFrame \/ Stray \/ Done

Spec == Init /\ [][Next]_vars /\ WF_vars(Next)

-----------------------------------------------------------------------------
Expected == program.meant

(* The generator has told the destinations of all jumps apart, and the     *)
(* code is run.                                                            *)
Sound  == /\ \A fn \in 1..2 : ~code[fn].error /\ ~code[fn].mixed
          /\ ~bypassed

(* The frame that runs is one of the function that its interpreter runs.   *)
(* Its handlers are those of the try blocks that the instruction lies in,  *)
(* whatever way led to it: a jump out of a try statement goes through the  *)
(* njs_vmcode_try_end() of each one it leaves.  Above it are the frames of *)
(* the calls whose arguments are being evaluated.  When the host has the   *)
(* result, every frame that calls and throws made has been freed, down to  *)
(* the one that njs_vm_init() made.                                        *)
FramesMatch ==
    /\ Interpreting /\ Valid /\ ~bypassed =>
          /\ Active.fn = Pc.fn
          /\ Active.catch = Handlers(code[Pc.fn].code, Pc.at)
          /\ Len(frames) = ActiveAt(frames) + Len(Instruction.calls)
          /\ \A k \in DOMAIN Instruction.calls :
                frames[ActiveAt(frames) + k].fn = FunctionOf(Instruction.calls[k])
    /\ Sound /\ ~Going => frames = <<GlobalFrame>>

(* The generated code, interpreted, does the steps that the statements     *)
(* shall do, in this order, and completes as they shall, across calls.     *)
(* Excepted is a "return" that a "finally" gives up for something else.    *)
DoesWhatItSays ==
    Sound /\ ~Going /\ ~Expected.lost =>
        /\ log = Expected.log
        /\ outcome = IF Expected.how = "normal" THEN <<"return", 0>>
                     ELSE <<Expected.how, Expected.v>>

(* Whatever is thrown and wherever the control goes, every jump that is    *)
(* taken has been patched, and the host gets a result.                     *)
Ends == []Sound => <>~Going

(* Every jump that is taken has been patched, since the generator refuses  *)
(* what it cannot patch: "break/return instructions with different labels  *)
(* (..) from try-catch block are not supported".                           *)
EveryJumpPatched == Interpreting => Valid

(* "njs_vmcode_try_continue() sets exit_value to INVALID -1".              *)
ContinueSetsExitValue ==
    [][LET t == Instruction.t
       IN  Executes("try_continue") => Active'.exit_value[t] = Invalid(-1)]_vars

=============================================================================
