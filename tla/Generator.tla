----------------------------- MODULE Generator -----------------------------
(***************************************************************************)
(* njs_generator.c for statements that jump: loops, labelled blocks, try,  *)
(* break, continue, return, throw and calls.                               *)
(*                                                                         *)
(* A generator is a record: the code so far; blocks, generator->block with *)
(* the innermost block last; the numbers of try statements and of loops so *)
(* far, which stand for the indexes of exception_value and exit_value and  *)
(* of a loop's variable; error, if generation failed; and mixed, which the *)
(* code does not have: jumps with different destinations have met in the   *)
(* exit or the continuation of a try block.                                *)
(*                                                                         *)
(* An instruction has up to two jumps, to and alt, which are 0 until they  *)
(* are set.  The code does not have the other two fields: within says      *)
(* which try blocks an instruction lies in, by the instructions that set   *)
(* their handlers, and calls which calls have a frame while their          *)
(* arguments are evaluated.                                                *)
(***************************************************************************)
EXTENDS Statements, FiniteSetsExt, SequencesExt

NewGenerator == [code |-> <<>>, blocks |-> <<>>, within |-> <<>>, calls |-> <<>>,
                 tries |-> 0, loops |-> 0, error |-> FALSE, mixed |-> FALSE]

NoLabel     == ""
ReturnLabel == "@return"
UndefLabel  == "@undef"

Here(g) == Len(g.code) + 1

(* njs_generate_code(), in the try blocks within.                          *)
EmitWithin(within, g, op, n, t, to) ==
    [g EXCEPT !.code = Append(@, [op |-> op, n |-> n, t |-> t, to |-> to, alt |-> 0,
                                  within |-> within, calls |-> g.calls])]

Emit(g, op, n, t, to) == EmitWithin(g.within, g, op, n, t, to)

(* A catch runs, and a way out is recorded, while the handler of the block *)
(* that was taken off is still there, which start has set.                 *)
EmitHandled(g, start, op, n, t, to) ==
    EmitWithin(Append(g.within, start), g, op, n, t, to)

SetJump(g, at, to) == [g EXCEPT !.code[at].to = to]
Fails(g)           == [g EXCEPT !.error = TRUE]

-----------------------------------------------------------------------------
(* njs_generate_start_block(), and taking the block off again.             *)
StartBlock(g, type, label, index) ==
    [g EXCEPT !.blocks = Append(@, [type |-> type, label |-> label, exit |-> <<>>,
                                    continuation |-> <<>>, index |-> index,
                                    start |-> Len(g.code)]),
              !.within = IF type = "try" THEN Append(@, Len(g.code)) ELSE @]

LastBlock(g) == Last(g.blocks)
PopBlock(g)  ==
    [g EXCEPT !.blocks = Front(@),
              !.within = IF LastBlock(g).type = "try" THEN Front(@) ELSE @]

LoopMask       == {"for"}
AllMask(label) == IF label = NoLabel THEN {"for"} ELSE {"for", "block"}

(* njs_generate_lookup_block(): a position in blocks, or 0.                *)
LookupBlock(blocks, mask, label) ==
    LET fits == {i \in DOMAIN blocks :
                    IF label = ReturnLabel THEN blocks[i].type = "try"
                    ELSE blocks[i].type \in mask /\ label \in {NoLabel, blocks[i].label}}
    IN  IF fits = {} THEN 0 ELSE Max(fits)

(* njs_generate_find_block(): a try block on the way comes first.          *)
FindBlock(blocks, mask, label) ==
    LET dest == LookupBlock(blocks, mask, label)
    IN  IF dest = 0 THEN 0
        ELSE Max({dest} \cup {i \in DOMAIN blocks : blocks[i].type = "try"})

(* njs_generate_jump_destination(), which fails by returning UndefLabel.   *)
JumpDestination(blocks, mask, label1, label2) ==
    IF label1 = UndefLabel THEN label2
    ELSE IF label2 = UndefLabel THEN label1
    ELSE IF LookupBlock(blocks, mask, label1) # LookupBlock(blocks, mask, label2)
         THEN UndefLabel ELSE label1

(* njs_generate_make_exit_patch() and njs_generate_make_continuation_patch *)
(* (): the jump of the instruction at, or its second one, goes to the end  *)
(* of the block, or to where it continues.                                 *)
Goal(blocks, label) ==
    IF label = ReturnLabel THEN 0 ELSE LookupBlock(blocks, AllMask(label), label)

Differ(blocks, patches, label) ==
    /\ patches # <<>> /\ label # UndefLabel
    /\ Goal(blocks, patches[1].label) # Goal(blocks, label)

Meets(blocks, b, patches, label) ==
    blocks[b].type = "try" /\ Differ(SubSeq(blocks, 1, b - 1), patches, label)

ExitPatch(g, b, label, at) ==
    [g EXCEPT !.blocks[b].exit = <<[at |-> at, label |-> label, alt |-> FALSE]>> \o @,
              !.mixed = @ \/ Meets(g.blocks, b, g.blocks[b].exit, label)]

ContinuationPatch(g, b, label, at, alt) ==
    [g EXCEPT !.blocks[b].continuation = <<[at |-> at, label |-> label, alt |-> alt]>> \o @,
              !.mixed = @ \/ Meets(g.blocks, b, g.blocks[b].continuation, label)]

(* njs_generate_patch_block(): they all go to the end of the code so far.  *)
RECURSIVE PatchBlock(_, _)
PatchBlock(g, patches) ==
    IF patches = <<>> THEN g
    ELSE LET p == Head(patches)
         IN  PatchBlock(IF p.alt THEN [g EXCEPT !.code[p.at].alt = Here(g)]
                        ELSE SetJump(g, p.at, Here(g)), Tail(patches))

PatchBlockExit(g) == PatchBlock(PopBlock(g), LastBlock(g).exit)

-----------------------------------------------------------------------------
(* njs_generate_continue_statement() and njs_generate_break_statement().   *)
Destinations(g, b, patches, mask, label) ==
    IF g.blocks[b].type = "try" /\ patches # <<>>
    THEN JumpDestination(SubSeq(g.blocks, 1, b - 1), mask, patches[1].label, label)
    ELSE label

GenContinue(g, label) ==
    LET b == FindBlock(g.blocks, LoopMask, label)
    IN  IF b = 0 THEN Fails(g)
        ELSE IF Destinations(g, b, g.blocks[b].continuation, LoopMask, label) = UndefLabel
        THEN Fails(g)
        ELSE ContinuationPatch(Emit(g, "jump", 0, 0, 0), b, label, Here(g), FALSE)

GenBreak(g, label) ==
    LET b == FindBlock(g.blocks, AllMask(label), label)
    IN  IF b = 0 THEN Fails(g)
        ELSE IF Destinations(g, b, g.blocks[b].exit, {"for"}, label) = UndefLabel
        THEN Fails(g)
        ELSE ExitPatch(Emit(g, "jump", 0, 0, 0), b, label, Here(g))

(* njs_generate_return_statement(): inside of try the value is saved for   *)
(* the outermost try block.                                                *)
GenReturn(g, n) ==
    LET tries == {i \in DOMAIN g.blocks : g.blocks[i].type = "try"}
    IN  IF tries = {} THEN Emit(g, "return", n, 0, 0)
        ELSE LET b == Max(tries)
             IN  IF Destinations(g, b, g.blocks[b].exit, {"for"}, ReturnLabel) = UndefLabel
                 THEN Fails(g)
                 ELSE ExitPatch(Emit(g, "try_return", n, g.blocks[Min(tries)].index, 0),
                                b, ReturnLabel, Here(g))

-----------------------------------------------------------------------------
(* What njs_generate_try_statement() does at the end of a try block, and   *)
(* of a catch block before "finally": the end of the block, and the jumps  *)
(* to it that record how it was left.                                      *)
Trampoline(g, start, op, t, end, patches) ==
    IF patches = <<>> THEN g
    ELSE EmitHandled(PatchBlock(g, patches), start, op, 0, t, end)

EndTry(g, t) ==
    LET end == Here(g)
        block == LastBlock(g)
        ended == PopBlock(Emit(g, "try_end", 0, t, 0))
        broken == Trampoline(ended, block.start, "try_break", t, end, block.exit)
    IN  Trampoline(broken, block.start, "try_continue", t, end, block.continuation)

LabelOf(patches) == IF patches = <<>> THEN UndefLabel ELSE patches[1].label

(* The "finally" instruction, whose jumps go on in the blocks around.      *)
Finally(g, t, exit, loop, mask) ==
    LET at == Here(g)
        c == FindBlock(g.blocks, LoopMask, loop)
        x == FindBlock(g.blocks, mask, exit)
        emitted == Emit(g, "finally", 0, t, 0)
        continued == IF loop = UndefLabel THEN emitted
                     ELSE ContinuationPatch(emitted, c, loop, at, TRUE)
    IN  IF exit = UndefLabel \/ x = 0 THEN continued
        ELSE ExitPatch(continued, x, exit, at)

RECURSIVE Gen(_, _)

(* "try" with "catch" only.                                                *)
TryCatch(g, s, t, try_end, block) ==
    LET caught == Gen(EmitHandled(g, block.start, "catch", 0, 0, 0), s.catch)
        joined == SetJump(caught, try_end, Here(caught))
    IN  IF caught.error THEN caught
        ELSE IF block.exit = <<>> /\ block.continuation = <<>> THEN joined
        ELSE Finally(joined, t, LabelOf(block.exit), LabelOf(block.continuation),
                     AllMask(LabelOf(block.exit)))

(* "catch" before "finally" is a try block of its own.                     *)
CatchBlock(g, s, t, start) ==
    LET catch == Here(g)
        body == Gen(StartBlock(EmitHandled(g, start, "catch", 0, 0, 0), "try", NoLabel, t),
                    s.catch)
        ended == EndTry(body, t)
    IN  IF body.error THEN [g |-> body, exit |-> <<>>, continuation |-> <<>>, end |-> 0, start |-> start]
        ELSE [g |-> SetJump(ended, catch, Here(ended)), end |-> Here(body), start |-> catch,
              exit |-> LastBlock(body).exit, continuation |-> LastBlock(body).continuation]

TryFinally(g, s, t, try_end, block) ==
    LET c == IF s.catch # None THEN CatchBlock(g, s, t, block.start)
             ELSE [g |-> g, exit |-> <<>>, continuation |-> <<>>, end |-> 0,
                   start |-> block.start]
        saved == EmitHandled(c.g, c.start, "catch", 0, t, 0)
        joined == IF c.end = 0 THEN saved ELSE SetJump(saved, c.end, Here(saved))
        body == Gen(SetJump(joined, try_end, Here(saved)), s.finally)
        loop == JumpDestination(body.blocks, LoopMask, LabelOf(block.continuation),
                                LabelOf(c.continuation))
        exit == JumpDestination(body.blocks, {"for", "try"}, LabelOf(block.exit),
                                LabelOf(c.exit))
    IN  IF c.g.error THEN c.g
        ELSE IF body.error THEN body
        ELSE IF (loop = UndefLabel /\ block.continuation \o c.continuation # <<>>)
                  \/ (exit = UndefLabel /\ block.exit \o c.exit # <<>>) THEN Fails(body)
        ELSE Finally([body EXCEPT !.mixed = @ \/ Differ(body.blocks, block.exit, LabelOf(c.exit))],
                     t, exit, loop, {"try"} \cup AllMask(exit))

(* njs_generate_try_statement().                                           *)
GenTry(g, s) ==
    LET t == g.tries + 1
        start == Here(g)
        body == Gen(StartBlock(Emit([g EXCEPT !.tries = t], "try_start", 0, t, 0),
                               "try", NoLabel, t), s.body)
        ended == EndTry(body, t)
        handler == SetJump(ended, start, Here(ended))
    IN  IF body.error THEN body
        ELSE IF s.finally = None THEN TryCatch(handler, s, t, Here(body), LastBlock(body))
        ELSE TryFinally(handler, s, t, Here(body), LastBlock(body))

GenForForgetsContinue(g, s) ==                                   \* mutant
    LET l == g.loops + 1
        inits == Emit(StartBlock([g EXCEPT !.loops = l], "for", s.label, 0), "init", 0, l, 0)
        jump == Here(inits)
        body == Gen(Emit(inits, "jump", 0, 0, 0), s.body)
        update == Emit(body, "update", 0, l, 0)
        cond == Emit(SetJump(update, jump, Here(update)), "cond_jump", Iterations, l, jump + 1)
    IN  IF body.error THEN body ELSE PatchBlockExit(cond)

(* njs_generate_for_statement().                                           *)
GenFor(g, s) ==
    LET l == g.loops + 1
        inits == Emit(StartBlock([g EXCEPT !.loops = l], "for", s.label, 0), "init", 0, l, 0)
        jump == Here(inits)
        body == Gen(Emit(inits, "jump", 0, 0, 0), s.body)
        update == Emit(PatchBlock(body, LastBlock(body).continuation), "update", 0, l, 0)
        cond == Emit(SetJump(update, jump, Here(update)), "cond_jump", Iterations, l, jump + 1)
    IN  IF body.error THEN body ELSE PatchBlockExit(cond)

(* njs_generate_if_statement(), without "else".                            *)
GenIf(g, s) ==
    LET body == Gen(Emit(g, "if_jump", s.n, 0, 0), s.body)
    IN  IF body.error THEN body ELSE SetJump(body, Here(g), Here(body))

(* njs_generate_block_statement().                                         *)
GenBlock(g, s) ==
    LET body == Gen(StartBlock(g, "block", s.label, 0), s.body)
    IN  IF body.error THEN body ELSE PatchBlockExit(body)

(* njs_generate_function_call() and njs_generate_method_call(): the frame, *)
(* the arguments, the call.  The kind of function that will be found at    *)
(* run time is written into the instruction.                               *)
FrameOf == [lambda |-> "lambda_frame", native |-> "native_frame", apply |-> "apply_frame",
            method |-> "method_frame"]

GenCall(g, s) ==
    LET framed == [Emit(g, FrameOf[s.how], IF s.how = "method" THEN TypeError ELSE 0, 0, 0)
                       EXCEPT !.calls = Append(@, s.how)]
        given == IF s.arg = None THEN framed ELSE Gen(framed, s.arg)
    IN  [Emit(given, "function_call", 0, 0, 0) EXCEPT !.calls = g.calls]

Gen(g, s) ==
    CASE g.error -> g
      [] s.k \in {"step", "throw"} -> Emit(g, s.k, s.n, 0, 0)
      [] s.k = "return"   -> GenReturn(g, s.n)
      [] s.k = "break"    -> GenBreak(g, s.label)
      [] s.k = "continue" -> GenContinue(g, s.label)
      [] s.k = "both"     -> Gen(Gen(g, s.first), s.second)
      [] s.k = "block"    -> GenBlock(g, s)
      [] s.k = "if"       -> GenIf(g, s)
      [] s.k = "for"      -> GenFor(g, s)
      [] s.k = "try"      -> GenTry(g, s)
      [] s.k = "call"     -> GenCall(g, s)

(* A function: its statements, and the "return" that the parser adds.      *)
Generate(s) ==
    LET g == Gen(NewGenerator, s)
    IN  IF g.error THEN g ELSE Emit(g, "return", 0, 0, 0)

=============================================================================
