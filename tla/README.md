# njs: specifications and proofs

TLA+ specifications of njs, the JavaScript engine of nginx: the engine's event table, the three
programs that host it (the command line shell, the http module and the stream module), its data
structures, its interpreter and the core of its library and its parser. Paths below are relative
to the repository's root; `V:n` after a function names the line where something bites.

Contents: 1 the system, 2 the modules, 3 the runs, 4 fairness, 5 what is proved, 6 what is not
modelled and why, 7 the plan.

## 1. The system

njs runs one script in one `njs_vm_t`, on one thread. A host creates the VM, compiles a script,
and calls functions of it; JavaScript calls back into the host through externals. Nothing in the
engine is concurrent, but a VM outlives the call that started it: events (timers, subrequests,
handlers of data) are registered in the VM and come back in an order the environment chooses,
between any two calls, also after an exception, a cancellation, or the end of what they belonged
to. The rest of the engine is sequential code over mutable data structures, whose hazard is a
long sequence of legal calls that reaches an illegal state.

| component | sources | state | operations | what is hard | what makes it correct |
|---|---|---|---|---|---|
| event table of a VM | `src/njs_event.c`, `src/njs_vm.c` | `events_hash`, `posted_events`, `event_id`, flags `posted`, `once`, `host_event` of each event | add, delete, post, take | events deleted while posted; a failed insertion; the host's half of an event | an event is in the hash while it waits, in the queue while posted, owns its host event, is called once |
| console host | `src/njs_shell.c`, `src/njs_timer.c` | the console's own hash and queue of `njs_ev_t` | `setTimeout`, `setImmediate`, `clearTimeout`, the loop of `njs_process_script()` | two queues and two hashes in step; a callback that throws leaves others posted | every timer is called once, in order, unless cleared; the prompt comes back only when nothing waits |
| http module | `nginx/ngx_http_js_module.c` | `ngx_http_js_ctx_t` (vm, status, redirect_uri, done), the request's `write_event_handler`, timers and subrequests in flight | js_content, js_set, `setTimeout`, `subrequest`, `return`, `internalRedirect`, finalization, cleanup | client, timers and subrequests race; nginx reports a subrequest several times; an internal redirect drops the context | a request that waits is woken and finalized; nothing fires after the pool is gone |
| stream module | `nginx/ngx_stream_js_module.c` | `ngx_stream_js_ctx_t` (status, upload_event, download_event, in_progress, filter, buf, last_out) | js_access, js_preread, js_filter, js_set, `s.on`, `s.off`, `s.done`, `s.send`, timers | a phase is re-entered; handlers change between two buffers; handlers outlive their phase | functions are called once per phase; buffers are consumed once, in order |
| frames and exceptions | `src/njs_vmcode.c`, `src/njs_function.c` | the chain of frames, `spare_stack_size`, the scopes, the exception handlers of a frame | call, return, throw, try, catch, finally, apply and bind continuations | finally with pending returns, breaks and exceptions; native calls in between | the frame that catches is the innermost one that tries; frames are freed in order |
| objects and properties | `src/njs_object.c`, `src/njs_object_prop.c`, `src/njs_value.c` | an object's own hash and the hash it shares with others, flags `extensible`, `shared`, the prototype chain | get, set, delete, define, freeze, seal, enumerate | properties of the shared hash are copied on write and hidden by markers when deleted | an object behaves as if it owned one plain map |
| memory pool | `src/njs_mp.c` | clusters, pages, chunk bitmaps, free lists, the tree of blocks | alloc, free, destroy | a page changes size class and list | live allocations never overlap; everything is returned |
| red-black tree, level hash, queue, array | `src/njs_rbtree.c`, `src/njs_lvlhsh.c`, `src/njs_queue.c`, `src/njs_arr.c` | nodes, buckets and levels, links, items | find, insert, replace, delete, iterate | rebalancing; conversion of a full bucket; deletion while iterating | they implement a set or a map; the tree is balanced |
| arrays | `src/njs_array.c` | the block of cells, start, length, holes | length, push, shift, slice, splice, sort, iteration with callbacks | elements move in the block and the block moves; a callback changes the array it iterates | length and elements are what the standard says after every call |
| strings | `src/njs_string.c`, `src/njs_utf8.c` | size, length, the offset map | slice, index, split, replace, encode | byte, ASCII and UTF-8 strings share code; the offsets of characters are filled in later | each method answers what the standard says, on all three; size, length and map agree |
| numbers, dates, Math | `src/njs_number.c`, `src/njs_date.c`, `src/njs_dtoa.c`, ... | none | conversions | boundaries of integer widths, calendar arithmetic | agreement with the standard |
| JSON | `src/njs_json.c` | a stack of states, a chain of buffers | parse, revive, stringify, dump | deep nesting, user functions that change what is walked over | the texts of the grammar are accepted and no other; walks visit everything once; a quoted string reads back |
| lexer, parser, scopes | `src/njs_parser.c`, `src/njs_variable.c`, ... | the queue of tokens, the tree, labels, scopes, closures | parse | tokens that are looked at and put back; inserted semicolons; what a keyword means depends on its place | the text of a tree is read as that tree; what is accepted is the text of its tree |
| code generator | `src/njs_generator.c` | blocks, patches, the index cache | generate | break, continue and return out of nested try blocks | every patch list is patched once; temporaries are not shared |
| modules | `src/njs_module.c` | the hash and the list of modules | import | recursion, the same module imported twice | one instance per module |
| file system | `src/njs_fs.c` | files | read, write, append, with and without callback | errors at every call | the descriptor is closed; one callback |
| hashes, random | `src/njs_md5.c`, `src/njs_sha1.c`, `src/njs_sha2.c`, `src/njs_crypto.c`, `src/njs_random.c` | partial block, pool | update, final, stir | block boundaries | digest does not depend on how the data was cut |
| formatting, time, externals, built-ins, errors | the other files of `src/` | tables | formatting, lookup | little | - |
| build, tests, vendored code | `auto/`, `configure`, `test/`, `pcre-7.0/`, `vendor/`, project files | - | - | - | - |

The hosts interact with the engine through the event table only. JavaScript that runs in a host
calls `njs_set_timer()`, which calls the host's `set_timer`, then `njs_add_event()`; a deletion
calls the host's `clear_timer` (the event's destructor). The host answers with
`njs_vm_post_event()` and `njs_vm_run()`, which calls the posted callbacks, and asks
`njs_vm_pending()` whether it must wait.

## 2. The modules

A C function that several hosts call is an operator from the state of the table to the state
after the call (`VMEvents`), so that the modules of the hosts compose several calls in one
handler, as the code does. A handler of a host is an action. A JavaScript frame is an arbitrary
sequence of the calls that scripts can make: the state `pc = "js"` says that a frame runs,
`exception` that it is unwinding; a frame may end in each state. An event is identified with its
id.

`Queues` has the queues of `njs_queue.h` as sequences: `Unlink` takes a link out. `VMEvents`
models `njs_event.c` and the event functions of `njs_vm.c`: `AddEvent`, `DelEvent`, `PostEvent`
and `TakeEvent` are `njs_add_event()`, `njs_del_event()`, `njs_vm_post_event()` and the head of
the loop of `njs_vm_handle_events()`. The flags of an event are sets of events. The pool that
events are allocated from is not modelled: an event that was deleted is never used by the models
unless the code still holds it (`ctx->upload_event` of the stream module).

`Shell` models `njs_process_script()`, `njs_process_events()` and the console's timers. `pc` is
the place in `njs_process_script()` and its callees: `prompt` (outside), `js`, `loop` (the head
of its loop), `process_events`, `run` (in `njs_vm_handle_events()`). `console.events` is the
console's hash and `console.posted_events` its queue. The shell's own `ret` is modelled because
the loop overwrites it: the error of a script is lost when timers run after it, which is what
the code does.

`TimerPromise` is what the documentation of timers amounts to, with no queue: a set of armed
timers and the sequence of those called. `Shell` implements it (`ImplementsPromise`,
`KeepsPromise`).

`Http` models one request. nginx itself is external: `Terminate`, `Close`, `Redirect`,
`SpecialResponse`, `RunPosted`, `SubrequestGone` say what nginx does with what the module
returns. `req.phase` goes from `early` (js_set may run) through `body` (js_content waits for the
body) to `content`, and ends in `finalized` (the response is done, subrequests keep the
request), `terminating`, `freed`. `ctx.attached` is the module's context in `r->ctx`. An
internal redirect clears it, and the request is `early` again, in another location, where it may
get another context and VM: `lost` are the timers of the VMs that it left, which live until the
request's pool is released. The script redirects with `r.internalRedirect()`
(`ContentFinalize`), and nginx on its own for `index`, `try_files` and `error_page`
(`RedirectItself`, in `early` and for a status of 300 or more); `req.taken` notes that events
waited when it did. The location runs before `ngx_http_internal_redirect()` returns, and if the
script has replaced the status `NGX_DONE` the request is then finalized once more (`req.finals`,
`Unwind`). `req.handler = "js"` means that `write_event_handler` is
`ngx_http_js_content_write_event_handler`, `"empty"` that it does nothing. `life` follows
`ngx_http_js_init_vm()`: a VM may get no cleanup handler (`unowned`: never started, never
destroyed), runs its global code, where it may set timers (`starting`, ended by `StartEnd`), and
may fail there (`broken`, and yet used by the next call). `pc = "astray"` is an event that is
handled without a context or in another VM's; it is not followed.

`Stream` models one session: `PhaseHandler`, `PhaseFunctionEnd`, `PhasePost` and `PhaseReturn`
are the four parts of `ngx_stream_js_phase_handler()` between calls of JavaScript; `BodyFilter`
to `FilterReturn` are `ngx_stream_js_body_filter()`, one `FilterBuffer` per buffer of the chain.
`caller` is the C function that called `njs_vm_run()`. `fate` is a history variable: what became
of each buffer. A status is what a phase tells apart: `ok` (`NGX_OK`, `NGX_DECLINED`), `again`
and `done`, with which nginx waits and calls the function again, and `error`, which ends the
session (`Codes`). `bounds.careful` restricts scripts: `OffUnset` (a null pointer) and `Send`
out of a filter call (a dangling one) lead to `pc = "crash"`, after which nothing is claimed.

`ShellProofs`, `HttpProofs` and `StreamProofs` hold the proofs about the hosts, `EventProofs`
what the functions of the event table preserve, `ObjectsProofs` and `MemoryPoolProofs` the
proofs about these modules (both below), and `CommonProofs` lemmas about queues and numbers.

`Objects` models `njs_property_query()` for ordinary objects and the operations built on it.
`hash[o]` is an object's own table, the constant `Shared[o]` the table that all clones of the VM
share; a property is in `hash` with type `property` or `whiteout` (deleted). `Holder` is the
walk along `__proto__`, `PrivateCopy` the copy that a query makes of a shared property. `Get`,
`Set`, `Delete` and `DefineProperty` are `njs_value_property()`, `njs_value_property_set()`,
`njs_value_property_delete()` and `njs_object_define_property()`; `Freeze`, `Seal`,
`PreventExtensions` and `SetProto` the functions of these names in `njs_object.c`. `result` is
what the operation returned, the getter or setter it called, or `TypeError`. `PropertyMap` is
chapter 8.12 of ECMAScript 5.1 over plain tables. `MCObjects` gives both their constants: one
prototype with a shared method, one or two objects, descriptors of every kind. The list of an
enumeration is made as in the code, in two passes: `EnumerateLength` counts, `Enumerate` fills.

`MemoryPool` models `njs_mp.c`. An address is a block and an offset into it; the block of an
address is found in a set (`RBTree` is about the tree that does it). `page[<<c, n>>]` is the
`njs_mp_page_t` of a page, whose `size` is shifted as in the code (`Shifted`, `Unshifted`);
`slots[s]` and `free_pages` are the queues. `njs_mp_alloc_small()` is three actions, by what it
finds (`AllocChunk`, `AllocFirstChunk`, `AllocWholePage`), and so is `njs_mp_chunk_free()`
(`FreeChunk`, `FreePage`, `FreeRefused`). Two history variables say what the pool is used for:
`live`, what its callers hold, and `heap`, what the pool has got from the system. Callers may
free any address, also one that nobody holds.

`Statements` is what statements that end abruptly do, by chapter 12 of ECMAScript 5.1: `Run`
takes a program to the steps it does and how it completes. `Generator` is the part of
`njs_generator.c` that makes jumps of them: a function `njs_generate_..()` is an operator from a
generator's state to the next, `exit` and `continuation` are the lists of patches of a block.
Three things the code does not keep: `mixed` notes that jumps with different destinations met in
one list, and each instruction has in `within` the try blocks that it lies in, by the positions
of the instructions that set their handlers, and in `calls` the kinds of the calls whose
arguments are being evaluated there. `Interpreter` runs code that its constants give
(`CompiledOf` of the `Programs`, together `Compiled`); `CompiledAssumption` says what it relies
on: every instruction leads to instructions of the same try blocks and calls, but for those that
enter and leave them (`Structured`), the handler of a try block lies in it, with no call, and a
`finally` has the variables of its function (`Numbered`). A jump that was not set may lead
anywhere. An action is an instruction, `frames` the chain from the global frame to
`vm->top_frame`, `activations` the C stack of interpreters and native functions between them,
`failing` the label `error`. What an instruction computes is reduced to a step;
`exception_value` and `exit_value` are kept as the code keeps them, a type and a number.
`bypassed` notes that an instruction returned `NJS_ERROR` past the handlers (`MethodFrame`).
`MCInterpreter` makes the programs and gives `CompiledOf` what `Generator` makes of them, so
that TLC checks the assumption of every program that it runs. `InterpreterProofs` extends
`Interpreter` alone.

`RBTree` models `njs_rbtree.c`. The fields of the nodes are functions of one record, and a
rotation and its mirror image one operator. `InsertFixup` and `DeleteFixup` are the two loops;
`Destroy`, `DestroyNext` and `Destroyed` the walk that takes a tree apart while its nodes are
freed. `members` is what callers have put in. Nodes with equal keys are allowed, as in the code.

`LevelHash` models `njs_lvlhsh.c`. A slot is null, a chain of buckets or a level of slots; which
one a pointer is, the code keeps in its low bits. Every function that may need memory takes an
allocator `mem` that fails at a chosen allocation and counts what is held. `Insert` covers the
conversion of a full bucket into a level (`ConvertBucketToLevel`), with its way back when an
allocation fails.

`Lists` models the queues of `njs_queue.h` (a circle of links; `njs_queue_sort()` of
`njs_queue.c` is an insertion sort, `njs_queue_middle()` a race of two pointers) and the growing
arrays of `njs_arr.c` (the block is the caller's, its own, or the one that holds its header).

`Arrays` models `njs_array.c` and the index paths of `njs_value.c`. `this` is the block with its
start, length and cells, `js` the same array as ECMAScript 5.1 sees it; each action does what
the code does to `this` and what chapter 15.4.4 says to `js`. A method with a callback is three
actions: `StartLoop`, one `Visit` for each call, in between which any method may change the
array, and `EndLoop`. `sort()` and `join()` are loops in the same way: `Compare` is a call of
the comparison function, `Convert` one of a `toString()`, and between them the user's code may
grow, shift, cut or empty the array, while `loop` keeps what the function keeps: the address of
the first element, the length, the list of strings and the size of the result. Where that leads
out of a block, `Astray` notes it, and nothing more is claimed of the call. Arrays and
array-like objects take different paths; both are modelled.

`Utf8` is `njs_utf8.c` and its header as operators. `Strings` models the methods of
`njs_string.c` on the representation: bytes, a length, and an offset map whose places are 0
until it is filled. `Str` says which of the three kinds a string is of: bytes (length 0), ASCII
(length = size) or UTF-8. An action calls a method, compares its answer with the one that
ECMAScript gives for the sequence of characters (the operators `Std..`), and may go on with the
string that was made. A regular expression is a list of alternatives that stand for themselves,
and one stands for the end of the text: it decides what a match is, and `Strings` what is done
with it.

`JsonText` models the text side of `njs_json.c`: `ParseValue`, `ParseObject`, `ParseArray` and
`ParseString` are the recursive parser, `Quoted` the output of a string into a chain of buffers.
`Json` models its three walks, which keep a stack of their own instead of recursion: the reviver
of `JSON.parse()`, `JSON.stringify()` and the dump of the console. An action is a turn of the
loop. The reviver may change what is walked over (`Changes`): it deletes, shortens and lengthens
the object it is called on or one of those around it. `beyond` of a heap object are the cells
behind its length, of which the walk reads one when it comes back from a value that was cut off
meanwhile (`Block`); a push moves a full array, and when it is the array of the value that the
reviver was called for, its result is written to the block that was left (result `astray`). What
is written is compared with a recursive description of the same text.

`Dates` models `njs_date.c`: days to years and back, fields, the offset of a zone
(`localtime_r()` is external: one standard and one summer offset), constructors, setters, the
formats of text and their parser. A time is a pair of days and milliseconds, as 53 bits do not
fit TLC's integers. The second half states chapter 15.9 of ECMAScript with a calendar that
counts leap years.

`Grammar` has syntax trees and `TextOf`, the text of a tree by the standard's grammar, with as
few parentheses as it allows. `Parser` is the parser of `njs_parser.c`,
`njs_parser_expression.c` and `njs_parser_terminal.c` over tokens: a record with the token
queue, the tree and what the lexer remembers goes through operators named as the C functions. An
operator takes what the parts before it have made and ends where the next part is parsed
(`ForInit`, `ForCondition`, `ForUpdate`); recursion goes through `Parsed`, and the levels of
binary operators are climbed in a loop where the code calls itself once for each level.
`Programs` gives it texts: the text of every tree that grows in a few steps, with line ends put
in and semicolons left out, and every text over a small alphabet that the parser does not give
up before its end.

`MCStructures` and `MCLibrary` give the constants of these modules and of `MemoryPool`, which
`MCStructures` extends. The parts do not touch each other, and so a behaviour is one of a single
part, which `part` names.

## 3. The runs

| run | module, config | bounds | what it shows |
|---|---|---|---|
| shell | `Shell`, `MCShell.cfg` | 5 timers, 2 scripts | the queues and hashes agree; both queues are ordered; the shell is never stuck; the prompt waits for all timers; `TimerPromise` is implemented: every timer is called once, in order, or cleared |
| http | `Http`, `MCHttp.cfg` | 2 timers and subrequests, 1 detached subrequest, 1 variable, 2 internal redirects | a waiting event and a parked request have something that wakes them, no event is called twice, no timer dangles, a handler misses its context only after a redirect of nginx's own that did not wait, every request is freed (but those in section 6) |
| stream | `Stream`, `MCStream.cfg` | 2 timers and handlers, 3 buffers, 1 read, 1 variable; careful and careless scripts | functions are called once per phase, buffers consumed once and in order, nothing dangles, no phase waits for nothing, phases that wait for timers are resumed |
| objects | `MCObjects`, `MCObjects.cfg` | 2 objects, 1 name, a few descriptors of each kind | what a query finds is complete; what is not configurable stays; no new name on an object that is not extensible; while objects are extensible `PropertyMap` is implemented; prototypes never form a cycle; enumeration lists what lookups find |
| structures | `MCStructures`, `MCStructures.cfg` | pool: 2 clusters of 2 pages of 8 bytes, chunks of 2 and 4 bytes, 2 large blocks, 6 allocations held at a time (`MaxLive`); tree: 8 nodes, two of equal keys; hash: 5 keys, two of equal hash, buckets of 2, 3 levels; lists: 4 links, 4 items; arrays: length 3, spare 1 | live allocations never overlap, the books agree and the heap is owned; the tree is a balanced search tree; the hash is a map; lists and arrays are what their callers think they are |
| interpreter | `MCInterpreter`, `MCInterpreter.cfg` | 19 thousand programs: tries of depth 2 in a loop or a block, of depth 1 in two loops, and two functions that call each other | the generated code, interpreted, does what the statements say; the frame that runs, its handlers and the frames above it match at every instruction, and no frame stays (`FramesMatch`); the code of all is well-formed (`CompiledAssumption`); every jump is set and the host gets a result |
| library | `MCLibrary`, `MCLibrary.cfg` | strings of up to 5 characters of 1 to 3 bytes, 4 byte strings, a stride of 2; JSON texts of 4 tokens (7 when they may still become one), strings of 3 pieces, heaps of 3 objects that may be circles, depth 3 and 4; dates in two zones around the limits, the year 0, leap days and switches; trees that grow in 2 steps and texts of 5 tokens | strings, JSON, dates and the parser do what the standard says, with the exceptions that section 6 lists |
| objects_grow | `MCObjects`, `MCObjectsGrow.cfg` | 2 objects | violated: a deleted property comes back on an object that is not extensible |
| objects_freeze | `MCObjects`, `MCObjectsFreeze.cfg` | 2 objects | violated: `Object.freeze()` leaves a revived accessor writable |
| interpreter_jumps | `MCInterpreter`, `MCInterpreterJumps.cfg` | tries of depth 2 | violated: a jump that was never set is taken |
| interpreter_continue | `MCInterpreter`, `MCInterpreterContinue.cfg` | tries of depth 2 | violated: `continue` in `finally` does not replace a return |
| dates_utc | `MCLibrary`, `MCLibraryUtc.cfg` | as library | violated: `setUTCHours()` and its kin move the date by the zone's offset |

The five violated runs are disagreements with a test or a comment, recorded under "findings". `o
= {a:1}; delete o.a; Object.preventExtensions(o); o.a = 1` succeeds, because
`njs_value_property_set()` revives the deleted entry before it looks at `extensible`; and the
revived entry of a deleted accessor keeps its getter and setter, so that `Object.freeze()` takes
it for an accessor. The refinement of `PropertyMap` is therefore claimed of the steps between
extensible objects, where it holds. In `for (..) { try { try { s } catch (e) { return } finally
{ break } } catch (e) {} }` the exits of the inner statement meet in the outer block without the
check for different destinations, and the jump of `break` is never set; and
`njs_vmcode_try_continue()` leaves the type of a saved return value, so that `for (..) { try {
try { return v } finally { continue } } catch (e) {} }` returns, with the number or the pointer
of `v` overwritten by -1. `DoesWhatItSays` is therefore claimed of programs whose jumps the
generator told apart (`Sound`), and in which no return is given up for something else (`lost`);
all other programs are still run, under `FramesMatch`. The setters of UTC fields take a date
apart as UTC and call `njs_make_date()` for local time; the tests expect the other fields to
stay, and run with `TZ=UTC`.

Why the bounds are enough. Two events (http) are one being called and one that waits, is cleared
or is set by it, or one that a redirect left and one of the VM that came after; two redirects
let the second meet what the first has left, and one variable runs before, between or after
them. Five (shell) let both queues hold two, and in stream, whose handlers are no queue, two are
one timer and one handler, or a handler and the one that replaces it. Ids are never reused, so
that the bound on events ends every behaviour. Two scripts let a script start after another that
failed. Three buffers are a chain of two, in which a handler may change what happens to the
second, and one more, for the other direction or a later call. Properties of different names do
not interact, so that one name is enough, except in the list of an enumeration, where an item is
judged by its name alone; an object and its prototype are all that a query tells apart, and a
cycle that would close over a third object closes by the same test. A page of 8 bytes has up to
four chunks: none, some and all in use, with the case of one left on either side; four pages put
two pages of a slot in its queue while another changes size, and two clusters let one be
released while the other supplies pages. Six allocations are a page of chunks in full use with
two more beside it, or all pages and blocks.

A red-black tree of eight nodes has black height three: every case of both fixups occurs, on
both sides, also two in a row up to the root. Buckets of two entries are full, chained and
converted with five keys; the last level, whose `shift` is 0, is where chains grow, and two keys
of one hash can never be told apart by a level. Four links give the middle of lists of both
parities and a sort that is not a reversal. Arrays of three elements with a spare of one shift,
unshift and expand in every combination of free cells before and behind, also while they are
sorted or joined; `Large` is 2, so that the switch of algorithm at 4096 elements is passed.

A stride of 2 puts a place of the offset map before, at and behind each position that a method
asks for. Characters of one, two and three bytes, one whose lower case is shorter, and bytes
that are no characters tell the three kinds of string apart. JSON strings of three pieces have
an escape, a surrogate or its half, and what follows it; the buffers are as small as the longest
escape, so that they are passed within a string. Three objects make a chain, a shared child and
a circle; circles, and nothing else, exceed the depth of 4. The reviver changes what is walked
over twice, with which one array can both be shortened and grow, or an outer one be shortened in
a call for a deeper value. The dates stand on both sides of every switch of zone, month, year
and century rule. Texts of five tokens in eight alphabets are every start of a construct with
whatever may follow it; a tree of two steps has each construct inside each.

Deadlock is not checked where the system stops: the prompt may wait for ever, a freed request or
session does nothing, a walk over JSON is done.

A try statement in each part of another gives every way to leave two blocks at once; deeper ones
leave more blocks by the same instructions. Loops do their body twice, with the same or another
course the second time, so that what is left over from the first time is seen. A function's
frame is created directly, by a native function that calls back, by `call()`, and while the
arguments of another call are evaluated.

## 4. Fairness

One thread runs to completion: the module's own steps and the end of each frame are weakly fair
(scripts that loop for ever are excluded; nginx would not survive them). Timers expire and
subrequests finish because nginx's event loop runs. The client is never fair: it may not read,
not send, or go away. JavaScript's calls are not fair. The interpreter is one thread that runs
on. The data structures, the library and the parser are functions: nothing is claimed that must
eventually happen, and no fairness is assumed. In `Stream` the end of a phase's preread timeout
is fair, as it is a timer.

## 5. What is proved

The proofs hold for every value of the constants that the named assumptions admit. What they
conclude is listed under "theorems" in `PROJECT.json`; every safety and action property of the
runs shell, http, stream and objects (but the two that are violated), those of the memory pool,
and `FramesMatch` of the run interpreter are among them. The inductive invariants hold in TLC as
well, on the bounds of section 3 (of `MemoryPool` with four allocations, of `Objects` with
`ChainsEnd` in place of `Acyclic`, whose ranks are not finite, and of `Interpreter` with a part
of the programs, 59 thousand states).

`CommonProofs`. Removing, appending, prepending and taking off the head keep a queue without
duplicates and change its set of links by one (`UnlinkDistinct`, ...). `LeastNumber`, that a set
of numbers has a least one, stands in for induction: a counterexample has a least one.

`EventProofs`. `Sound` says that the flag `posted` tells membership of the queue of posted
events, which has no duplicates. Each function of `VMEvents` keeps it and does to the sets of
events what its lemma says (`AddSound`, `DelSound`, `PostSound`, `TakeSound`), so that
`HttpProofs` and `StreamProofs` reason about sets and hardly ever about a queue. `ShellProofs`
has stronger lemmas, as it is about order.

`ShellProofs`, for any number of timers and scripts: the five invariants of the run shell
(`TypeCorrect`, `Consistent`, `Ordered`, `NeverStuckTheorem`, `PromptTheorem`) and `Refinement`:
every behaviour of the shell is a behaviour of `TimerPromise`. The inductive invariant `IInv` is
their conjunction with three facts that they need: events have ids below `event_id`, all have
the flag `once`, and what `pc` says of the queues (the VM's queue is empty when the console's is
being moved; nothing is pending at the prompt). Ordering is needed for uniqueness: an ascending
queue has no duplicates, so that `Unlink`, which removes one link, removes the event
(`UnlinkLemma`). Each operation of the tables has a lemma that says what it does to the
invariant of the tables (`SetLemma`, `DelLemma`, `PostLemma`, `CallLemma`, `BurnLemma`);
`StepInv` then has one step per action. `RefineStep` maps each action to a step of
`TimerPromise` or a stutter; that the called event is the oldest follows from the order of the
queues.

`HttpProofs`, for any number of timers, subrequests and variables: `NoLostWakeup`,
`NothingDangles`, `ContextPresent` and `CalledOnce`. None is inductive. A wakeup is lost in the
middle of a handler, if at all, and so `Awaited` says for every state what `NoLostWakeup` says
between two events of nginx: a waiting event has a timer, a running subrequest, or is posted.
That an event is not posted twice needs the two sources apart from each other and from what is
posted (`TimersOwned`, `NotYetPosted`) and from what was called (`NotCalledYet`).
`PhasesOfFrames` says in which phase of the request which handler runs, `Detached` that without
a context there is no VM and no frame of it, `FreedIsGone` what is left at the end.
`ContextPresent` is proved of requests that nginx has not redirected on its own while events
waited; that the module's own redirects leave nothing behind rests on `Awaited` and on the
numbers of events, which go on from VM to VM (`EventsKnown`).

`StreamProofs`, for any number of timers, handlers, buffers and variables: the three invariants
and three action properties of the run stream. `EventsKnown` and `Awaited` are as above, with
handlers, which wait for data and are called again and again; that `njs_vm_run()` is given one
event at a time (`OneAtATime`) is what makes it safe to change handlers in a callback. `Chain`
says that the buffers left to serve are the last ones received, in order, `Fates` that the ones
before have a fate and the ones behind have none, and that the first one has a fate only from
the call of its handler until that call returns. `InProgress` ties the flag `in_progress` to the
phases whose function was called, and not given back by a status of `again` or `done`.

`ObjectsProofs`, for any finite set of objects, any names, values, descriptors and shared tables
(`ObjectsAssumption`: shared tables hold complete properties, the prototypes that a VM starts
with form a tree): all properties of the run objects, with the refinement of `PropertyMap`. The
inductive invariant is `TypeOK`, which says that what a lookup finds is complete, and `Acyclic`:
there is a rank of objects that falls along `__proto__`. `ChainsEnd` speaks of chains as long as
there are objects; that a chain without end would repeat an object, and that a rank exists again
after `__proto__` was set (`NewPrototype`), connects the two. Each operation has a lemma that
says what it does to what lookups find (`SetDoes`, `DeleteDoes`, `DefineDoes`, `RestrictDoes`),
from which come both the action properties (`StepPreserves`) and the refinement
(`SetImplements`, `DefineImplements`, ...). `Items` says what an enumeration lists for
`EnumerationExact`, and `Counted` that its length was counted right.

`MemoryPoolProofs`, for any sizes of pages, chunks and clusters, any number of blocks, and any
requests: `AllocationsSound`, `BooksBalance` and `HeapOwned`. `PoolAssumption` is what
`njs_mp_create()` checks (`SizesAssumption`), that alignments are powers of two, as
`njs_mp_align()` checks, that a cluster's address is not that of another block, and that the
smallest chunk is smaller than a page. The last is not checked by the code; without it the
theorems are false (section 6). The inductive invariant is about a page and the allocations held
of it: it is free, or held as a whole, or divided in chunks of which the bitmap shows exactly
those that are held (`PageGood`); the queues hold the pages that are free (`FreeList`) and those
of a size with a free chunk (`SlotLists`), once; a cluster has a used page (`ClustersGood`), a
large block exactly one allocation (`LargesGood`). What the arithmetic rests on is that powers
of two divide each other (`PowersDivide`): chunks fill a page without rest, and an offset
determines its page and chunk.

`InterpreterProofs`, for any code of two functions that is well-formed and for calls and
recursion of any depth: `FramesMatch`. The inductive invariant `IInv` gives each activation the
position `pos` of its frame; the positions ascend from 2 (`Ordered`). It says of an interpreter
that its frame has been called and has the handlers of its instruction (`Runs`), of one that
waits for a call that the frames up to the next activation's are those that its instruction has
prepared (`Suspended`), and of a native function that it stands between two interpreters, on a
frame that was never called (`Between`). All of this is about one activation and the frames up
to the next, and so a step, which happens at the end of both stacks, keeps it below:
`StackBelow` when it returns, throws or goes on, `StackAbove` when it calls. Of the last
activation, `Prepares` says that the frames above its own are those of the calls under way;
while an exception unwinds, only that they do not run and have no handlers (`Quiet`), which is
why the search for a handler ends at the frame that runs (`UnwindStep`). Each instruction has a
lemma (`Jumps`, `TrySteps`, `CallSteps`, `ReturnSteps`, ...). `skip` needs the same care as in
the code: only the frame of `call()` and `apply()` has it set, when a native function runs on
it, so that a return frees one frame, or both, or that of the native function (`ReturnStep`),
and an error leaves the native frame to the unwinding of its caller (`ErrorStep`,
`CallerFails`).

Only model-checked:

- All liveness (`KeepsPromise`, `RequestEnds`, `PhaseResumes`, `Ends`): fairness and ENABLED are
  out of the prover's reach.
- `DoesWhatItSays`, and that `Generator` makes well-formed code of every statement: `Generator`
  and `Statements` are recursive. TLC checks both on the programs of the run interpreter.
- `RBTree`, `LevelHash`, `Strings`, `Utf8`, `JsonText`, `Json`, `Dates`, `Grammar` and `Parser`
  are recursive by nature: what they compute for all inputs needs induction over data, which the
  prover cannot do.
- `Lists` and `Arrays`: not attempted yet.

## 6. What is not modelled, and why

- Line editing, completion and output of the shell, headers, arguments, variables and buffers of
  http: input and output of data, without control of their own.
- The loss of memory in the middle of a handler, except where the code has an error path that
  undoes something (`AddEventFails`, `Subrequest`, `LevelHash`, `Lists`, `MemoryPool`, the
  expansion of arrays).
- A js_set variable that is read from JavaScript, which runs a function of the VM inside
  another; a context of http that could not be allocated; the global code of a VM of stream
  (`njs_vm_start()`, which http has as a frame of its own).
- What happens after an event of http is handled without its context (`astray`), after a `crash`
  of stream, and after a user's function has led `sort()`, `join()` or the reviver out of a
  block.
- Floating-point formatting, parsing and arithmetic (`njs_dtoa*.c`, `njs_diyfp.c`,
  `njs_strtod.c`, `njs_math.c`): out of TLC's integers. Compression functions of digests, PCRE.
- Of the generator and the interpreter: expressions, operators, the allocation of indexes,
  closures, constructors, and recursion to the limit of the stack.
- Of strings: conversion to numbers, indexes and C strings, values of atoms, truncation of
  messages, the tables of properties. Of arrays: `from()`, `isArray()`, `toString()`, and
  conversions of arguments that run code (but those of `join()`). Of JSON: the text of numbers
  and dates; a reviver that shifts an outer array, makes holes, stores objects in places still
  to come or adds a deleted key again. Of the parser: the recognition of tokens, regular
  expression literals, `import` and `export`, declarations of variables, indexes and closures.
- The components of the table above that are marked "not_modelled" in `PROJECT.json`.

`LengthsAsDocumented` in `Strings` states what `njs_string.h` says of the length of strings;
padding of byte strings departs from it (below), and no run checks it.

Seen while reading or while comparing with the standard. The models do what the code does here;
where a property compares with the standard, it excepts these cases.

Hosts and engine:

- A function of js_set that sets a timer and throws leaves the timer, as
  `ngx_http_js_variable()` then returns `NGX_OK` (`ngx_http_js_module.c:663`). When `index`,
  `try_files` or `error_page` redirects the request before the timer fires, the context is gone
  and `ngx_http_js_timer_handler()` reads a null one (2204), or finds the context of the VM of
  the next location and posts the event there. So does an `error_page` when js_content fails
  while a timer waits. `ContextPresent` says that there is no other way to it, `RequestEnds`
  excepts what follows (`astray`).
- `return()` after `internalRedirect()` replaces the status while `redirect_uri` stays set
  (608-618): the request is redirected and then finalized with that status, over the head of the
  location it went to, whose `write_event_handler` is replaced by one that does nothing
  (`req.handler = "empty"`); a request that waits there is not resumed, which `RequestEnds`
  excepts.
- An operation that one variable left pending makes the check pass for the next variable that
  starts one (`ngx_http_js_module.c:677`); `ctx->vm` stays set after `njs_vm_start()` failed
  (737), and a VM whose cleanup handler could not be added is never destroyed (`unowned`;
  `ngx_stream_js_module.c:719` too); the result of `njs_vm_post_event()` is ignored (2206).
- `s.done()` with `NGX_AGAIN` or `NGX_DONE` makes the phase wait with nothing in progress; its
  function is called again when nginx comes back (`ngx_stream_js_module.c:939`), which
  `PhaseCalledOnce` excepts.
- `s.off()` of a handler that is not set gives a null pointer (`ngx_stream_js_module.c:1095`);
  `s.send()` from a timer writes through the pointers of a filter call that has returned (1175);
  a download handler that was set in access or preread is posted by nothing, so that the phase
  waits (1060). The first two are `pc = "crash"` of careless scripts.
- `njs_mp_create()` accepts a smallest chunk as large as the page; the shifted size of the
  chunks of its one slot is 0, which stands for a free page (`njs_mp.c:418`). A block of size 0
  with a large alignment is never found again (`njs_mp.c:561`), as blocks of size 0 end where
  they start (709). No caller in the repository does either. A cluster whose last page becomes
  free is released with its pages still in the queue of free pages, from which each must be
  taken (758).
- A read-only property that holds NaN cannot be redefined with NaN, because the values are
  compared with `===` (`njs_object_prop.c:301`); the values of the model are equal to
  themselves.
- A deleted property that is still in the table makes `Object.isFrozen()` false
  (`njs_object.c:1487`); `Object.freeze()` visits the private table only (1429); a deleted `get`
  of a descriptor is read as an invalid value (`njs_object_prop.c:59`).
- An assignment to an index that finds an array in the chain of prototypes expands that array
  first (`njs_value.c:702`).
- Ids of events are 32 bits wide and may come twice (`njs_event.c:50`).
- An instruction that returns `NJS_ERROR` goes past the handlers of its own function
  (`njs_vmcode.c:741`; `bypassed` in the model). Its frame stays, and the interpreter that
  called it looks for a handler there, as if it ran in that frame: `FramesMatch` claims nothing
  of what follows. `njs_vmcode.c:1725`, `njs_generator.c:1087` and `njs_function.c:728` rest on
  what the generator emits, which the model takes as it is.

Arrays:

- Objects with a length over 4096 are visited by the list of their indexes, and callbacks get
  the position in this list (`njs_array.c:1498`).
- `lastIndexOf()` with a negative second argument that means 0 looks at nothing (1857).
- `sort()` keeps the address of the first element while a comparison may move the array (2704):
  if it pushes or unshifts, the sort goes on in freed memory. A comparison that returns no
  number, such as a boolean, ends the sort where it is; undefined elements are compared by it as
  well.
- `join()` counts the elements, converts them with the user's code, and copies (1216-1227): if a
  conversion makes the array grow or shift, it writes behind its list or its buffer. `join()` of
  an object that is like an array is `''`.
- `reduceRight()` reads the cells of elements that its callback has cut off (1546).
- Room that `shift()` leaves in front does not serve `push()`, nor the other way round: the
  block is replaced although it has enough cells (133); `ArraysAsStandard` holds throughout.

Strings:

- `lastIndexOf()` of a word with more bytes but not more characters than the text returns -2 or
  -4 (`njs_string.c:2130`).
- A byte string has length 0; `padStart()` and `padEnd()` give it a length
  (`njs_string.c:2966`), replacing may make text of it, `search()` counts steps of UTF-8 in it.
- `substring(a, undefined)` and `substr(a, undefined)` take the explicit undefined for 0
  (`njs_string.c:1241`, 1326), so that `'abc'.substr(1, undefined)` is `''` where the standard
  has `'bc'`; `StringsAsStandard` excepts an explicit undefined there.
- Replacing `/$/g`, and matching it, finds the end of the text twice. A function that replaces
  an empty match which is not where the search began leaves a part of the result unset, as the
  two paths are told apart by the match being empty (3761, 3789).
- `decodeURI()` of characters outside ASCII next to an escape counts their bytes.
- The callback of `replace()` gets an offset in bytes from the last match and a string of the
  wrong length; `''.replace('', x)` is `''`; `'abc'.replace('', '$$')` loses a character, as an
  empty match with a template does; `match(/../g)` without a match gives `[]`; `split(x,
  undefined)` gives `[]`; splitting by an expression that may match nothing goes on at the wrong
  place.
- `indexOf('', length)` looks behind the offset map.

JSON:

- The walk of the reviver keeps the place of an element while the array may move
  (`njs_json.c:1033`): if the reviver pushes to a full array, its result is written to the block
  that was freed (1042). The length of an array is read again at each turn, where the standard
  reads it once: what is pushed is visited. A value that goes while the walk is inside it (an
  inner call shortens an outer array) still gets its call, behind the length, and its result is
  lost; other values that were removed get none.
- Whether `stringify()` writes a comma depends on what was written before, not on the index
  (1231).
- A second high surrogate is taken for a low half; numbers such as `01` are accepted; the error
  "Nested too deep" is replaced by a MemoryError.
- A replacer is not called for undefined and functions; a function that it returns is written as
  null; an empty object takes a line of its own with an indent.

Dates:

- The offset of a local time is looked up as if it were UTC, so that local times within the
  offset of a switch are wrong (`njs_date.c:257`); `TZ` west of London by less than an hour
  prints a text that is not parsed back (1026).
- A date and time without `Z` is UTC without a fraction of seconds and local with one; `+2011`
  is the year 2011; months and days out of range are accepted; a NaN argument ends the
  conversion of the later ones, which might throw; `toISOString()` of an invalid date gives
  text.

Parser:

- A labelled empty statement drops the statements in front of it, and its label stays declared
  (`njs_parser.c:560`); nested labels lose the inner one; a labelled `break y` goes to its own
  label, as a node has one name (563); labels of outer functions are visible in inner ones.
- A name in front of a line end is no shorthand property; an arrow function may not start a
  line, and is accepted as an operand; `do .. while ()` takes no `;` in front of `else` and
  `while`.
- `function f(a b) {}`, `for (var i = 0 in {};;)` and `({null})` are accepted; `for (x in a,
  b)`, `for (a in b = c)`, `for (o.p in a)` and `for ((1 in a);;)` are rejected.
- `new new A().C()` is `(new (new A())).C()`; after `new f`, a template is the list of
  arguments.
- After a keyword with no name since, any token is taken as the name of a property
  (`lexer->keyword` is only set when a name is looked up).

## 7. The plan

1. Proofs: the queue of `Lists` and its refinement by sequences; the growing array of `Lists`.
2. `Generator` and `Interpreter`: switch, while, for-in, constructors, closures.
3. Declarations of variables, scopes and closures (`njs_variable.c`), on the trees of `Grammar`.
4. `Objects`: property handlers, elements of arrays and strings, externals.
5. `RegExp.exec()` and `lastIndex`, buffering of digests, the random pool, modules.

