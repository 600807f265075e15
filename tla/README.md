# A verification development of sample_c

The repository is a collection of programs: the software and hardware stack of the
*nand2tetris* course written by the author (`nandtotetris/projects`), a forking HTTP
server (`lesson_17/httpd.c`) and its predecessor that answers one request (`lesson_14/httpd.c`),
a small shell, a directory walk, a single-threaded web server, and many one-page exercises.
This directory models the parts that carry state and that are hard to get right by testing:
the virtual machine translator with the calling convention it generates and the computer its
code runs on, the two-pass assembler, the Jack tokenizer, syntax analyzer and compiler, the
arithmetic, strings and line editor of the Jack operating system, the HTTP servers with
children, signals, allocation and partial answers, and the shell with the walk it can run.

All paths below are relative to `src/`; `projects/` stands for `nandtotetris/projects/`.

## 1. Inventory

| Component | State it keeps | Operations | Hard behaviour | What makes it correct |
|---|---|---|---|---|
| **VM translator** `projects/08/vm_backend.c` (09 is the same file) | while translating: a counter for unique labels; while the generated code runs: the RAM, where stack frames, segments and scratch registers share one array | one block of code per VM command; a bootstrap | pointer arithmetic for frames in 16-bit words; scratch registers R13/R14 shared by all frames; a return address that shares its word with the result; operands at the edge of the word | a function cannot touch its callers' words; a return restores the caller; every block does what the VM command means |
| **VM translator, first version** `projects/07` | SP at translation time | as above without calls | sign of the subtraction | as above |
| **Assembler** `projects/06/assembler.c` | symbol table, two counters, one output buffer reused for every line | first pass (labels), second pass (code) | the passes must agree; one table for predefined symbols, labels and variables; a buffer that is not always rewritten | the code is the source with every symbol resolved |
| **ALU, adders** `projects/01,02` | none | combinational | wrap-around, flags | two's complement arithmetic |
| **CPU, memory map, computer** `projects/05` | A, D, PC, RAM | one instruction per cycle | order of the writes in one cycle; which address is written when A changes | the instruction set |
| **Register, PC, RAM chips** `projects/03` | registers | load, increment, reset | priority of reset/load/inc | an array of registers |
| **Jack tokenizer** `projects/10/JackTokenizer.c` (11 is the same file) | position in the line, inside/outside a comment | advance | comments over lines, strings | the tokens of the text |
| **Jack symbol table** `projects/11/SymbolTable.c` | two tables with counts | define, lookup, start of a subroutine | entries of the previous subroutine hidden only by a count | scopes, dense indices |
| **Jack compiler, VM writer** `projects/11/CompilationEngine.c`, `VMWriter.c` | position, label numbers, symbol tables | one function per grammar rule | balance of the operand stack on every path; labels unique over a directory | the VM program computes what the Jack program means |
| **Jack syntax analyzer** `projects/10/CompilationEngine.c` | position in the tokens, the C call stack | one function per grammar rule, each reading one or two lines ahead | lookahead that searches the whole line for a text; an exit from any depth when the tokens end | the parse tree of the class, and none for a text that breaks off |
| **Jack OS: Math** `projects/12/MathTest` | a table of powers of two | multiply, divide, sqrt | overflow inside the algorithms | integer arithmetic |
| **Jack OS: String, Keyboard, Output** | a character array with a length; the cursor | append, erase, read a line, print | a user editing while the program polls; backspace on an empty line; the edge of the screen | the text that was typed and shown |
| **Jack OS: Array, Memory, Screen, Sys** | | stubs, or one call | | |
| **HTTP server** `lesson_17/httpd.c` | server: its place in the accept loop, a connection; child: request, file information, open file | accept, fork, close; read, stat, open, copy, exit; SIGCHLD, SIGTERM, SIGPIPE | children, signals, silent clients and a changing file, in any order | the server stays up; answers are what was announced; nobody waits for a silent client |
| **HTTP request handling** `lesson_14/httpd.c` | the request as a list of fields, the heap, the output stream | read a line, a field, the body; stat, open, copy; free; SIGPIPE | a client that stops or leaves, allocations that fail, a file that changes | one whole answer or none; what was allocated is freed; it ends |
| **Shell** `lesson_11/sh1.c` | the line, cut into words in place; the words' memory; a pipe per command | read, parse, fork, popen in the child, wait | memory that grows in the wrong unit; a pipe character; descriptors that are never closed | every command has the words of its line; every line is read |
| **Single-threaded web server** `unix/sock/web.c` | one descriptor variable | accept, answer | the error path continues into the success path | one answer per request |
| **Directory walk** `unix/04/4_8.c` | one shared path buffer, counters | recursive walk | each level must restore the buffer while files come and go | each entry counted once |
| **Text utilities** `cat*.c`, `head.c`, `tail.c`, `wc.c`, `grep*.c` | `tail`: a buffer of lines | one loop | more lines wanted than read | |
| **System call exercises, network exercises, contest solutions, demo programs, other authors' translators** | | | none | |

`PROJECT.json` lists the same components with the state of the work on each ("components")
and, under "hazards", each thing that can go wrong and is hard to test, at its line.

### How the components interact

The Jack tokenizer writes tokens; the syntax analyzer or the compiler reads them. The compiler
writes VM commands; the VM translator turns them into assembly, the assembler into words of ROM,
the computer executes them with the OS classes as part of the program. They exchange files only,
and each relies on what the previous one promises. That makes the **abstract virtual machine**
(`VMachine`) the central contract: the translator has to implement it, and compiled programs,
those of the OS among them, may rely on it and on nothing else. The compositions that are modelled are the
tokenizer with the analyzer (`JackAnalyzer`), the translator's code with the assembler's bits
and the CPU (`VMCode`), the arithmetic with strings, keyboard and cursor (`JackConsole`), and
the shell with the walk its child runs (`Shell`). The HTTP server interacts with its
children through fork, the inherited connection, and SIGCHLD; with its clients through the
connection; and with the files it serves through the file system.

## 2. Modules

```
 HackWord           words, wrap-around, the sign, the address lines
   HackCPU          the ALU, one instruction cycle, the bits of the mnemonics
   VMProgram        VM commands, program text, memory map, what the language allows
     VMachine       the abstract machine: frames that cannot reach one another
     VMBlocks       what the code of each command does to the RAM
       VMBackend    the RAM machine running those blocks; implements VMachine
         VMBackendProofs     theorems: the frames, and the refinement of VMachine
         VMCode     the instructions of every command, run on HackCPU
           VMCodeProofs      theorem: the instructions compute the blocks
           MCVMBackend       instances (with MCBits: And, Or)
 HackAssembly       the assembly language and the meaning of a program
   Assembler        the two passes
     AssemblerProofs  theorems
     MCAssembler    instances
 JackCompiler       the compiler: recursive descent, symbol tables, commands written
   JackCompilerProofs  theorems
   JackMeaning      what a class means, and what its code does (with JackTrees, HackWord)
     MCJackCompiler instances
 JackTrees          tokens, and classes as trees
 JackTokenizer      characters to lines of tokens
   JackSyntax       lines of tokens to a parse tree: recursive descent
     JackAnalyzer   one after the other, and the tree of a class (with JackTrees)
       MCJackAnalyzer        instances
 JackMath           multiply, divide, sqrt on words (with HackWord)
   JackString       the string buffer, numbers as text and back
     JackConsole    a user, the keyboard, the line editor, the cursor
       JackConsoleProofs     theorems: the arithmetic, keyboard and cursor, numbers as text
       MCJackConsole         instances
 Httpd              accept loop, children, signals, clients, files
   HttpdProofs      theorems
   MCHttpd          instances
 HttpRequest        one request, from its first line to the exit
   HttpRequestProofs  theorems
   MCHttpRequest    instances
 DirectoryWalk      the recursive walk in one path buffer
   Shell            the shell, whose child runs the walk
     ShellProofs    theorems: the shell, and the walk
     MCShell        instances
```

### VM translator

`HackWord` keeps a word as its unsigned value `0 .. 2*Half-1`. `Half` is 2^15 in the
hardware and a parameter here: the theorems hold for every value above 16, and the runs use
a small one so that overflow happens within the explored states. `And` and `Or` are
parameters of which only the range and commutativity are assumed (the code takes the operands
from the stack in the other order); the instances give them the bitwise operators.

`VMBlocks` has one function per block of generated code, in the order of the emitted
instructions: `parse_push`, `parse_pop`, `parse_arithmetic`, `parse_if`, `parse_function`,
`parse_call`, `parse_return`, `bootstrap`, each named for the C function that writes the
block. The blocks are straight-line code apart from the comparisons and a last jump, and
nothing runs concurrently with them, so one step per command hides no interleaving.
`function f k` is the sum of its `k` unrolled `push 0`.

A point's ROM address is that of the next instruction written. A `label`, and a `function` without
locals, write none, so such a point shares its address with the one after it. Only the places that a
call resumes at (`ReturnPoint`) have addresses of their own, since the code of the call stands in front of
each (`ProgramAssumption`).

In `VMBackend`, `ram` and `pc` are the machine. `pc` is the place in the program text; the
only place where a ROM address is data is the return address, and `Return` jumps to the
point whose address R14 holds (`PointsAt`). Of several points with one address the place a call resumes at
comes first in the text, and what follows it there has no code; if no point has the address the jump is to any
point at all, which is what landing in the midst of some other command's code may amount to.
`ReturnRestores` says that it lands on the caller.
`calls` and `fault` are history variables which no guard of a command reads: where each
frame was built and which words were saved, and whether the program broke a rule of the
language.

The rules are `Allowed` of `VMProgram`: a function is entered by `function`; no operand stack
underflows; indices stay within the frame's arguments and locals; `this` and `that` point
into the heap; the stack has room. The translator checks none of them; a program that breaks
one gets no promise from the abstract machine (`fault`), and neither does the translated one.
The rules are stated on the *shape* of the running frame, which `VMachine` computes from its
sequences and `VMBackend` by pointer arithmetic; the refinement shows that the two agree.

A *Program* offers a set of commands at each point. With one command per point it is one
program text; with the same set at two points that follow each other it stands for every
sequence of these commands. The theorems are about every `Program`.

`VMCode` writes out the instructions of every command as the C functions emit them, in the order
in which they do, and `HackCPU` runs them: the assembler's bits for the mnemonic, the ALU's six
control bits, and the writes of one cycle, all of which see the A register as it was before. `CodeComputes` ties the
two levels: in every state a command is met in, and whatever A and D hold then (`Leftover`), its instructions
come to an end and have exactly the effect and the jump by which `VMBackend` describes it. `CodeCorrect` proves
it, so that the theorems about `VMBackend` are about the emitted code. A label inside a command's code is
known by the number of the instruction behind it. The code of `function f k` is k times the five
instructions of a push and `D=0`; its block is their sum where the stack has room for them, which is the
one condition `CodeComputes` has.

`VMachine` is the abstract specification. A frame has its own arguments, locals, operands,
`this` and `that`; that frames are separate is true there by construction. Comparisons are of
signed values and promised only if the difference of the operands fits in a word: outside,
either answer is allowed. That is a deliberate weakening: the code tests the sign of the
wrapped difference, and no document of the repository promises more.

### Assembler

`HackAssembly` defines the kinds of line and, independently of the passes, what a program
assembles to: `RomAddress`, `Labels`, `Meaning`, `Instruction`, `Placed`. `Assembler` has one
action per line and pass, with the table, both counters, and the buffer `output` that `main`
hands to `parser` and writes afterwards unless it is empty. A computation is known by its
text, because the code compares texts; a destination is a set of letters, because the code
looks for letters. Words are kept as instructions rather than bits, except that an A-instruction
takes the low 16 bits of its number. `WellFormed` says which programs the assembler is for: symbols
it counts, mnemonics it knows, a label defined once, no line without an instruction where the buffer
still holds one, and few enough lines for an A-instruction to address. Its three properties are
promised for these; the first finding below is about a program that is not one of them.

### Jack compiler

`JackCompiler` is `CompilationEngine.c` with `SymbolTable.c` and `VMWriter.c`. `todo` is the C call stack: a
function that is called replaces its item by the items of its body, so that what remains
to be done by every active function, innermost first, is in the state. Most steps are one
call or one table access; consecutive tokens and commands that nothing depends on are one item
(`Put`). The compiler reads ahead by searching the *line* of a token for a text; `Has`
keeps that: a string constant may contain the text too (`marks`). A step needs a token that is left
(`Now`): what the code reads behind the last one is not modelled, so a class that ends too early
stops there. Otherwise the tokens may be any, and what is no keyword or kind the code knows has the
branch the code gives it. Only an operator is known by its whole text: where a string constant stands for
one, `write_arithmetic` searches it for an operator and exits if it finds none, and the model goes on
without a command.

`JackMeaning` is the reference and shares nothing with the compiler but the shape of tokens: a class is
a tree, its tokens are written from the tree, and its subroutines are evaluated on the tree
by the rules of the language (operands from left to right without precedence; a name is a
local's or a parameter's, else the class's). The code is evaluated on a stack machine with the segments
`VMachine` promises. Everything called is outside: a call leaves a trace and has a result
that depends on its arguments and on the number of calls before it, so a call that is
missing, doubled, reordered or given other operands is noticed. `Fuel` bounds the rounds of loops; evaluations that
exceed it promise nothing.

### Jack tokenizer and syntax analyzer

`JackTokenizer` is the loop over the characters of a text with its two flags. A text is a sequence
of symbols, quotes, digits, blanks, line ends and *words*, a word standing for letters that lie
together; two words with nothing between them are one longer word, so a separator that is lost
shows. `JackSyntax` is `CompilationEngine.c` of `projects/10` in the form of `JackCompiler`:
`todo` is the C call stack, and `Has` searches the line of a token as `strstr` does. `read_to_end`
is the exit from any depth. `JackAnalyzer` runs one after the other, and defines the
parse tree of a class by recursion on the class; the tree shares no rule with the engine.

A source is *plain* when its layout is one the tokenizer knows: a comment begins with two stars or two slashes,
ends its line, and does not touch a word in front of it (a comment opens without ending the word before
it). It is *clear* when no string constant holds a text the engine searches for where it stands. Other
sources are run, too, and only the type invariant is promised for them: all that is written was read, every line of it
once, and every tag is closed where it is the innermost open one.

### Jack OS

`JackMath` is `Math.jack` on words of `Bits` bits, compared by the sign of their wrapped difference, which is what
the translator makes of `lt` and `gt`; `JackString` the string buffer, with the words around
its memory kept so that a write outside shows; `JackConsole` the loops of `Keyboard.jack` with the cursor of `Output.jack`.
The keyboard is one word that a user changes between any two looks of the program. A *patient* user
holds a key until it was seen and waits for the next poll; the other does as he likes. What is
drawn is left out, because `Screen.jack` is empty here.

A loop of the source is the function from the number of rounds that were made to the values of its
variables. A recursion is the sequence of the arguments of the calls that wait for one another
(`Calls`, `Values`, `Numbers`), and the function that goes back over them. A sequence has a greatest length
(`MaxDepth`, `MaxDigits`): a divisor that is doubled as often as a word has bits is 0 and stays
0, so a recursion that gets there does not end (`Endless`; of the divisors the runs try, only 0 gets there), and
a number has at most `MaxDigits` digits after the first one, since ten is more than 2^3.

`Forever` is the word `readLine`'s loop tests. The source writes 1, for which the code of a loop
leaves at once (a finding below); the run `jack_os` sets it to all ones, so that the editor
itself can be checked.

### HTTP server

Every client has one connection, so a client names its connection and the child that
serves it. `holders[c]` is the set of processes that have the connection open: the client
sees the end of the answer when it is empty. The server's loop is `Accept`, `Fork`, `Close`;
a child goes through `read`, `respond`, `open`, `copy`, `done`, and every exit of it, normal or
not, is `Exits`. `detach_children` is the pair of flags the server installs its SIGCHLD handler with,
and both the handler and the exit of a child read it. `Touch` rewrites, replaces or removes
the requested file at any moment. `calm` is a history variable: the children for whom no
file changed since their `lstat`.

What is external: clients, the file system, and the kernel's part (backlog, reset of queued
connections, signals). They are modelled from how the code depends on them.

`HttpRequest` is the server of `lesson_14`: input and output are streams, and the process ends after one request.
The input is the lines `fgets` returns; a client sends them one by one, may stop anywhere, end its
input or go away. `heap` is the set of blocks allocated, and freeing or reading one that is not
there leaves a mark that stays. `out` is the buffer of the output stream: `Write` keeps a text
there or flushes, as the buffer's size may have it, and `exit` hands over the rest. Every allocation may fail.
The file at the path may be replaced, removed or change its size at any moment (`ChangePath`), and the open one may grow
or shrink while it is read (`ChangeOpen`). The header is made from the size `lstat` gave (`promised`), the body from what
is there when it is read; `changed` is a history variable: what is read changed after `lstat`.

### Shell and directory walk

`DirectoryWalk` is `4_8.c`: `disk` maps the paths that exist to their kinds, `fullpath` is the one
buffer, as text, and `stack` the calls of `dopath` that have a directory open. A directory's
entries come in any order, those that are there all the time once; an entry that was removed may or may not be
returned, and so may one that comes while the directory is read, even if a file of that name was returned
before (`Listed`).
`Change` removes, creates or replaces anything while the walk runs. What there is at the start is a
`Tree`: whatever lies below a path has directories above it, and no entry is named `.` or `..` (the
two that every directory has are skipped by `Rest`).

`Shell` is `sh1.c`. The line lies in a buffer and is cut into words in place, so `cmd.argv` holds
places in the buffer and `concat_command` reads what is there when it is called. The words' memory
has a size of its own (`block`), since `xrealloc` is given a number of pointers where it takes
bytes; a write beyond it is the state `overrun`, after which nothing is promised. Every command
costs two descriptors; when the child's `popen` finds none left the command does not run. `pclose` comes
right after `popen` and closes the only end the command's output can be read from, so a walk may be killed
wherever it prints (`sigpipe`); it need not be, for what it prints may be written before, or never leave its buffer.
The memory in which the command is joined is taken to be zero, and the input to be a terminal's
(a child does not consume the shell's input); nobody types a NUL.

## 3. Runs

| Run | Module, cfg | Question | Bounds |
|---|---|---|---|
| `vm_frames` | `MCVMBackend`, `MCVMFrames` | Does the calling convention keep frames apart and restore them, and implement `VMachine`? | every sequence of calls with 0-2 arguments, functions with 0-1 locals, accesses to locals, arguments and pointers, and returns, in a stack of 16 words: three frames deep. Two calls are followed by a label, and labels and functions without locals share their addresses with what follows. Two initial RAMs, since the convention must not depend on what memory held |
| `vm_commands` | `MCVMBackend`, `MCVMCommands` | Is every command right on every word and in every segment, as a block and instruction by instruction? | two bodies. Arithmetic: 6-bit words (`Half` = 32), every operand reached by arithmetic from 1 and 27, every pair that overflows occurs. Segments: the stack is next to the heap and to the static variable, so an index that is off by one hits another segment. Calls and returns occur once, for their code. A and D hold a negative word and 1 before each command (the theorem: any words) |
| `asm_programs` | `MCAssembler`, `MCAssembler` | Do both passes agree, and is the code the program's? | every program of up to four lines over two labels, three variables, a register, a number and a computation: forward and backward references, a label at the end, unused and repeated symbols. Labels are defined once |
| `asm_comment` | `MCAssembler`, `MCAsmComment` | a disagreement, see below | single programs |
| `jack_syntax` | `MCJackAnalyzer`, `MCJackAnalyzer` | Are the tokens and the parse tree those of the class, however its text is laid out? | classes with every rule inside every other: terms nested two deep in both places of an operator, statements in pairs and two deep, declarations of 0-3 names; one class with each of five plain gaps, two comments and a one-star comment at every place, every gap everywhere, and broken off after every token |
| `jack_classes` | `MCJackCompiler`, `MCJackClasses` | Does the code of a class do what its text says, and do names resolve to the right variable? | three families. Expressions: one or two operators over literals, variables of all four kinds, array accesses, three forms of call, strings, parentheses and signs. Statements: each alone and in pairs inside a branch or loop; branches and loops inside one another; up to four rounds of loops. Scopes: two and three subroutines of each prefix, with names shared between scopes and names declared elsewhere. 6-bit words, two environments per class |
| `jack_average` | `MCJackCompiler`, `MCJackAverage` | a disagreement, see below | the end of one program |
| `jack_os` | `MCJackConsole`, `MCJackConsole` | Is the line that is read the one that was typed, on the screen and as a number, and is the arithmetic under it right? | words of 16 bits, as in the machine. Lines of up to four keys out of two digits, minus and backspace, patient user, from two places; up to two keys from every place of a screen of 3 by 2; up to three keys by a user who does not look. A buffer of 6: lines of up to seven keys out of a digit and backspace fill it and go beyond; numbers of five and six digits around the largest word. 58 words around 0, 10, 100, 2^14, three quarters of 2^15, 2^15 and the square roots, each with 13 divisors |
| `jack_readline` | `MCJackConsole`, `MCJackReadLine` | a disagreement, see below | as `jack_os`, with the source's loop condition |
| `httpd` | `MCHttpd`, `MCHttpd` | Does the server stay up, hold one connection at most, tell the truth, and come to the end of every request? | two clients (either may stay silent for ever), room for one child, a backlog of one, a file of up to a full block of 2, one change of the files |
| `http_request` | `MCHttpRequest`, `MCHttpRequest` | Is a request answered once and whole or not at all, read to its end and no further, and all memory freed? | up to two fields out of six (two spellings of Content-Length, negative, fitting and too long, another field, a broken one), with or without the blank line, 0-2 bytes of body with at most 2 taken; four methods; a file of up to two reads that once, at any moment, comes, goes, grows or shrinks |
| `shell_walk` | `MCShell`, `MCShell` | Does each command have its line's words, does every line get read, and is everything that stays counted once? | every input of up to five characters out of two words, blank, newline and pipe, lines of six without newline inside that exceed the buffer (7), one session of five lines that exhausts the descriptors (10); directories of up to two entries, each possibly a directory with an entry, a closed one or a link; two changes while a walk runs; two directories open at most |

Why the bounds are enough. In the translator, a block reaches at most five words below the
frame and the frame of the caller; three frames give every block a caller with a caller. The
theorems below remove the bounds altogether for every safety property of the translator's machine,
the assembler, both HTTP servers, the shell, the walk and the Jack OS, the emitted code included; what rests on the bounds is liveness, the syntax
analyzer and what compiled Jack programs mean. In the assembler, each line
interacts with others only through the table and the counters; four lines hold a definition,
two uses and a line between them. The tokenizer keeps two flags and one token from character to character: a gap
after every token of a class that has every kind of pair meets each state; the engine looks two lines ahead.
The line editor's state is the buffer, the cursor and one key; seven keys make a
line below, at and beyond the length of the buffer, and the smallest screen with an inner column has every corner. In the server, a second client is
what a silent client can disturb, room for one child makes the failure of fork reachable, and one
change of the files falls between any two steps of a child. The walk restores the buffer level by level: two levels are open, and a third may fail to open. Two changes can take an entry away and bring another. `INIT_CAPA` of 3 lets lines
of 1, 2 and 3 words fill the memory below, at and beyond its size.

`CHECK_DEADLOCK FALSE` is set where the system really stops: the assembler ends, `lesson_14`'s
program exits, and the HTTP server may. The other models say where they end (`Finished`).

`MaxLocals` bounds the operand of `function`. In the code it stands for the buffer of 1024
bytes the block is built in: the model does not follow what happens beyond it. `BUFFER` is the table
of 1024 symbols; that a program fits in it is an assumption (`AssemblerAssumption`).

### Properties

*VM translator.* `SavedWordsIntact`: the five words a call saves are there when the frame returns.
`FramesNested`: LCL and ARG are those of the running frame, and frames lie one above the
other. `CallerUntouched`: no step changes a stack word below the running function's arguments.
`ReturnRestores`: a return restores the four pointers, resumes after the call, leaves the
result. `ImplementsVM`: the machine implements `VMachine!Spec`, with the frames read back
from the RAM. `CodeComputes`: the instructions emitted for a command, assembled and run on the
computer from whatever the registers hold, have the effect and the jump of its block.

*Assembler.* `LabelsPointAtOutput`: when the second pass comes to a label, its address is that
of the next word to be written. `VariablesApart`: variables have distinct addresses
outside the registers, and the second pass enters no symbol twice. `Assembled`: every instruction is where the reference says, with its
symbol resolved as the whole program defines it.

*Jack compiler.* `CompiledRight`: the code of every subroutine returns the same result, leaves
the same heap and static variables and makes the same calls as its text; the operand stack holds
nothing but the result at every return. `JumpsLand`: labels are written once in a class and jumps stay
in their function. `LocalsCounted`: a function asks for as many locals as its code names.
`GivesUpRightly`: a class is given up exactly when a subroutine uses a name neither it nor its class declares.

*Tokenizer and syntax analyzer.* `TokensRight`: the tokens of a plain text are those it was laid out
from. `TreeRight`: a tree that is finished is the tree of its class; a text that breaks off never
yields one. `TreeFinished`: the tree of a whole class is finished.

*Jack OS.* `CursorAtRest`: after every key the cursor is on the screen. `LineRead`: the line is what
the keys make of it, corrections applied, lies in its own memory, and `readInt` returns its number.
`KeysRead`: no key is read twice or out of order, and none of a patient user is lost. `LineReturns`:
the line of a patient user ends. `MathRight`: `multiply`, `divide` and `sqrt` are those of the integers;
`divide` where the divisor, doubled until it exceeds the dividend, does so as a word, whether it
overflows or not (`Divisible`; among the words of the runs the quotient is wrong exactly elsewhere). `NumbersRoundTrip`: of the numbers below three
quarters of the largest, 24575 and less, `setInt` writes the text and `intValue` reads it back; and `printInt` prints
that text for a number of several digits that does not go on after a 10. What becomes of the other
numbers is no property: the model computes it, and section 5 names what it means.

*HTTP server.* `ServerHoldsOne`: the server never holds two connections, so it cannot run out of
descriptors. `HonestLength`: if the file did not change after `lstat`, as many bytes follow as were
announced. `ServerStaysUp`: the server stops only on SIGTERM, on an error of `accept`, or when
as many children as the system allows are alive, never because a child ended.
`EndsOnceSent`: a client that sends its request comes to the end of its connection.
`QueueServed`: no connection waits in the queue for ever while the server runs.

*HTTP request handling.* `HeapBalanced`: nothing is freed twice or used after it was freed, and an
answered request leaves nothing allocated. `AnsweredWhole`: the exit status is 0 only after one
answer, the one the method and `lstat` ask for, with as many blocks of the file as its header announces unless
the file that is read changed between `lstat` and its end; then the status is 0 as well, and the answer as long
as what was read. A replacement after `open`, or a change before `lstat`, is no excuse. A request with anything wrong gets
no answer.
`ReadsItsBody`: the last Content-Length decides, and no more than that is read. `RequestEnds`: the
program ends once its input ends or the whole request is there.

*Shell and walk.* `WordsRight`: the command that runs has the words of its line; the parser leaves
its memory exactly for a line that begins with a pipe character or has `INIT_CAPA` words.
`RunsWhileRoom`: as many commands run as there are descriptors for, and the others do not.
`SessionEnds`: every line is read, whatever its command does. `PathKept`: in front of the place of
every open call the buffer holds the directory that call reads. `WalkedWhole`: nothing that is there all
the time is counted twice, and a walk that ends well counted all of it; what goes and comes again may be counted
again. If nothing changed, the walk ends well exactly when every directory can be opened, unless it is killed, and
counts every kind of file right. Of `ndir`, which counts files as well, nothing is said. `SessionEnds` includes the
session that ends because `fork` fails.

The type invariants are invariants of their own where they relate variables (`vm_frames`,
`jack_syntax`, `shell_walk`), and a conjunct of a property elsewhere (`ServerHoldsOne`,
`HeapBalanced`, `LocalsCounted`, `VariablesApart`, `CursorAtRest`).

Each property of a passing run has a mutant in `PROJECT.json`: an operator next to the mapped
one that changes it as a plausible bug would, and under which the property fails. Mutants are
marked as such in the modules and used nowhere.

### Fairness

In `Httpd`, `Fairness` is weak fairness of the accept loop
and of each child: they are processes the system schedules, and each of their steps is a
system call that completes. Nothing is assumed of clients, signals, files or failing calls. A
child writing to its client is taken to proceed, that is, the client's side accepts what is
sent: a client that never reads can hold its own child, which the properties do not cover.
The server's handling of SIGCHLD and its exit are not fair either.

In `HttpRequest` the program is fair and its client is not. In `Shell` the shell and its child are
fair, changes of files are not. `JackAnalyzer` is one sequential program (`FairSpec`). In
`JackConsole` the program is fair, because it polls in a loop, and so are the presses and releases
of the plan: a user who means to type a line types it, and lets go of a key. A key that is pressed
and released between two polls stays possible.

## 4. Theorems

Each holds for every value of the constants that the assumptions of its modules allow: every word
width, program, source, request, tree of files, session and bound.

| Module | Theorem | Property |
|---|---|---|
| `VMBackendProofs` | `TypeCorrect` | `Spec => []TypeOK` |
| | `SavedWordsSafe` | `Spec => []SavedWordsIntact` |
| | `FramesSafe` | `Spec => []FramesNested` |
| | `CallerSafe` | `Spec => CallerUntouched` |
| | `ReturnCorrect` | `Spec => ReturnRestores` |
| | `Refinement` | `Spec => ImplementsVM` |
| `VMCodeProofs` | `CodeCorrect` | `Spec => []CodeComputes` |
| `AssemblerProofs` | `VariablesOnce` | `AllWellFormed` implies `Spec => []VariablesApart` |
| | `LabelsRight` | `AllWellFormed` implies `Spec => []LabelsPointAtOutput` |
| | `AssembledRight` | `AllWellFormed` implies `Spec => []Assembled` |
| `HttpdProofs` | `OneDescriptor` | `Spec => []ServerHoldsOne` |
| | `LengthHonest` | `Spec => []HonestLength` |
| | `StaysUp` | `Spec => ServerStaysUp` |
| `HttpRequestProofs` | `HeapSafe` | `Spec => []HeapBalanced` |
| | `BodyRead` | `Spec => []ReadsItsBody` |
| | `OneAnswer` | `Spec => []AnsweredWhole` |
| `ShellProofs` | `ShellTyped` | `Spec => []TypeOK` |
| | `RunsSafe` | `Spec => []RunsWhileRoom` |
| | `PathsSafe` | `Spec => []PathKept` |
| | `WordsSafe` | `Spec => []WordsRight` |
| | `WalkCounts` | `Spec => []WalkedWhole` |
| `JackCompilerProofs` | `JumpsAlwaysLand` | `Spec => []JumpsLand` |
| | `LocalsAlwaysCounted` | `Spec => []LocalsCounted` |
| `JackConsoleProofs` | `CursorStaysOnScreen` | `Spec => []CursorAtRest` |
| | `EveryKeyOnce` | `Spec => []KeysRead` |
| | `LineIsRead` | `Spec => []LineRead` |
| | `MathIsRight` | `Spec => []MathRight` |
| | `NumbersAreRight` | `Spec => []NumbersRoundTrip` |

### Assumptions

* `HalfAssumption`: there are more addresses than registers. `BitwiseAssumption`: And and Or yield
  words and are commutative. `ProgramAssumption`: a program is made of commands; different places to which
  calls return have different ROM addresses, other points need not. `LayoutAssumption`: registers, statics, stack and heap follow one another;
  static variables have their own addresses. `InitialRamAssumption`: the RAM holds words.
* `AluAssumption`: a word and all ones is the word, and `Or` is `And` by De Morgan's law: the ALU has no
  disjunction of its own. `LeftoverAssumption`: the registers hold words; the theorem is about all that they may hold.
* `SymbolAssumption`, `AssemblerAssumption`: the predefined symbols are not user symbols; a source has
  lines of the five kinds and no more symbols than the table has places. `AllWellFormed` is a hypothesis of the
  theorems and no assumption, because `Assembler` also runs sources that are not well formed.
* `HttpdAssumption`: finitely many clients and files. `HttpRequestAssumption`: requests
  have the fields the module names.
* `WalkAssumption`, `ShellAssumption`: files make a tree (`Tree`, `Proper`), a process may have five
  descriptors, nobody types a NUL.
* `SourcesAssumption`: the characters of a string constant are numbers. Nothing is assumed of the
  order of tokens.

* `BitsAssumption`: a word has an even number of bits, six or more: `sqrt` looks at half as many bits as
  a word has, and ten is a word that can be squared. `ConsoleAssumption`: the screen has a place.
  `SessionsAssumption`: a line ends with its first newline and begins on the screen.

TLC evaluates each of them in the run that instantiates the module.

### Arguments

Each module states an inductive invariant, which TLC checked on the instance of the run before it was
proved. The proof that a step preserves it has one lemma per action, and under it one step per
conjunct the action can disturb.

*Frames.* `IInv == TypeOK /\ SavedWordsIntact /\ FramesNested`. None of the
three is inductive alone: the saved words survive only because writes go to the running
frame, which needs LCL and ARG to be those of that frame; and LCL and ARG are right after a
return only because the saved words survived. `Allowed` gives the rest: what a command may
write lies in the frame, the operand stack, the heap, temp, the static variables or the
pointers. First come lemmas about words (`WordOps`, `StackAddresses`), then one *effect* lemma
per block (`PushEffect`, `ParsePopEffect`, `CallEffect`, `ReturnEffect`, ...) that says which words the block
changes, and to what; the preservation proof uses the effect lemmas
only, never the chains of stores.

*Refinement.* The refinement mapping reads the frames of `VMachine` back from the RAM. A command that
works in one frame changes cells of that frame only, so that all frames below are read as before
(`KeepsBelow`); a call turns operands of one frame into arguments of another; a return gives them back.
`RInv` adds to `IInv` what the mapping needs where a function has been called and not yet entered
(`Entered`): such a frame is the newest and has no operands yet, no frame that waits is being entered, and no caller's
return address is the bootstrap's. The words of the abstract machine are compared through
lemmas about the wrapped arithmetic (`SameWrap`, `SubResult`, ...), once signed and once not.

*Emitted code.* What a command's code does is put together from what its parts do. `Gives` says of a
sequence of instructions that it runs, from wherever it stands in a longer code and whatever the registers hold, to
its end, and which RAM and D it leaves; `Joined` chains two of them. There is one such lemma per fragment the C
functions share (`push`, `pop`, the address of a segment, the fetch and deposit of a word), each a few cycles of the
computer with the ALU's bits for its mnemonics. A run is a recursive function of the number of cycles; that it is defined, and that
the cycles behind a jump out change nothing, are inductions over sets of numbers (`AllNumbers`). A comparison has two
paths through one code and is followed on each. The code of `function` is one push longer for each local, and after n
of them n words of the stack are zero, while `Room` keeps them below the heap; the stores of a call and of a return are compared with
those of their block one by one. `InductiveInvariant` of the frames is what gives the types of the RAM.

*Assembler.* `IInv` says what the table holds while the passes run: the predefined symbols, after
them the labels of the lines passed, each with the ROM address of its line (`LabelsEntered`), after them the
variables in the order of their first use, numbered from 16 (`VariablesEntered`); and that the words
written are those of the lines passed (`Written`). That the passes agree is then that both count the same
lines. Which variable is the n-th is a statement about counting, for which sets of lines are compared
by cardinality.

*Compiler.* The invariant speaks of the code written and of the code that waits in `todo`, together. A label
is in one of the two, once, and has a number that was given out (`LabelsApart`); the label of a jump
is written in the jump's function or waits for it (`JumpsKept`), and then no other function is begun
before it is written, because a function is only begun where nothing but the members of the class is left (`Layout`). At the end
nothing waits. The last conjunct is given up when a name is not found: that compiler exits in the midst of a
function. For the locals, an index in the table is below the count of the kind (`Tabled`), the
count is the one the function was declared with from its first command to its last, and what waits
names no local: `write_name` looks one up at the moment it writes. There is one lemma per rule of the grammar; each replaces
the head of `todo` by items and appends commands, so general lemmas say what such a step keeps
(`QuietApart`, `Replaced`, ...).

*HTTP server.* `ServerHoldsOne` rests on where each connection may be (`OneInHand`, `Waiting`): in the
backlog, with the server, or with its child; a child that serves one never gets it back.
`HonestLength` rests on `HonestAt`: a child for which nothing changed has an open file of the size that was announced,
and what was sent and what is left make that size.

*HTTP request handling.* The heap is an exact function of the program's place: `Allocated` says which
blocks there are at each, fields one by one while they are read and while they are freed. `Listed` and
`Judged` relate the list and the length to the lines consumed, `Printed` the text in the
stream's buffer and at the client to the answer that is due; what is flushed early is a beginning of it.

*Walk.* `PathKept` needs more than itself: every open call's directory is an entry of the one around
it, spelled in the buffer up to its `ptr` (`Nested`), and what is looked at is an entry of the innermost (`Looking`).
For `WalkedWhole` the invariant speaks of what is still to come, `ToCome`: an
entry that some open call has not returned yet, below the part of its path on which the calls
agree. A change may put an entry back among those to come, but takes it from what was there all the time, of which alone
the invariant speaks. Counted and to come are apart (`Taken`, `Once`), and everything that was there all the time is
one or the other (`Kept`); at the end nothing is to come. The counters are cardinalities of what was
visited (`Counted`). Where nothing changes, nothing unreadable was passed (`Seen`).

*Shell.* The number of descriptors is a function of the number of commands started (`RoomInv`). For
`WordsRight` the line in front of the parser has an end for every blank and is unchanged elsewhere
(`CutOff`), and the command lists the places in front of the parser where words begin, in their order
(`Lists`). The reference `Split` picks the n-th word by counting, so the last step is that a list of
numbers in order is picked by counting, too (`NthOf`).

*Jack OS: arithmetic.* A recursive function has a value only if some function satisfies its equation. `Loop`
gives one for every loop whose rounds stay within a set; `AllRounds` says that what holds before the first
round and is kept by each holds after the last. Both rest on the least number
(`LeastNumber`), which the library's well-founded order of the numbers gives. Words are compared by what they
are modulo 2^Bits (`Same`, `AsWordSame`): after n rounds of `multiply` the result is x times the last n bits
of y, whatever overflowed on the way. For `divide` the calls have the divisor times 2^k, and stop at the k
that `Divisible` allows (`CallsAre`): before it the comparison of a dividend and a smaller divisor cannot wrap, and at
it the doubled divisor exceeds the dividend even if it overflowed. Back from there the quotients are the integer
parts, because all that is multiplied is small (`DivideIs`). Ten divides every word below three quarters of the largest
(`DividedIs`): its multiple that exceeds such a word is at most 5/4 * 2^(Bits-1). For `sqrt` the root lies between the candidate and the candidate plus what the rounds
left can add (`SqrtIs`): a candidate has half the bits of a word, so its square is below 2^Bits and as a
word either itself or negative, and a negative one is rejected.

*Jack OS: keyboard.* `Consistent` is the type invariant with the place of the cursor between the keys; an
echo goes back and forth over places that may lie in row -1, but only beside its right end
(`ReturnsToScreen`). `Keyboard_` says that the keys taken are some of those pressed in their order
(`Chosen`), none of them the one that is down while it is polled; of a patient user they are all. `Editing` says that the
buffer's memory holds the line the handled keys stand for (`Holds`) as long as they fit. `LineIsRead`
joins it with `IntValueIs`: after n characters the sum is the value of the first n times the weight of the rest, as
words, and the weights come out of `divide` exactly because the first one did not overflow.

*Jack OS: numbers as text.* The calls of `intToString` inside one another are for a number without its last k
digits (`Left`), up to the first with one digit (`ValuesAre`); `DigitsIn` is the digits they leave, the first one
with whatever stands in front of it. Going back, the string holds a beginning of them after every call
(`IsStart`, `BuiltIs`). A text of all digits is the shortest text of the number exactly if the first one is
a digit, and no zero (`TextIs`). `setInt` always comes to such a one (`SetIntIs`). `printInt` stops at the first call
that has ten or less in front of its digit (`PrintedIs`): that is a zero for the numbers below ten, which are left out, and 10
only where some beginning of the number is, which is left out too; elsewhere it is the first digit (`PrintIntIs`).

### Only model-checked

* Liveness: `EndsOnceSent`, `QueueServed`, `RequestEnds`, `SessionEnds`, `TreeFinished`, `LineReturns`.
  Fairness and ENABLED are out of the prover's reach.
* `CompiledRight` and `GivesUpRightly` of the Jack compiler; everything of the syntax analyzer.
  `JackTrees` and what extends it (`JackMeaning`, `JackAnalyzer`) declare recursive operators, and no
  theorem can be stated there: the tree of a class is a recursion over classes, and what it is for
  every class is an induction over data. `JackTokenizer` and `JackSyntax` declare none, but their
  properties speak of trees (`JackAnalyzer`).

## 5. Findings

Each of these is a run that is expected to find a violation.

* `asm_comment`: a blank or comment line leaves the output buffer as it was, and `main`
  writes it again: a source that begins with a comment starts with a word that was never set.
* `jack_average`: the command for a division is written with the length of the one for a
  multiplication; the two stray bytes hide the next command from the translator. The committed
  `projects/11/Average/Main.vm` has them in front of the call that prints the average.
* `jack_readline`: `Keyboard.readLine` loops on `while(1)`. The code of a loop negates its condition
  and leaves when the result is not zero; the negation of 1 is -2, so `readLine` returns an empty
  line before it reads a key. The committed `Keyboard.vm` has that code. (`while(true)` loops: true
  is -1.)

What else was met while modelling; no run of its own is spent on it:

* The assembler counts 22 of its 23 predefined symbols (`assembler.c:32`): KBD, the last, is never
  found, `@KBD` becomes a variable, and the first new symbol overwrites the entry. `Init` and `First`
  of `Assembler` have the code's count.
* The assembler knows the sum of A and D only as `D+A`. Any other text has the bits of `D&A`
  (`parse_comp` in `HackCPU`); `projects/04/fill/Fill.asm:30` has `A=A+D`.
* `printInt` prints one-digit numbers with a zero in front, and numbers that begin with 10 and go
  on, 105 say, with the character after 9 (":5"). `Output.jack:252` says that it prints the number, and
  `StringTest/Main.jack:39` expects "length: 5", for which the code prints "length: 05". `NumbersRoundTrip` leaves these numbers
  out.
* `divide` is wrong where its doubled divisor overflows and comes down to the dividend or below, and does not end for a
  divisor of 0; `Divisible` is the condition under which it is right. The smallest number that ten divides wrongly is
  24576, which `setInt` turns into "90112". `StringTest/Main.jack:33-35` sets -32767 and expects that text: with the
  comparison this repository's translator writes, the recursion ends with a wrong quotient and the text is "-98303"; with one
  that does not wrap it would not end. `NumbersRoundTrip` leaves these numbers out.
* `read_value_to` (`projects/11/CompilationEngine.c:32-47`) drops every `>` of a string constant, and what follows a `</`. The
  strings of the runs have neither.
* `intValue` begins with the weight of the first digit, and a sixth digit's is no positive word any more
  (`Weighed` keeps `LineRead` to the numbers that have one).
* `String.jack:64-65` says that `intValue` reads up to the first character that is no digit; the
  code takes every character.
* `eraseLastChar` on an empty string makes its length -1, and on a full one clears the word behind
  the array (`Fits` keeps `LineRead` to the lines where neither happens).
* `myfunc` of the walk has no `break` after counting a file (`4_8.c:99-110`), so `ndir`, which line 33 prints as the number of
  directories, is that of all entries. `myfunc` has it so, and no property takes it for right.
* The child of the shell calls `pclose` right after `popen` (`sh1.c:72-76`): whether a command's output is written before
  the pipe is closed is a race, and a command that writes later is killed.
* `lesson_14`'s server announces the size `lstat` gave and sends what it reads later: when the file changes in between, the exit
  status is 0 and the body has another length (`AnsweredWhole` says exactly when).
* The shell counts pointers where `xrealloc` takes bytes, parses a line that begins with a pipe
  character for ever, and keeps two descriptors per command; when they run out commands are dropped
  without a message of the shell's.

## 6. What is not modelled, and why

* The cutting of a line into commands and operands, in the translator, the assembler and the request
  readers: only its outcomes are enumerated (commands, lines, fields, methods or "malformed").
* Lines and names longer than their buffers, in the tokenizer, the walk and the shell's command.
* What the compiler reads when the tokens end too early, and what its code means for classes that
  break the grammar in other ways; the parse tree `projects/11` writes
  beside its code; calls to a name that is also a variable in scope, where the compiler takes the
  name after the dot for a variable (`projects/11/CompilationEngine.c:187`).
* The scope of labels across files: a label is a point of the program text, so two equal labels
  of two classes cannot meet in the model. Listed as a hazard.
* The translator's buffers of 1024 bytes per command (`MaxLocals` stands for what fits) and its
  reading of comments (`vm_backend.c:198`); the assembler's table of 1024 symbols.
* `println`, `moveCursor` and everything drawn in `Output.jack`: `Screen.jack` is a class of empty
  functions, as are `Memory.jack` and `Sys.jack`.
* Options, chroot and becoming a daemon in the HTTP server: they run before the first connection.
* `unix/sock/web.c`: a GET reads a pointer that was never set, so nothing can be said of what follows.
* `projects/07/vm_backend.c`: the translator that 08 replaces; nothing uses it.
* Memory chips and gates: combinational, or an array of words.
* Exercises, contest solutions, demo programs, other authors' tools: no state worth a model.

## 7. Plan

Done: the VM translator with its abstract machine, its emitted code on the CPU, and the theorems
about the frames, the refinement and the emitted code; the assembler; the tokenizer with the syntax analyzer; the compiler with its symbol table;
arithmetic, strings and line editor of the OS; both HTTP servers; the shell with the
directory walk; the theorems of section 4.

1. **Theorems**: the safety properties of the modules without recursive operators are proved. Next is
   the part that can be taken out of a module with them: the tokenizer and the position of the syntax
   analyzer in its tokens (the type invariant of `JackAnalyzer`) apart from the trees.
2. **Labels across files**: the classes of a directory translated together, where equal labels of
   two classes meet.
3. **The compiler on broken classes** (run, and not only proved about), and names that are variables and methods at once.
