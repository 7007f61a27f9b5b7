# A verification of roblib

roblib is a C23 utility library: arenas and pools of memory, a character ring
buffer, a JSON parser and printer, a hash map, a string counter, lists, vectors,
bit sets, slices and string builders. This directory holds TLA+ models of it, TLC
configurations that check them on small instances, and TLAPS proofs for all
instances. Source paths are those of the repository, under its `src/` unless they
say otherwise; a bare file name with a line is the file of that name in the
library.

- [Inventory](#inventory): the parts of the system
- [Modules](#modules): which module models what, and how it corresponds to the code
- [Runs](#runs): what each run checks and shows, its bounds, its fairness
- [Disagreements](#disagreements): where the code does not do what it says
- [Seen on the way](#seen-on-the-way): what the models had to allow for
- [Proofs](#proofs): what holds for every value of the constants, and why
- [Not modelled](#not-modelled)
- [Plan](#plan)

## Inventory

The build (`CMakeLists.txt`) takes in the collections, the memory allocators,
the strings, the hash map, the array list, the bit set, the JSON parser, the
Unicode tools and the file helpers. `string_counter.c`, `set.c`,
`bitset_dynamic.c`, `vector/`, `array/`, `carray/`, `string_buffer.c`,
`string_utils_utf8.c`, `munit/`, `punit.c` and `toml_parser/` are in the tree and
not in the build.

| Part | State | Operations | Hard | What makes it correct |
|---|---|---|---|---|
| Arena (`memory/allocator.c`) | chain of OS blocks, cursor, capacity and growth flags | create, alloc, marker, pop, reset, destroy | reuse of the blocks kept by a reset or pop; padding across a pivot; a marker lives in the memory it marks | chunks are disjoint, aligned, within their blocks; a pop gives back exactly what was taken |
| Scratch arenas (same file) | two arenas per thread | get, release | nested use with only two arenas; conflicts; a creation that fails | results outlive the scratch they were made with |
| Object pool (same file) | a free list in the objects | alloc, free | small objects, alignment, double free | each slot is handed out once |
| Ring buffer (`string/char_ring_buffer.c`) | buffer, start, end, length | add (overwriting, strict), get, peek, advance, sprint, fill | wrapping; full against empty; batched adds | a bounded queue |
| File source (`json_parser.c` 140-308) | stdio position, look-ahead buffer, look-behind buffer, text position | current, peek, look ahead, advance, sprint | three positions that advance separately; unknown or wrong length | a cursor over the file |
| Parser (`json_parser.c` 477-2060) | text position, C stack, depth counter, scratch memory, the tree in the arena | parse value, object, array, string, number, keyword | every way out of a nested call; end of text; commas; escapes; refused memory | accepts exactly JSON, returns its value, leaves the context as it was |
| Entry points and report (`json_parser.c` 2064-2620) | files, handles, the error struct | parse a string, buffer, file, pipe, url; print an error | what is open at each failure; an error struct used again | everything is closed; the error is this call's; the report marks the character to blame |
| Global configuration (`json_parser.c` 436-495, 2064-2073, 2496-2546) | four atomics, one heap string | init, destroy, copy at the beginning of a parse | several threads, one atomic operation at a time | one configuration per parse; no freed string is read; none leaks |
| Contexts (`json_parser.c` 2073-2125, 2496-2610) | white space, its table, flags, depth, separator | create, copy, set, parse | a table made from a string that was set later | what was set last is what counts |
| Pretty printer (`json_pretty_printer.c`) | a table of spaces that all threads share | print to a stream or a builder | the table is filled while others read it | the text read back is the value |
| Hash map and set (`map/hashmap.c`, `set/set.c`) | bucket array of chains, size, fill capacity | create, put, remove, get, clear, destroy | growth relinks every node; any allocation may fail | a dictionary |
| Keys and values (`collections.c`, `map/hashmap.c`) | policies: copy, take, share, none | add, set, free; equality, hash | the policy is asked again when the item goes; doubles that are equal and differ | every string is freed once, by its owner; equal keys hash alike |
| String counter and pool (`map/string_counter.c`) | a map of counts, behind another map's values | ref, unref, intern | reference counts against borrowed strings | a string lives while it is counted |
| Memory pool (`memory/memory_pool.c`) | list of pages | alloc, calloc, realloc, reset, destroy | first fit; one owner among many users | chunks are disjoint |
| List, vector, arrays (`list/`, `vector/`, `array/`, `carray/`) | buffer, size, capacity | append, insert, remove, grow, ranges | growth limits; failed growth; `size_t` at 0 | a sequence; no access outside |
| Bit sets (`set/bitset*.c`) | words | set, clear, test, masks, groups | words of a mask and of the set differ | flags do not disturb each other |
| String builder (`string/string_builder.c`) | buffer, length, capacity, an arena or none | append, insert, shorten, build | extends in place what lies at the arena's top | the text is kept; so is everyone else's |
| Slices, strings, UTF-8 (`string/`, `unicode/`) | places in buffers | split, chop, trim, compare, decode | delimiters at the ends; full out-buffers; truncated sequences | slices do what strings do; three readers of UTF-8 agree |

The parts interact by calls only. The parser allocates its values in a client's
arena and its temporaries in a scratch arena; it reads a file through two ring
buffers; its values and its look-behind buffer live in the same arena. The hash
map and the list allocate through a memory policy, which is malloc or a memory
pool; a map's string values may be a string counter's, which is a map itself. The
builder grows at the top of an arena that others use. Only the global
configuration of the parser and the printer's table of spaces are shared between
threads: `allocator.h` says of itself that it is not thread safe, and nothing else
keeps global state but the scratch arenas, which each thread has.

`PROJECT.json` lists the components with their status, and under `hazards` what
is hard to test in this code, line by line, with the properties that watch it.

## Modules

| Module | Stands for | Compared with |
|---|---|---|
| `Arena`, `ArenaProofs` | `memory/allocator.c`, arena part | |
| `ScratchArenas` | scratch arenas of a thread, and the functions that nest in them | |
| `PoolAllocator` | `AlokPool` of the same file | |
| `CharRingBuffer`, `BufferProofs` | `string/char_ring_buffer.c`; the macro `CHAR_RING_BUFFER` | `CharQueue` |
| `FileInput`, `FileInputProofs` | file and stream source of the parser | `FileCursor` |
| `JsonParser`, `MCJsonParser`, `JsonParserProofs` | the recursive descent over characters | `JsonGrammar` |
| `JsonString`, `MCTexts`, `JsonAndTextProofs` | `pvt_parse_string`, byte by byte | `Unicode` |
| `JsonTree` | the value built in the arena, memory refused | |
| `EntryPoints` | the calls, the error struct, the report | |
| `JsonGlobals`, `JsonAndTextProofs` | init, destroy and the copy of the globals | |
| `ParseContext` | a context from parse to parse | |
| `PrettyPrinter` | `json_pretty_printer.c`, two threads | `JsonReader` |
| `HashMap`, `HashMapProofs` | `map/hashmap.c`, `set/set.c` | `Dictionary` |
| `ColValues` | equality and hash of keys, values and reference strings | |
| `Ownership` | key, value and element policies: who frees | |
| `StringCounter`, `CounterClient` | `map/string_counter.c` and a client of it | |
| `StringValues` | a map's string values, default and pooled, memory refused | |
| `MemoryPool` | `memory/memory_pool.c` | |
| `ArrayList` | `list/array_list.c` over `MemoryPool` | `AbstractLists` |
| `Vector` | `vector/`, and the index computations of `array/` and `carray/` | `AbstractLists` |
| `BitSet` | `set/bitset*.c` | |
| `StringBuilder`, `BufferProofs` | `string/string_builder.c` | |
| `StringSlice`, `JsonAndTextProofs` | `string/string_slice.c` and a client that splits | `StringUtils` |
| `StringUtils`, `Utf8Tools` | `string_utils.c`, `string_buffer.c`; the other two readers of UTF-8 | `Unicode` |
| `MCStructures`, `MCContainers`, `MCDocuments`, `MCTexts` | collect several of these in one run | |
| `DocumentsProofs` | theorems about `EntryPoints`, `ScratchArenas`, `JsonTree`, `PoolAllocator` | |
| `ContainersProofs` | theorems about `Ownership`, `BitSet`, `StringCounter` with `CounterClient`, `Vector` and the index computations beside it, `ArrayList` over `MemoryPool`, `StringValues` | |

Where a module's constants fit a configuration it is run as it is; otherwise `MCX`
gives `X` its constants and a reference definition to compare with. The four
collecting modules choose in the initial state, by
`subject`, which of their parts moves; the others stay as they began, so that
their parts are explored side by side and not multiplied. Operators whose name
ends in `_` and a phrase (`Marker_MarksItself`) are faults, kept beside the
definition they are a fault of: put in its place they break a property, which
shows that the property watches that code.

### Memory

**Arena.** `blocks` is the chain as the sizes of its blocks, `base` the addresses
at which the operating system mapped them, `current` and `offset` the cursor.
Alignment, padding and headers are computed as in C, contents are left out. A
chunk lies in the memory of the process, from its block's address on, so one that
runs past its block comes to lie where another block may be. What a call does then
is `Answer`: if it wrote over the header of another block, or if there is no memory
behind, the process is lost; otherwise the call returns. The
ghost `live` lists the chunks the client owns, a marker being one of them, since
the code allocates it in the arena; popping a marker takes it and everything after
it out of the list. An allocation has the three cases of
`pvt_alok_arena_alloc_impl`: in the current block, in the next one that the chain
still has, in a block mapped for it, at any address of `Mappable` where no block of
the arena lies. The operating system may refuse a block at any time. Markers are
popped once: the code keeps a stale flag, and the client that pops a stale marker
is left out.

**ScratchArenas.** Functions call one another; each takes a scratch arena with a
conflict list (or, like `pvt_parse_string`, without one), puts its result in an
arena of its caller's, and releases the scratch, which pops a marker. Contents of
an arena are a sequence, so that a pop in the wrong place loses a result.

**PoolAllocator.** The free list lies in the objects, so memory is modelled, in
half pointers: a pointer over a smaller slot is seen to overwrite its neighbour.

**MemoryPool.** Pages of words, searched newest first. `ArrayList` puts several
lists in one pool with their elements as words of it, so what one list writes and
another reads is the same memory.

### Text in, text out

**CharRingBuffer.** The record `crb` is the struct. `Store` gives the effect of
the copying loop in closed form. `Spec` has the calls the library makes, and
filling from a reader by a client that keeps to buffers whose room is where the
code takes it to be. The macro `CHAR_RING_BUFFER` generates the same functions for
a fixed size; the second half of the module (`GeneratedNext`) has those with their
loops, turn by turn, and the run lets a client mix them with the first: either implements the same queue.

**FileInput.** The two ring buffers are taken for the queues that
`CharRingBuffer` is shown to implement. A file may be shorter than `ftell` said,
or of unknown length. It may not grow after its length was taken: the parser
would not see what was added. Each function of `Input` is an action; the parser
may call any of them at any time, except that it only advances over characters
it has seen, as its code does.

**JsonParser.** The C stack is explicit: `frames` has one entry for each
`pvt_parse_object` or `pvt_parse_array` that is running, `pc` says where the
innermost stands. Scalars (numbers, strings, keywords) parse in one step, by
operators that walk the text as the code does. Characters stand for classes: one
keyword for three, two digits for ten, one letter. The ends of a text are kept
apart: NUL in a string, and in a file EOF, which the code casts to a char and so
is the byte 0xFF. A number goes through its buffer of `NumberRoom` characters (1024
in the code). A number that fills it gets no NUL, so `strtol` and `strtod` read what
lies behind the buffer too: `NumberValues` is a set, with `Behind` for the digits
that may be there. A value is a long up to `MaxLong` or a double up to `Huge`.

**JsonString.** One turn of the loop of `pvt_parse_string` is a step, over real
bytes: short escapes, `\u` and `\U`, pairs of surrogates, and the checks of raw
UTF-8. What must come out (`Denoted`) is a function of the text alone, in the
module's last part: pieces of a text are an escape, a pair of surrogate escapes or
a raw character, and each means what `Unicode` says, which has only the
standard's ranges and the shortest encoding.

**JsonTree.** The allocations of `pvt_parse_value`, object and array, in order:
members are a list with the newest in front until the closing bracket makes an
array of them from the back. The arena may refuse any of them.

**EntryPoints.** A call opens, reads, parses and closes in steps, each of which
may fail. The error struct is memory that the next call finds as it was left: the
buffers it shows have their NULs and their stale ends. `Report` is what
`jsonp_print_parse_error` writes, with its two markers.

**ParseContext.** Contexts made, copied from the globals, set and used; the white
space string is cut as `snprintf` cuts it, in the setter and in the copy, and the
table is made from what was kept. The ghost `given` is the string before that.

**PrettyPrinter.** Two threads print values, and read and fill the table of spaces
row by row. What is printed is a sequence of pieces; `JsonReader` reads it back.

**JsonGlobals.** One step per atomic operation, any number of threads. A
configuration is one value that init stores three times, so a context that mixes
two configurations shows. Reading a freed string, which is undefined, gives any
content. With `Careful` the clients keep init and destroy apart from the calls
that copy the globals; without it they keep only the rule of the header (no call
between destroy and the next init).

**StringBuilder.** Builders in an arena among other allocations, in and out of a
temporary scope, or on the heap. Every byte of memory is there, so a builder that
grows over a neighbour overwrites it. Memory above the mark of a scope that has
ended holds what was written there (`FILL`), and `Alloc` clears what it hands out,
as `allocator.c:361` does. `sb_insert_str` needs that: it moves the text and not the
NUL behind it.

**StringSlice, StringUtils, Utf8Tools.** A slice is a place in a buffer with
neighbours, so a function that looks one too far sees something. The client takes
a text, any part of a buffer, apart in two ways; the pure functions are compared with their twins for C
strings on the same texts, and the readers of UTF-8 with the standard.

### Collections

**HashMap.** A bucket is the sequence of its nodes, newest first. Growth walks
the old array and puts each node at the head of its new bucket, as the code
does, so the order within the chains is that of the code. Each allocation
(bucket array, node) may fail. The loop that looks for a new size never changes
what it tests; where it does not stop at once, the call hangs (`PutHangs`). The
constant `Sizes` has the numbers of buckets that a map can have, each of them but
the last with its double. Keys and values are compared and not copied. A set is a map whose values are
`DummyValue`.

**StringCounter, StringValues.** Cells of memory hold texts or are free. An
operation of the counter is the set of its outcomes, memory refused or not, so
that it can be used by itself (`CounterClient`) and as the pool of a map
(`StringValues`). The client keeps what `map_get` lends it, in `held`, and may put
it again.

**Ownership.** A deal (role, policy, kind of string) is chosen once; the client
makes items, gives them, takes them out and frees what the contract says is its
own. Reference strings have two cells, object and text. `map_set_value` asks the
policy for string values only: a long reference put as a value is kept as it is,
under every policy, and its object is freed as if it had been copied.

**ColValues, Vector, BitSet.** The pure functions of keys and values are operators.
A vector's buffer is a sequence; the elements that a call on an array touches are
a set of indices. A word of a bit set is the set of its bits.

## Runs

Five runs pass and seven must fail, each of these by one property that states what
a comment of the code says.

| Run | Bounds | Shows |
|---|---|---|
| `structures`, arena | sizes of a 64-bit POSIX build, pages of 4096; 3 blocks, mapped at 0, 4096 or 12288; 3 chunks; sizes 5, 1300, 4072, 8000; alignments 1 and 16; one- and two-page arenas | chunks that caused no pivot, or that any block has room for, overlap neither one another nor a header in the process's memory; a pop through any markers and blocks gives back exactly what was taken; a request that fits a page with a header and its worst padding stays in its block |
| `structures`, ring buffer | capacity 3, two characters, adds of up to 4 | implements `CharQueue`, and so do the generated functions |
| `structures`, file source | files of up to 7 bytes, buffers of 4, look-ahead of 3 | a cursor with a window behind it |
| `structures`, hash map | tables of 2, 4 and 8 buckets, 6 keys of which two pairs collide in every table, a value and the null value | implements `Dictionary`; the table grows in time unless memory is refused; a lookup finds each entry and their number is the size |
| `structures`, globals | 3 threads, 2 configurations, 2 addresses, symmetric | with careful clients no freed string is read, no context mixes configurations, no string leaks |
| `arena_overrun` | the same | fails: see below |
| `json_parser` | every text of up to 2 of 20 characters, and every edit of one character of ten documents up to 14 long; four entry points; three contexts with depth limits 1 to 3; a number buffer of 8 with nothing or a digit behind it, longs to 10 | returns; depth counter equals nesting and is back to 0; accepts exactly the texts of `JsonGrammar`; a number shorter than the buffer has the value of its digits |
| `json_globals_destroy` | 2 threads, clients that follow the header only | fails: see below |
| `texts` | bytes on both sides of every bound of UTF-8, every escape alone, in pairs and broken; texts of a few characters with neighbours, two delimiters, batches of 1, 2, 3 and 9 | strings mean what the standard says; the readers agree; splitting and chopping give the pieces; slices do what strings do |
| `texts_chop` | the same | fails: see below |
| `containers` | pages of 4 words, 8 words in all, 2 lists of up to 2; a vector of up to 4; 5 flags in words of 2 bits; a `size_t` of 6 values; 4 cells, 3 keys, 2 texts, counts to 3; 5 cells for the policies; texts up to the size of a pointer (3) | lists and vector are sequences; accesses stay inside; flags are kept; strings are freed once, by their owner; values keep their text; references hold; comparisons agree |
| `containers_reuse`, `containers_reference` | the same | fail: see below |
| `documents` | 2 threads and a table of 6 rows; 3 calls with a window of 3; 2 builders in blocks of 6; 3 pool objects of 1 to 3 half pointers; 3 nested scopes; trees of depth 2 with 3 members and 5 cells; 2 depths, 2 flags, white space strings on both sides of the code's room of 7 and the header's of 8 | the printed text is the value; handles are released; the verdict is of this call; the report shows the place; builders, pool and scratch keep what they hand out; the tree is the text; a context skips the white space given last |
| `documents_pivot`, `documents_whitespace` | the same | fail: see below |

**Why the bounds are enough.** Three blocks give the arena a head block, a block
before the last and a last one, which is every case of the chain; the sizes
leave nothing, a little and more than a block; the three addresses let a block be
mapped right before, right behind and apart from another, so that a chunk which
leaves its block meets a header, another chunk or nothing. A ring of three with adds of four
has every relation of start, end and length, and an add longer than the buffer.
A file of seven bytes wraps both buffers of four. Two nested containers with
their separators, and every fault of one character in them, are within the texts
of the parser. Three threads allow an init, a destroy and a parse at once. Six
entries fill the largest of three tables, so that growth by doubling, growth at
the limit and growth after refusals all happen. A list that doubles from one to
two moves once in a pool that another list uses; a vector of four is grown twice.
Five flags over words of two leave a word half used. Four cells let a map have a
copy, the pool another, the client a third and memory still run out or be
available. Two depths, three scopes and two scratch arenas are one scope more than
there are arenas. Blocks of six with builders of two make a builder grow in place,
move, and leave its block. A window of three is shorter than the texts, so the
report begins in their middle.

**Fairness.** Only `JsonParser` has a liveness property, `Terminates`. It assumes
`WF_vars(Next)`: the parse is one call in one thread, which the operating system
runs on until it returns. No step waits for another thread.

**Deadlock** is off for `structures` (a null marker was written through, or memory
that is not the arena's, after which the program is gone; a call of the map
hangs), for `json_parser` (the call has returned), and for `texts`, `containers` and `documents` (the
text is used up, the bounds are met, or a null pointer was followed).

## Disagreements

Each is a run that TLC must find violated.

- `json_globals_destroy`: `json_parser.h:263` says that init and destroy may be
  called freely between parses and that a pending parse in any thread runs to
  completion. A parse that has loaded the pointer to the white space string
  copies it after destroy has freed it.
- `containers_reuse`: `hashmap.c:622` says that string values are copied so that
  the map can free them independently of the arguments. `map_put` frees the old
  value (line 637) before it copies the new one, so a string that `map_get` lent
  and that is put for the same key is copied after it was freed. Setting the new
  value first would do.
- `arena_overrun`: `allocator.c:443` says that an allocation returns a "chunk in
  the arena", or null. A pivot into a block kept from before a reset or pop takes
  the block whatever its size (line 315), and the padding that was computed for the
  offset in the old block is applied to the one in the new block (line 363), which
  no size allows for. So the chunk returned, and what `memset` clears, can end
  behind its block. This takes no kept block: an arena with 5 bytes in use asked
  for 4072 at alignment 16 maps a page, whose 4096 bytes are the header and the
  chunk, and places the chunk behind the padding. `LiveDisjoint` and
  `SmallInBlock`, which are proved, say which requests are safe all the same.
- `containers_reference`: `collections.h:58` says of the policy COPY that the
  collection makes a copy, owns it and frees it. `map_set_value` (`hashmap.c:398`)
  asks for a copy of string values only and stores a reference as it is; when the
  value goes, `col_policy_value_free_default` (`collections.c:41`) frees the
  object of a long one, which is the client's. `FreedOnceByOwner` is about
  the deals that are kept: values that are strings, and references that are shared.
- `texts_chop`: `string_slice.c:353` says that the piece before the delimiter is
  returned, and the whole only if there is no delimiter. The loop (line 368) ends
  before the last place at which a delimiter can be, so it stays on a last piece.
  `ChopsLikeSplit` says nothing of those texts.
- `documents_whitespace`: `json_parser.h:415` says that characters after the
  eighth are ignored. `jsonp_set_context_whitespace_chars` (`json_parser.c:469`)
  copies into a size of 8, NUL included, and ignores the eighth. `ParsesAsTold`
  claims that up to seven all count, and all that was set before does not.
- `documents_pivot`: `string_builder.c:103` says that an allocation right after
  the buffer lets the builder keep its pointer. Line 109 looks at the arena's top
  before the allocation and not at where it lies: when the block is full the space
  comes from another block, and the builder runs past the end of its own.

## Seen on the way

Behaviour that differs from a comment or a header, or that a property has to name
as an exception. There is no run for each; the properties say where they matter.

*Parser.* A file that ends inside an array is reported as a missing comma
(`json_parser.c:705`, `:821` test for NUL only; `docs/json_parser.MD:118` has it
otherwise). Text behind a byte 0xFF (in a string) or a NUL (in a stream) is
accepted; only `jsonp_parse_string_ex` and `jsonp_parse_file` look again. A number
of 1024 characters or more fills its buffer and leaves no room for a NUL
(`:1595-1604`; a todo at `:1608` has it), so `strtol` and `strtod` (`:1697`,
`:1706`, `:1793`) read on behind it; `AcceptsExactlyJson` says nothing of its value. An integer beyond a double's
range becomes the long 0 (`:1707`), where the comment at `:1702` says a double.
`\u0000` is dropped. A string that is not UTF-8 keeps the scratch arena
(`:1584`). `pvt_parse_string` names no conflict for its scratch (`:1539`). The
parser's allocations are unchecked but for the entry of an object.
`jsonp_entry_for_key` returns the first entry whose key differs (`:607`; the header
at 434 says the one that matches). The header declares
`jsonp_get_context_config_bitset`, its setter and
`jsonp_get_context_whitespace_chars`, which are not defined.

*Error report.* `lab_offset` is not reset by a call. A file at its end leaves the
look-ahead of an earlier error. A buffer without a NUL behind it makes the reader
loop at its end; a download that is empty reads a byte nobody wrote.

*Printer.* Infinite numbers print as `inf.0`, keys are not escaped and are cut to
127 bytes, rows beyond 256 are not checked for, arrays on one line are counted
twice in the result.

*Memory.* A second scratch arena that
could not be created is a null slot later (`:249`). Pool objects smaller than a
pointer break the free list; pool memory begins at byte 72, which is not aligned to
16; a slot freed twice is given out twice (`:532`).

*Ring buffer.* Filling an emptied buffer takes the whole capacity for room wherever
its end is (`char_ring_buffer.c:45`), and advancing past the end goes by the excess.

*Builder, slices, strings.* `sb_insert_str` does not move the NUL
(`string_builder.c:176`). A builder grown in a temporary scope loses what it grew
into. The first slice of
each call of `slice_split_to_out_buffer` is longer than its piece by all that the call
was given, so it reaches behind the text: its length counts up from that of the text
(`string_slice.c:319`). A full out-buffer drops a trailing empty piece;
`slice_ends_with` is off by one; `repr_hex_and_chars` reads past a truncated sequence.

*Collections.* When growth of the map is refused until it holds one and a half
entries per bucket, the loop at `hashmap.c:240` never ends. NaN keys are never
found. Map policies that differ only in their type compare equal (`hashmap.c:328`).
A list never copies but frees (`array_list.c:22`, `collections.h:59`). Short
reference strings are not copied under COPY; a key that is put again under TAKE is
neither kept nor freed. The two djb2 hashes differ outside of ASCII
(`hashmap.c:96`, `ref_objects.c:45`). When a pool has no memory for a value, the
map keeps a null string. `bitset_test_any` answers the opposite (`bitset.c:25`).
`vector_get_or` on an empty vector reports an error and leaves `out`
alone (`vector.c:113`), where `vector.h:44-49` has the fallback for every index
outside of the vector; `AccessStaysInside` claims the fallback only for a vector
that is not empty. In an array of length 0 the last index wraps, so every index
passes the check (`array.c:52`, `:97`, `:109`); the property names that case.

## Proofs

`tlapm` checks the theorems below for every value of the constants that satisfies
the named assumptions of the modules. Seldom is a property that a run checks
preserved by every step from every state in which it holds; each theorem
therefore has an inductive invariant (`IInv`, or one named for its part), whose
other conjuncts say what the code relies on when it does not look. TLC agreed
with each of them before it was proved.

The parts of `MCContainers`, `MCDocuments` and `MCTexts` have no `Spec` of their own, since one `Next` chooses
among them. The proof modules give each part one (`EntrySpec`,
`ScratchSpec`, `TreeSpec`, `PoolSpec`, `OwnershipSpec`, `BitSpec`, `CounterSpec`,
`VecSpec`, `ListSpec`, `BuilderSpec`, `StringSpec`, `SplitSpec`), from the same `Init` and `Next`.
`StringsStayAccounted` and `IndexedAccessIsSafe` speak of two parts each, and are about
the `Spec` of `MCContainers`.

Some definitions are recursive functions over a text, a list or a set. That such a
function exists, and so obeys its equation, is shown where it is needed by taking
the least number up to which there is none (`LeastNumber`); what it computes then
follows from its equation in the same way. That is how the reference meanings of
`JsonString`, the pieces of a split text, the walk of the free list and the search of a pool's pages are reasoned
about.

### Memory

**`ArenaProofs`** assumes positive page size, alignments and header sizes
(`ArenaAssumption`). Where a new chunk comes to lie depends on where the cursor is,
and where the cursor is after a pop depends on what the marker remembers. `IInv`
puts them together:

    ArenaTypeOK /\ ChunksOK /\ CursorIsTight /\ MarksAreTight /\ InOrder /\ MetadataIntact

`ChunksOK` says that chunks lie in blocks of the chain, `InOrder` that they follow
each other there. The cursor is a function of `live` (`CursorIsTight`), so a step is
one of three kinds, each with its lemma: it places a chunk at the cursor, it cuts
`live` back to a mark, or it leaves everything. Each action is shown to be one of
the three. `TypeCorrect` and `CursorTight` follow. `SmallRequestsStayInBlock` adds
that no block is smaller than a page.

`Exclusive` is about addresses. In the offsets of one block chunks are disjoint by
`InOrder`, but that says nothing of one that runs past its block, and such chunks
exist (`arena_overrun`). So the theorem is about the chunks a client can count on
(`Sound`): those whose request caused no pivot, of any size, and those that the
smallest block of the chain has room for behind its header and the most padding that their
alignment can need. `Layout` says that blocks lie apart as the operating system maps
them (`BlocksApart`), that none is smaller than the head block (`HeadIsSmallest`),
and that sound chunks end within their blocks (`SoundInBlock`); with `IInv` it gives
`LiveDisjoint` (`LayoutIsDisjoint`). A new block is mapped in the size of the head
block or larger and a kept one was once new, which is why room in the head block is
room in any, wherever the pivot goes.

**`ScratchArenasKeepResults`** (`DocumentsProofs`): what a function returns in its
caller's arena survives the scratch arenas released below it, for any depth of
nesting, unless the function took that very arena for its scratch. Whether a pop
spares a result depends on every scope between the two, so `ScratchInv` says how
all of them lie: each running function's marks are no higher than those of the
functions it called (`MarksNest`), its target is not its own scratch
(`TargetIsNoScratch`), and a result lies below the marks of everyone who may still
pop that arena (`ResultsLieBelow`).

**`PoolHandsOutEachSlotOnce`** (`DocumentsProofs`): free list and client have each slot
once between them, and the client's objects hold what it wrote, for any number of
objects in which a pointer fits, until the client frees one twice. `PoolInv` names the
free list, `fl`, as a sequence: each of its slots has in memory the address of the
next (`ListIs`), no slot is in it twice, and a slot is in it exactly if it is not the
client's (`Parted`). Creation lays that chain from the last slot to the first, taking
from it and putting back are at its head, and what the client writes lies in slots
that are not in it (`SlotsLieApart`). The property's walk through memory is then `fl`.

### Text in, text out

**`CrbTypeCorrect`, `RingBufferIsAQueue`** (`BufferProofs`) assume a capacity and a
longest add of at least one, and a word that holds their sums (`CrbAssumption`). `CrbTypeCorrect` has `TypeOK` with
`end_index = (start_index + length) % Capacity`. `RingBufferIsAQueue` is the
refinement of `CharQueue`: the queue is what the buffer holds from `start_index` on
around its end, and every call maps to a call of the queue or, when it changes
nothing, to a stutter. Its lemmas state what one addition, an addition that
overwrites, a strict one, `Store`, an advance and a fill do to that sequence. The
functions that the macro generates are no part of `Spec` and stay with TLC.

**`TextsStayKept`** (`BufferProofs`): a builder has its client's text, whatever else
happens to the arena, for any strings, any number of builders and any sizes
(`BuilderAssumption`: strings have no NUL, and the struct and what others allocate
fit a block). What must not happen is that two of them meet in memory, so
`BuildersInv` says of every byte whose it is: a buffer is the text and then NULs to
its end (`Holds`), which is what `sb_insert_str` counts on; buffers and chunks lie
apart and below the arena's cursor (`BuildersOK`, `BuildersApart`, `ChunksOK`); and
what is older than a scope lies below its mark, but for the builders that grew in
it (`ScopeOK`). `Ensures` shows of `sb_ensure_capacity` that it leaves the buffer,
lengthens it or moves it, and that in each case the others stay apart; all changes
of a text are one lemma from there (`PutIntoKeeps`), each call giving the splice it
makes. The invariant leaves out a builder from the moment it is told that its memory
is another block's or a finished scope's: there the claim is false (`documents_pivot`).

**`FileInputProofs`**: `SourceIsACursor` is the refinement of `FileCursor`, for any file,
any capacity, and any look-ahead shorter than the capacity (with an equal one the
buffer could not take the byte that the look is for). `IInv` is what joins the three
positions: the look-ahead buffer holds exactly the bytes between the cursor and
`fread`'s position (`scan = Between(file, index, pos)`), a stretch no longer than
the buffer, and the length that the parser was told is none or not too short.

**`JsonParserProofs`**: `DepthIsTheNesting`, on every text, through every error, in
every entry point and context. `IInv` says which labels run inside a container and
which outside of all, so that every way out of a nested call decreases the counter
that its way in increased, and that the counter stays within the context's limit.

**`ParseBuildsTheTree`** (`DocumentsProofs`): the tree in the arena is that of the
text read so far, for any number of values and any refusal of memory. `TreeInv`
separates containers that are still read, whose members are the linked list of
their frame with the newest in front (`FramesHold`), from those that are closed,
whose members are the array (`ClosedHold`); `StepKnows` says what the running
function holds in its hands in between.

**`EntryPointsReleaseHandles`, `EntryPointsJudgeTheText`** (`DocumentsProofs`): no entry
point returns with a file, handle or download held or released twice, and what it
returns and leaves in the error struct is about the text of this call. `EntryInv`
has the states a call may be in at each of its steps (`CallShape`), the shape of the
error struct whoever wrote it (`ErrorShape`), what of the text was looked at
(`AfterText`), and which handles each step holds (`HandlesHeld`). `EntryAssumption`
says of the documents that a text is not read past its end and that the empty one
is rejected as empty.

**`ReportsShowTheText`** (`DocumentsProofs`), for any texts and any lengths of the
window: the report of an error in a struct that was zero before the call shows the
text around the place where the parser stopped, and its marks point at the character
to blame. `ReportInv` joins to `EntryInv` what a call has recorded in such a struct:
which stretch of the text stands behind and ahead of the place, with its NULs and
stale ends (`AheadIs`, `CStringIs`), and how far off the blamed character lies. The
proof then follows `Report` from the buffers to the text (`StretchIs`,
`ShownConcat`, `MarkIsText`). `EntryAssumption` adds that a text has no NUL before its
end, that the places a document names lie in the text, and that no document is
rejected with the error of a null pointer.

**`JsonGlobalsTypeCorrect`** and the theorems after it in `JsonAndTextProofs` prove, for any number of threads, configurations and
addresses, that types hold whatever clients do, and that
with `Careful` clients every parse copies a live string
(`ParsesReadLiveStrings`), runs under one configuration
(`ParsesUseOneConfiguration`) and no string is lost (`StringsAreFreed`). `Careful` is
the condition of the theorems because without it they are false: that is the run
`json_globals_destroy`. Whether a string is live when it is copied depends on which
threads may be where. `IInv` says that a thread in init or destroy is alone among
those that touch the globals (`Exclusive`), what globals and heap hold when there is
none (`AtRest`), what they hold at each of its steps (`Progress`), and that what a
parse has copied so far is still what the globals hold (`Copied`).

**`StringsDecodeAsUnicodeSays`, `StringsReleaseScratch`** (`JsonAndTextProofs`): the string parser
accepts exactly the strings to which the standard gives a meaning, and returns that
meaning in UTF-8 without its NULs; and it has given back its scratch memory when it
returns, but where the text is not UTF-8 or is a file that ends inside. Both hold for
any texts (`JsonStringAssumption`: they are sequences of bytes). The parser reads
with a table of lead bytes and the ranges of their second bytes, hex digits by
their letters, and an encoder of shifts and masks; the reference has scalar values and
their shortest encodings. So the proof first shows that these are the same: what the
table lets through is exactly the encodings of scalar values (`WellFormed`,
`CharactersAre`), the hex numbers are the reference's (`NumberIs`), the encoder is the
reference's on every number the parser can give it (`EncodeIs`). Then each turn of the
loop reads one piece of the text (`EscapeIs`, `CharacterIs`), and no escape takes a
part of a character (`EscapeIsPlain`). `DecodeInv` says that the bytes written are the
meaning of what was read, that the meaning of the text is this and then the meaning of
the rest, and that once an error is recorded the text has no meaning, which is what
the return needs where an escape's error was recorded and reading went on.
`ReleaseInv` says that UTF-8 read so far leaves UTF-8.

**`ChopsAreSplits`, `BatchesAreSplits`** (`JsonAndTextProofs`): a slice chopped until
nothing is left, and a slice split into a buffer of any size call after call, give
the pieces of its text between the delimiters, up to the exceptions the properties
name, for any texts and any delimiters, also those that overlap with themselves. `Split`
is characterised by where the next delimiter is (`LastPiece`, `NextPiece`, `NextHit`).
`ChopInv` and `BatchInv` then say of the client's state that the pieces read so far,
and after them those of what is left, are the pieces of the whole. A chop takes the first
piece off what is left (`ChopIs`, `OneTurn`), and the only turn that does not is the one
at a delimiter behind which there is nothing, of which the property claims nothing
and the invariant says what comes (`ChopsExactly`). One call of `slice_split_to_out_buffer`
looks at each character, and lengthens its first slice by each it passes. What it
returns is therefore shown for every place in its text and every number of slices
left at once, from the end of the text to its beginning (`GoodAtEnd`, `GoodAtHit`,
`GoodAtChar`, `CallIsGood`), and calls follow each other as the turns within one do
(`CallsGoOn`). That joining gives back the text is a last induction over the pieces
(`JoinsBack`).

### Collections

**`HashMapProofs`**: `MapGrowsInTime`, for any keys, hash and refusals. `IInv` has the
numbers of a map: the table is one of `Sizes`, and the fill capacity is computed
from it. The heart of this proof is what the search for a new size can end with (`LeastNumber`
gives the least number of doublings that fits), and that what it ends with has room
for one entry more. `SizesAssumption` says that `Sizes` begins at `MinBuckets`,
ends at `MaxBuckets`, and has with each number but the last its double; 16 and
2^30 are the code's.

`MapIsADictionary` is the refinement of `Dictionary`, and `MapFindsItsEntries` says that
the lookup in one chain answers from that dictionary. A place is a bucket and a
position in its chain; `ChainsOK` says of the nodes at the places that each keeps the
hash of its key and lies in the bucket this hash names, that no two have the same
key, and that `size` counts them. The three ways a chain changes are a lemma each
(`ReplaceKeeps`, `InsertKeeps`, `UnlinkKeeps`). Growth (`RehashKeeps`) sends the places of
the old table one to one to those of the new: the walk comes to the places of a new
bucket in an order, each place is followed by a number of others of its own
(`RanksAre`), and the chain that is built has at its place number r the node that r - 1
others follow (`ChainedAre`). `HashMapAssumption` adds that `None`, the state without
a map, is no dictionary. The model does not write growth as a fold over the chains
but by these numbers, which can be reasoned about without induction.

**`StringsAreFreedOnce`** (`ContainersProofs`): for any number of strings and places,
under each deal that the collections keep and a client honours (`Honoured`: string
keys that are not taken, values that are strings or are shared, elements that are
shared or taken strings), every string is freed once and by its owner. A long
reference that is put as a value under COPY is outside of it: there it is false
(`containers_reference`). `OwnershipInv` gives each allocated cell one owner: an item
that the client must free, or one that a slot keeps and will free, never two of them.

**`BitSetsKeepFlags`** (`ContainersProofs`), for any width of word: a flag is in the
set exactly if its bit is in its word, and two flags that share word and bit are the
same flag (`FlagsLieApart`).

**`VectorIsASequence`** (`ContainersProofs`) is the refinement of `AbstractLists`, for any
elements and any bound. `VecInv` is the shape of the struct: the buffer has
`capacity` places, and those below `length` hold elements that a client gave. Growth
keeps them and gives room (`EnsuredKeeps`): `vector_append` and `vector_insert` ask for
as much as there is, which is enough because `vector_ensure_capacity` grows when as
much is asked as it has. That the doubling ends with enough is `DoubledIsEnough`,
from `VectorAssumption`: `Powers` has 2 and, up to the bound, the double of each of its
numbers. `PutAtEnd`, `PutBetween` and `TakeOut` say what the moved blocks do to the
sequence.

**`ReferencesAreHeld`** (`ContainersProofs`), for any texts, cells and refusals of
memory. `CounterInv` has the sanity of the heap (`HeapOK`: a text has one node, a
node a live cell) and an account of each text (`Account`): its count is the client's
references and what the count was before. A client that itself sets a negative
count breaks the promise when the count passes zero: the node goes while
references are out. The property names that case and the account says exactly how
far such a count can be off.

**`ListsAreSequences`** (`ContainersProofs`) is the refinement of `AbstractLists` by lists
that share a memory pool, for any number of lists, sizes of pages and refusals
(`ArrayListAssumption`, `MemoryPoolAssumption`). A list is the words of the pool that
its header leads to, so that no list changes another's elements is a claim about
addresses. `ListInv` says where they are: pages lie apart and are filled to their bump
offset (`PoolOK`), each list's block is within the filled part of a page (`ListOK`), and
the blocks of two lists lie apart (`BlocksApart`). Each call is one of three kinds:
it changes words of its own block, gets a block that overlaps none that was given
(`Makes`, `Spared`), or changes nothing; each kind has the step of `AbstractLists` that
it is. `PowersOfTwo` is closed under what the code's growth computes.

**`StringsStayAccounted`** (`ContainersProofs`): each key of a map has the text last put
for it, and the cells of memory in use are exactly those of its keys. `HeapFor` says
this of any map and any heap: under copies each cell belongs to one key alone
(`CopiesFor`), with a pool the count of a cell is the number of keys that have it
(`PoolFor`). A put, an addition and a removal are each a change of the heap for one
key less and one key more (`ValuesInv`); clearing and destroying free the values one
key after another, in an order that no step fixes, so what is left after each is
`HeapFor` of the keys that are left. A string that was borrowed and is put for its own
key is outside of the claim (`ownString`): there it is false (`containers_reuse`).

**`IndexedAccessIsSafe`** (`ContainersProofs`): the indexed calls of arrays, vectors and
lists touch no element outside, at any length and index of a `size_t` of any width, and
a vector that is not empty answers with the fallback exactly for the indices outside
of it. It rests on `VecInv` and `ListInv` for what is in a vector or list; what an index
does to an array is arithmetic, in which the last index of an empty array wraps and is
the one exception.

### Only model-checked

- `Terminates`: liveness, which TLAPS does not prove here.
- `AcceptsExactlyJson`, `PrintsTheValue`, `LinesAreIndented`: they compare with a
  recursive grammar or reader, whose operators the provers do not take.
- `ReadersAgree`, `SlicesAgreeWithStrings`: they compare searches and folds over a text
  with one another.
- `ComparisonsAgree`: it quantifies over the bounded values of its run, and TLC tries
  all of them.
- `ParsesAsTold`: a context has few states, and TLC meets every one of them.
- The generated functions of the ring buffer, and what the seven runs that fail are
  about, which is false.

## Not modelled

- `munit/` (vendored) and `punit.c`, a fork of it, about a quarter of the
  lines; tests, examples and the experiments at the end of `json_parser.c`
  (2615-3323), `toml_parser/`, `unit.c`.
- `lookup_table.c`: an experiment without callers. Its set is called with index -1
  for a new key (lines 86, 94), so nothing is ever added.
- `file_utils.c`, `platform_specific.c`, `dev_utils.c`: thin layers over the
  operating system.
- `repr` functions and the wording of error messages: formatting without effect on
  state. Streams that fail while a value is printed to them.
- How `strtol` and `strtod` round; a number is what its digits say.
- A marker that is popped twice.

## Plan

Modelled: every line of the table under [Modules](#modules). What could still be
proved are the comparisons of slices with C strings and of the readers of UTF-8, in
the way of the splitting of slices; those with the grammar and the reader of documents would need
provers that can do inductions over data.
