# A verification of yaml-schema-cpp in TLA+

yaml-schema-cpp loads YAML input files, flattens them (the key `follow` is replaced by the
contents of another file), and validates and completes them against schemas, which are YAML
files themselves and are flattened in the same way. It can also generate a template of an
input file from a schema. These modules model what of it has state, order or recursion; TLC
checks the models on small instances, and TLAPS proves the most important properties of the
core for instances of every size. `PROJECT.json` lists the components, the runs, the source
lines behind every definition, and the hazards that the properties are aimed at.

To repeat a check: `tlc -config <Run>.cfg <Module>.tla`, `tlapm <Component>Proofs.tla`.

## 1. The system and its parts

| part | code | state | operations |
|---|---|---|---|
| follow recursion | `yaml_utils.cpp` 86-276 | `follow_stack` (thread_local), the activations of `flattenMap` and `insertNodes` | `flattenNode`, `flattenMap`, `insertNodes`, `FollowGuard` |
| merging of nodes | `yaml_utils.cpp` 278-337, `yaml_schema.cpp` 650-731 | the node that a `flattenMap` is building | `addNodeYaml`, `addNodeSchema` |
| flattening across folders | `yaml_utils.cpp` 119-406 | the folders handed down the recursion, paths in values | `flattenNode`, `insertNodes`, `findSchema`, `isRelativePath` |
| schemas | `yaml_schema.cpp`, `yaml_utils.cpp` 640-801, `expression.cpp` | the input node, completed in place; the schema, completed in place while it is checked; the native stack | `loadSchema`, `checkSchema`, `applySchema*`, `validateAllSchemas`, `compare*`, `checkExpression`, `evalExpression` |
| texts of types | `yaml_utils.cpp` 508-640, `type_check.cpp` | none | `isArrayType`, `getLower/LowestElementType`, `getCheckType`, `checkSizes`, `tryNodeAs`, `compareNodesByType`, `compareNodesAutoType` |
| conversions | `yaml_conversion.hpp` | none | `decode` and `encode` of Eigen matrices and quaternions |
| `YamlServer` | `yaml_server.cpp` | `node_input_`, `path_input_`, `folders_schema_`, the log | `loadYaml`, `setYaml`, `addFolderSchema`, `applySchema` |
| template files | `yaml_generator.cpp` 89-144 | files in a folder | `generateTemplate` |
| template contents | `yaml_generator.cpp` 146-327, `getZeroString`, `sequenceToString` | none | `generateYaml`, `schemaToYaml` |
| logging, node search, command line, exprtk | `yaml_utils.cpp`, `yaml_template_generator.cpp`, `exprtk/` | none | |

**How they interact.** Everything is a call. `YamlServer::loadYaml` reads a file and calls
`flattenNode` on its node. `flattenMap` builds a new node; for `follow` it calls
`insertNodes`, which finds the file, guards against cycles, reads it, calls `flattenNode` on it
(the recursion) and adds its children to the follower's node with `addNodeYaml` or
`addNodeSchema`. `YamlServer::applySchema` calls `loadSchema` for the schema, which finds,
flattens and checks it. Checking a schema applies other schemas to its `VALUE`, `DEFAULT` and
`OPTIONS`; applying a schema loads the schemas of its types. `generateTemplate` looks for a
free file name, loads and checks a schema, and writes a file. There are no messages and no
callbacks. State is shared through the file system, between threads and processes; every
thread has its own `follow_stack`.

**What is hard.** A recursion that runs through files which may change, with a stack outside
of it that must be right whatever is thrown. Nodes that several files define together, in some
order, with two rules for merging. Folders that are handed down a recursion for two different
uses. A completion in place, in two passes, the outcome of which should not depend on the order of
passes. A second recursion, of schemas that are loaded to check schemas, which has no guard, and
whose exceptions end in try blocks at some depth. Types that are texts, taken apart in several
places. Products of sizes that wrap. A server whose calls throw half way. A name chosen long before it is used.

**What makes each part correct.** The guards are those of the open documents, no file is
followed within itself, the recursion ends, and the answer is what the files stand for
(follow recursion). Nothing is lost without `override`, the last one wins with it, and the order
does not matter otherwise (merging). Following is pasting, and paths are those of the file
that defines them (flattening). The verdict is a definition without order, and completion only
adds and is done at once; every call ends, runs out of stack only on a real cycle, and throws only
where no `try` block is on the way (schemas). The recursions over the text of a type agree with one
another and with what the text says (types). A matrix has as many values as places and is written
as it was read (conversions). The server's path names the input's file (server).
Files that exist are left alone and none is left empty (template files); a template is a valid
input (template contents).

## 2. The modules

### FollowStack: the recursion and its stack (the core)

A **frame** is one activation of `flattenMap` on the top level map of a file; between two
frames lies the `insertNodes` that opened the second file and owns its `FollowGuard`. A step is
one thing after which an exception may be thrown, so that exceptions leave from every place
from which the code lets one leave.

| code | module |
|---|---|
| `loadYaml`/`loadSchema` called; the file is missing | `Call`, `Finish` |
| `YAML::LoadFile`, call of `flattenNode` | `LoadFile`, `Folders` |
| an entry is added, or is a repeated key and throws | `AddEntry`, `Conflict`, `Merge`, `Own` |
| `insertNodes`: extension, search of schemas, `exists` | `Resolve`, `Unresolved` |
| `FollowGuard::FollowGuard`: `canonical`, cycle, push | `Guard`, `InStack` |
| `flattenMap` returns | `Return` |
| `insertNodes` adds the children | `MergeChild` |
| `FollowGuard::~FollowGuard`, at the end of the block or while unwinding | `Unguard` |
| an exception leaves `flattenMap` | `Unwind` |
| somebody changes a file | `Edit` |

Values are leaves that are told apart by the file that defines them; nested documents, folders
and paths are the subject of Flatten. The root file gets no guard, as in the code, so that it
may be open twice: a cycle through the root is noticed one document later.

**FollowLoad** is the abstract specification: a request and its answer, in one step, where the
answer is a function of the files (`Text`: every followed document is pasted in the place of
the entry that follows it). `Text` is defined by recursion on how many documents may be nested:
with more of them open than there are files, one file would be open within itself, so that a text
which is not complete at the level `Nesting` is that of a cycle. FollowStack implements it
(`Abstract == INSTANCE FollowLoad WITH ...` and `ImplementsLoad` in FollowStack; the mapping takes every
variable of the abstract specification to the one that has the outcome in the program, and every step but
the last one of a load is a stutter), as long as nobody edits the files; with edits there is no one file system that the
answer could be about. In that case the safety properties of the stack remain, and they are checked
and proved with edits.

### YamlTree, YamlNodes, NodeMerge: how nodes are merged

YamlTree has trees of yaml-cpp's kinds of nodes (null, scalar, sequence, map), and
what indexing makes of a null node or a sequence: the elements of a sequence get keys, which are
`IndexKey` (a function from positions, so that no text of a number has to be formed). YamlNodes has
`AddNodeYaml` and `AddNodeSchema`; an exception is the value `Thrown` that every caller passes on.
NodeMerge is the node of a `flattenMap`: additions one after the other, until one throws. The reserved
keys are two, one that stands for all the required ones and one for the others.

The functions of the code are recursive: what becomes of a node depends on what becomes of its
children. The module says it with a function on the **pairs** of a node that is there and a node
that is added at the same place (`Pairs`, level by level): `Merged` at a pair is `Merge` of the two,
with `Merged` for the pairs of their children. A bound `Height` on the levels makes the pairs a set;
`TypeOK` and `ValuesAssumption` say that nothing is deeper, and TLC stops with an error at a pair beyond it.
A place in a node, for the properties, is a path and what stands there (`Levels`, `Places` in YamlNodes).

### Flatten: folders, references and paths

The same recursion on nested documents, as a function, with `current_folder`, `schema_folders`,
`is_schema` and `override` handed down as in the code. A **call** of `flattenNode` is a file, a node of it,
the current folder and the `follow_stack` (`Calls`); what it returns (`FlattenNode`, `FlattenMap`,
`FlattenSequence`, `InsertNodes`) depends on what the calls return that it makes (`OfChild`, `OfFile`). `Flattened`
has the answers of all calls by the number of calls that may be open, like the other recursive
functions of this project; with `Depth` of them no call is cut short (section 5). A value
remembers which file defines it, whether it is the value of a key or an element of a sequence, and what was
prepended to it. The state machine loads any file or schema.

**PastedText** has the reference definition (`Texts`, `Meanings`): the pasted text of every call first, every path and
reference resolved in the folder of its own file, then one node for the whole text (`Expected`).

### ApplySchema, YamlServer: validation and completion

ApplySchema has `checkSchema`, `applySchema`, `applySchemaRecursive`, `applySchemaDerived`,
`compare` and the two functions on expressions as recursive operators that return a verdict and
the completed node. YamlServer is the class: its calls in any order, on a file system with
absent and corrupt files and files that cannot be flattened. `SetTemplate` is a caller that
generates a template and hands it to `setYaml`. The definition without order is `Conforms`.

Data that is abstracted: a type comes as its parts, not as a text (that is the subject of TypeText);
basic types are three, each the set of texts that it accepts; an expression is the comparison of
one parameter with a value. The code reads a number in an expression with `tryNodeAs` of a double;
on the texts of the instances that agrees with the comparison of texts that `EvalExpression` makes.

### Generator: what is in a template

`generateYaml` and `schemaToYaml` as an operator from schemas to the node that the text of the
template is read back as; `Null` for the parts that nothing is written for. A string of a single
parameter is written in double quotes, but `sequenceToString` writes the elements of a sequence
bare, so that `Reading` re-reads them (`Reread`: a text with a comma is two elements, `null` is no
string). Comments and layout are left out.

### SchemaStack, SchemaRequests: schemas that load schemas

A **frame** is the walk of one call through the parameters of one schema (or of
`validateAllSchemas` through its files).

| code | module |
|---|---|
| a caller's `loadSchema`, `applySchema`, `validateAllSchemas`, `generateTemplate` | `Call`, `Start`, `Finish` |
| `findSchema`, `LoadFile`, `flattenNode`; no schema | `Load` |
| `isArrayType` throws; a value is compared with its type | `Apply` |
| `checkSchema`: the next `DEFAULT`; `mandatory` with a `DEFAULT` | `Check`, `Default` |
| `applySchemaRecursive`: the next parameter | `ApplyRecursive` |
| `schemaToYaml`: the next parameter | `SchemaToYaml` |
| `validateAllSchemas`: the next file | `Validate` |
| a callee returns, or throws up to the next `try` block | `Resume`, `Failed`, `Verdict` |
| no room on the native stack | `Push`, when `MaxDepth` walks are open |

The try block of `loadSchema`, `validateAllSchemas` and `generateYaml` is around `checkSchema`
alone; `by` says whose it is. What DEFAULT stands for here is anything that `checkSchema` applies a
schema to; VALUE, OPTIONS, DOC and derived types follow the same path and are the subject of
ApplySchema, which in turn leaves out cycles. **SchemaRequests** is the abstract specification:
one step from a request to its answer, which is a function of the library. `Answers(lib)[d]` has the
answers to all requests with room for `d` calls on the native stack, by recursion on `d`: no order of
steps and no try block is left in it, a schema is checked, and then walked through, as a whole
(`Checked`, `Served`). SchemaStack implements it (`Abstract == INSTANCE SchemaRequests WITH ...` and `ImplementsRequests` in SchemaStack).

### Recursion

Facts about the natural numbers that the proofs about recursive functions rest on: a set of them has a least and,
if bounded, a greatest element; induction up to a bound; and a function whose values come one from the
other exists. They take sets and functions where the library's theorems take operators, so that they can be cited.

### TypeText, TypeCalls: types as texts

A type is a sequence of tokens: pieces of names, digits, brackets. TypeText translates the functions
that take it apart, `checkNodeAs` and its callers, `applySchema` and `applySchemaDerived` as
far as they need no schema, `compareNodesByType`, `compareNodesAutoType` and `getZeroString`. The
answer of a function that may throw is "true", "false" or "throw". TypeCalls is a caller of any of
them with any text and any node, and of the conversions of EigenCalls; the reference for its properties is `Dimensions`, a definition
without recursion of what a text says: the numbers between its pairs of brackets, from the left.

### EigenConversion, EigenCalls: matrices and quaternions

`decode` and `encode`. An `unsigned int` has `UintMod` values, products wrap, and a size is read
as an `int` where the code does that. The `(rows, cols)` of a static type are constants of the type.
A map whose keys are `0..n-1` is read like a sequence, since `node[i]` finds the key `i`.
EigenCalls is a node that is read as matrices and quaternions and written back, time after time
(`Convert`, `ConvertQuaternion`), with the properties of the conversions. `NodesAssumption` says that
a sequence is shorter than `UintMod`, that is, that an unsigned int can count its elements.

### TemplateFile: the name of a template

`generateTemplate` by several processes: probe names, generate (the schema may be wrong), open
with truncation, write, which may fail half way. `text` says whose texts a file holds; `old` and
`cut` are history.

### MCFollow, MCMerge, MCFlatten, MCServer, MCSchemas, MCTypes, MCTemplate

The instances. Each `.cfg` gives constants their values and replaces nothing else.

## 3. What is checked

| run | question | instance | distinct states |
|---|---|---|---|
| FollowAll | Does the recursion compute what the files stand for, and does every load end? | 1 thread, 4 files (a schema, an input file, a schema, one of another extension), 4200 file systems | 0.44 M |
| FollowThreads | Are the stacks right while threads interleave and a file changes? | 2 threads, 3 files, a diamond and a cycle that spares the root, 1 edit | 1.9 M |
| MergeAll | Does merging keep what is there, and is the order of no account? | 3 additions of all values of a small set to one key, with and without `override`, input and schema | 0.42 M |
| FlattenAll | Is following pasting, and are paths those of the owner? | 3 folders, 3 input files or 2 schemas, documents of up to 2 entries, nested maps and sequences, a map for a sequence | 0.27 M |
| ServerAll | Does the verdict say what it should, is completion final, and does a template fit its schema? | schemas of all forms, input nodes of all shapes, a second folder, 3 calls of a server | 0.39 M |
| TemplateCalls | Are the files that were there safe, and is none left empty? | 3 processes, folders with and without gaps, 4 calls, writes that fail | 1.2 M |
| TypeTexts | Do all functions on texts of types agree with what the text says, and does a matrix have all its values? | 4 basic names, a string, Eigen types of static and dynamic sizes, up to 3 tokens behind `int` and up to 6 behind other names; 25 nodes | 0.12 M |
| SchemaCalls | Does every call on schemas end with the answer that the library stands for? | all libraries of 3 schemas from small sets, cyclic ones among them; room for 7 walks | 0.18 M |

The properties, by run. *FollowAll*: `TypeOK`, `ChainOfFollows` (every open document is
suspended at the entry that follows the next one), `ImplementsLoad`, `EveryLoadEnds`.
*FollowThreads*: `GuardsMatchFrames` (the stack has exactly the guards of the open
documents; an idle thread has none), `NoFileTwice`, `CycleIsReal` (an action property: a cycle is
reported only if the thread's own open documents form one).
*MergeAll*: `OrderFree`, `NothingOverwritten`, `LastOneWins`, the last two for values and for
specifications. *FlattenAll*: `CopyPaste`, `PathsOfOwner` (the relative paths
under keys of input files are resolved, with the folder of the file that has them, and once, and nothing with another
folder; section 4 on elements of sequences), and as type invariant
that what is flattened is a tree without a reference. *ServerAll*: `VerdictIsConformity`, `CompleteAtOnce`, `ExpressionsEvaluate`,
`OnlyAdds`, `DerivedSpecifiesBase`, `PathNamesInput`, `TemplateFits` (a template that was generated
is accepted, and still is when its schema is applied to it). *TemplateCalls*: `OldFilesSafe`,
`NoEmptyFile`, and in the type invariant that the search for a name ends. *TypeTexts*:
`ShapeDecides` (a node has a type exactly if it has the dimensions in the order in which they are
written; section 4 on a written zero), `ApplyAgrees` (`applySchema` and `tryNodeAs` agree), `ThrowsIfMalformed`, `ZeroFits` (a zero
value has its type), `MatrixFits` (as many numbers as places, in spite of products that wrap),
`EqualAsRead` (two nodes are equal if they read to the same value), `CheckTypeOfDerived`,
`RoundTrip`. *SchemaCalls*: `CrashIsCyclic`, `AcceptedIsAcyclic` (nothing is valid by assuming that
it is), `LoadsCatch`, `ApplyThrowsForInput`, `EveryCallEnds`, `ImplementsRequests`.

**Why the bounds are enough.** The stack is a matter of one file being met again at some depth:
three files have chains, diamonds, cycles with and without the root, and a file that
follows itself; two entries per document have something before and something after a
`follow`. `f3` has one entry at most in FollowAll, which keeps the run short. Two threads are
all that `InStack_shared`, a stack that were not thread_local, needs to go wrong. An
addition concerns one key at a time, and three additions have a middle one, so that
`OrderFree` compares all orders of three documents. The parameters in MCServer are
mandatory, optional, with `DEFAULT`, `VALUE` or `OPTIONS`, or with an expression on another one, of
basic, custom, derived and array types, and some are refused by `checkSchema`. In SchemaCalls a node has height 1 at most, so that
an acyclic load of three schemas has at most 3 * 2 walks open: `MaxDepth = 7` is more than
that, as `CrashesAreCyclic` (section 5) demands, and cycles exhaust it after two rounds. In TypeTexts an unsigned
int has 4 bits (`UintMod = 16`), so that 4 x 4 and 3 x 9 wrap, to 0 and to 11; sequences are shorter than
`UintMod`, as in the program. Numbers of two digits are too large for an `unsigned long`
(`UlongMax = 9`). Three tokens behind a name make all arrangements of one pair of brackets, and a chosen
set goes on to two pairs, nested, crossed and unclosed ones. Every property has a mutant in `PROJECT.json`, a slip that is likely in that code
and that the run finds on this very instance.

**Bounds by name.** `MaxEdits` (changes of the file system), `MaxAdds` (additions to one
node), `Height` (how deep a node is; `Digits` are the keys of the first six elements of a
sequence, and none gets longer), `DocHeight` (how deep a document is) and `Depth` (calls of `flattenNode` that are
open; `DisksAssumption` says that it is no less than what can be, `RecursionEnds` that
more would change nothing; a node is
no deeper than that, so that `Height` is as large), `MaxCalls` (calls on one server; calls of `generateTemplate` until the folder is
cleared), `MaxSuffix` (the largest number of a name; never met, see `TypeOK` of
TemplateFile), `MaxDepth` (the native stack; a limit that the program has too), `UintMod` and
`UlongMax` (widths of integers). Deadlock is checked in all runs: a server is constructed anew, a node is
started afresh, a folder is cleared.

**Symmetry.** FollowThreads and TemplateCalls permute threads and processes. They are
interchangeable, and no liveness property is checked there.

**Fairness.** Two specifications state some: `FairSpec` of FollowStack, weak fairness of each thread's
`Step`, that is, a thread that is in a load runs on, and `FairSpec` of SchemaStack, weak fairness of
`Step`, that is, a call that was made runs on. The code has no locks and no waiting, so that
a thread is stopped by nothing but its scheduler. Nobody has to call or to edit.

## 4. Where the code and what is said of it differ

Four runs are expected to find a violation; each has one property, which states a sentence of the
repository. `PROJECT.json` quotes them under "findings".

* `MergeHybrid`: without `override`, a specification added to a map of specifications
  is no error. The map becomes a specification, and what stands in it is never looked at.
* `FlattenOwnFolder`: a followed schema is flattened with the folder of its follower, so that
  an input file that it follows is looked up in the wrong folder.
* `ServerDerivedDefault`: a `DEFAULT` of a derived type is checked against the base alone, and
  completes an input to one that the same schema refuses.
* `ServerNestedDerived`: a valid node that has a parameter of a derived type is not equal to
  itself for `compare`, so that `VALUE` and `OPTIONS` of such a type accept nothing.

Others met while modelling, without a run. Where a property would fail for one of them, its comment
names the exception.

* `path_input_` names the new file when that file cannot be parsed, and the node is still that of
  the old one (`yaml_server.cpp:54`); `PathNamesInput` is about everything else.
* Two calls of `generateTemplate` that look for a name at the same time choose the same one, and one
  template is lost (`yaml_generator.cpp:117`).
* A relative path that is an element of a sequence is not resolved (`yaml_utils.cpp:145`
  and `:184`). `src/README.md:295` ("In case a string value starts by `./` or `../`"), `yaml_utils.hpp:24` and
  `yaml_server.hpp:101` make no exception of it, and no test is about it. `PathsOfOwner` therefore leaves open
  whether elements are resolved, and says only that it is not with the folder of another file. The model leaves
  them alone, as the code does (`FlattenSequence`), and so does `InFolder`, with which `CopyPaste` compares.
* Following is not always pasting: when a followed file adds a map to a sequence, the sequence is a map with
  the indices as keys before its follower adds it. A file that has `q: [x]` and follows one that
  has `q: [y]` and follows one with `q: {k: v}` gets `{0: y, k: v}` with `override`, where the pasted text has
  `{0: x, 1: y, k: v}` (and when the elements are maps, it happens without `override` too). `src/README.md`
  has "interpreted as a copy-paste of the contents of another file" (line 181); `CopyPaste` leaves out texts in which a sequence becomes a map
  (`NoneIndexed`), and TLC finds this case without that condition.
* Nor is it in schemas with `override`: a specification takes the place of one that is there as a whole, but becomes part of a
  namespace. A schema that has `m: {p: ...}` and follows one with a specification `m`, which follows another one with a
  specification `m`, gets `p` and what the last one has; the pasted text would add what each of the two has. So `CopyPaste` is
  about input files, and about schemas without `override`.
* An entry whose key is an index goes to the element that is at that place then, so that the order of
  documents matters where `q: {0: ...}` meets a sequence, also without `override`; `OrderFree` leaves
  such keys out (`Plain`).
* `src/README.md:172` says that `_value` means "not allowing the field to be defined in the
  input file"; the code (`yaml_schema.cpp:447`) accepts the field with an equal value.
* A schema that needs itself to be checked (a parameter of its own type with a `DEFAULT`) ends the
  process: the recursion of schemas has no guard like that of `follow` (`yaml_schema.cpp:399`).
  `Cyclic` says exactly when.
* A malformed type makes `isArrayType` throw, also one that comes from the key `type` of an input, and
  then `applySchema` throws out of the server (`ThrowsIfMalformed`, `ApplyThrowsForInput`).
* A size in a type that is too large for an `unsigned long` throws `std::out_of_range`, while
  `yaml_utils.hpp:190` and `:201` announce a `std::runtime_error`.
* A size that is written as 0 (`int[0]`) means any size: `isArrayType` looks for other characters than digits
  (`yaml_utils.cpp:542`) and returns the 0 with which it stands for no size. `yaml_utils.hpp:190` and `:201`
  announce an exception for a size that is not a positive integer, as does its message (`yaml_utils.cpp:544`).
  The model does what the code does; the properties on types leave such texts open (`WrittenZero`), so that
  they would hold of either.
* An empty sequence is accepted for types that are malformed further inside (`int[][x]`) or of
  no known name (`foo[]`), since no element is there to be looked at; `int[]x` has the lowest
  type `int`. `ShapeDecides` says so for texts that are not `Regular`.
* `getCheckType` looks for the prefix "derived", `isDerivedType` for the whole word
  (`yaml_utils.cpp:592`, `:553`): a schema named `derived_x` is checked as BASE with `_x` appended.
* A map with the keys `0` to `n-1` is read as a matrix or quaternion, while
  `yaml_conversion.hpp:213` says false is returned "if the node is not a sequence of 4 elements".
* An empty matrix is written as null, and one of two dynamic dimensions without its sizes;
  neither can be read again. `RoundTrip` is about the others.
* An element of a sequence is written into a template without quotes: a string with a comma
  becomes two elements, and the string `null` none. `TemplateFits` leaves these out (`Reread`).
* Texts that are equal as `bool` ("yes", "true") differ for `compareNodesAutoType`.

## 5. What is proved

**FollowStackProofs**, for any sets of threads, files and keys, any documents, any bound on edits,
and any interleaving. The assumptions are those named in FollowStack: `NoFile`, `Absent` and
`Corrupt` are none of the things they are told apart from, and constants have their types.

| theorem | says |
|---|---|
| `TypeCorrect` | `[]TypeOK` |
| `GuardsBalanced` | `[]GuardsMatchFrames` |
| `FollowedOnce` | `[]NoFileTwice` |
| `ChainHolds` | `[]ChainOfFollows` |
| `RecursionBounded` | `[]BoundedRecursion`, if `Files` is finite |
| `CyclesAreReal` | `CycleIsReal` |

*The argument.* The inductive invariant is `IInv`, the conjunction of the first four. None of
these is inductive alone: that the top of `follow_stack` may be removed by the guard of the
innermost `insertNodes` needs to know whose it is (`GuardsMatchFrames`, which has `target` in
it), and that a frame that is left uncovers the right `insertNodes` needs the chain. As a
step of one thread changes nothing of another (`OthersSame`, `OneThread`), the invariant is
sorted by thread (`Parts`), and there is one lemma per action. `BoundedRecursion` then follows from
the pigeonhole principle: the guards are as many as the frames but one, and all for different
files. `CycleIsReal` follows from `IInv` on the step `Guard`: the entry of the stack that was
met belongs to an open document, and from there the chain leads to the file.

The refinement is in the same module:

| theorem | says |
|---|---|
| `FollowsImplementLoad` | `ImplementsLoad`, if `Files` is finite and nobody edits them |

*The argument.* The invariant `DInv` adds to `IInv` what the recursion has found so far. Every open
document is put together up to the entry at which it stands (`Walked`: the first entries have a text,
no two of them clash, and the frame's node is what they amount to); the entry at which it waits stands for the
document that is open above it (`Waits`); and an exception in flight is what the innermost document
amounts to (`Fails`). So when a document returns or is unwound, the answer to the one below is known
without looking at it again. The document at place `i` of the stack is related to the text of level
`Nesting - i`: a level less for every document above it. The step that is hard is the exception
that `FollowGuard` throws for a file that is open already. There the text of that level has to be a cycle, for
a reason that is not on the stack but in the definition of `Text`: a text with fewer levels is the same
text or a cycle (`TextLess`); every open document from the first occurrence of that file on is clean up to
the entry where it waits, so each stands for a cycle if the one above does (`CycleText`); and so, level by
level, the file would have its own text nested in itself.

**NodeMergeProofs**, for any keys and values, any `Height` and any number of additions. Assumed: the values
are trees that fit below a key (`ValuesAssumption`), no two positions of a sequence have the same key
(`IndexAssumption`), and every position has one (`AllIndexed`, a hypothesis of the theorems: TLC's instance
has keys for six positions, where a proof about all sequences needs them all).

| theorem | says |
|---|---|
| `TypeCorrect` | `[]TypeOK`: whatever is added, the node is a tree without `Thrown` inside, and no deeper than what was added |
| `NothingIsOverwritten` | `NothingOverwritten` |
| `TheLastOneWins` | `[]LastOneWins` |
| `OrderDoesNotMatter` | `[]OrderFree` |

*The argument.* That the recursion defines a function at all (`MergedDefined`) is by induction from the
last level up: a tree has one, and a pair on it has no children in common. Then one lemma
(`MadeCases`) says in which ways a pair comes out: as one of the two, as both sequences in a row, or child by
child. Everything else goes from the root down. `TypeCorrect`: what stands in the result on some level is from the
old node or the new value on that very level, or has come out of a pair there (`From`, `FromDown`); so it ends
where they end. `NothingIsOverwritten`: at the place of every node of the old tree stands that node, or
what came out of a pair with it on the left (`Keeps`); this is closed under children, with the keys of the
positions of a sequence that has become a map among them, and for a scalar or a specification it can only be the node
itself. `TheLastOneWins` is the same for the right side of the pairs (`Wins`), where one has to see that a namespace
does not become a specification on the way: the node below must not have brought a reserved key along.

`OrderDoesNotMatter` compares orders by what they have in common: `Sums` says what stands at a place when some additions
have each brought a node there, as a set of pairs of an addition and its node, so without any order. What they brought
decides of which kind it is; a scalar is the only one there; and the elements of all the sequences are the elements that are
there, by some bijection (`Gathers`), also when a later map has turned the sequence into a map. `Composed` says that at every
place without indices in its path stands the sum of what the additions have there. It holds of no additions, and one more
addition preserves it (`ComposedOfMore`), in the four ways in which something can come to stand there (`Origins`).
As the invariant `InComposed` it holds of the node; by the same lemma it holds of any order that succeeds
(`ComposedOfAll`); and two nodes that are composed of the same additions differ at most in the order of elements.
The hypothesis `Plain` of `OrderFree` is needed where a map is added: a key that is an index would meet one of the
elements, and an empty map would be added to anything without leaving a trace.

**YamlNodesProofs** has the lemmas on trees and on `AddNodeYaml`, `AddNodeSchema` and `AddMap` that both NodeMergeProofs
and FlattenProofs rest on: that the recursion of merging defines a function, in which ways a pair comes out, what
stands in the result and at which level, and how trees are put together from their children. `Meet` is what the code does with
two nodes at one place; it depends on these two alone, and not on where they are (`MergedAgree`).

**FlattenProofs**, for any files, folders, schemas and documents of bounded depth (`DisksAssumption`: a file holds its own values,
is finite in depth, and there is room for the calls). `AllIndexed` is assumed as above.

| theorem | says |
|---|---|
| `TypeCorrect` | `[]TypeOK`: what is flattened is a tree of nodes, without an exception or a reference in it |
| `PathsResolved` | `[]PathsOfOwner` |
| `RecursionEnds` | with room for one call per level of a document, for every file once and for the root twice, the answer to a load is the one with `Depth` |
| `PastingEnds` | for input files without `override`, with the same room the pasted text and its node are those with `Depth`, too |
| `CopiesAndPastes` | for input files without `override`: `[]CopyPaste`; and a file whose text has a node in which no sequence has become a map can be flattened (`FoundFromOwnFolder` for input files) |

*The argument.* The inductive invariant of the state machine is that `result` is the answer to the load of `file` (`IInv`); everything else is about
these answers. `RecursionEnds` is the reason that the code terminates: `Sound` calls have a `follow_stack` without
repetition, so that a followed file can be opened only as often as there are files that are not on it (`RoomForCalls`,
`StackBounded`), and within a file every call is about something deeper. A call for which there is enough room
(`Enough`) does not look at the answers of level 0, where everything is cut short. For the next two, what a call returns is
described by the level at which it stands (`Tame`: a tree whose scalars are resolved; the scalar that a document consists of alone is not
yet, since the map around it resolves it). `PathsResolved` is the more delicate one: a relative path is resolved in `addNodeYaml`, where it
cannot be told whether the value is that of the file or of one that it follows; that it happens once rests on `flattenMap`, which
gives a `parent_path` only with scalars of its own file, and on `insertNodes`, which gives none. The induction needs to
know exactly what the code does with every scalar, elements of sequences included (`ByCode`); `PathsOfOwner` follows from it.

*Following is pasting.* A file that is followed is flattened on its own, and the children of its node are then added to the node of its
follower; in the pasted text its entries are added there one by one. That both give the same needs that it does not matter whether
something is added to what the file has made so far, or to what came of adding that (`MeetAssociates`): merging is associative, unless
a map comes to a sequence and makes a map of it, with indices as keys. This is what `NoneIndexed` excludes in the node of the text, and it can be excluded
there once for all, because without `override` a key that is an index never disappears again (`MeetIndexed`): no part of the text, and no file
on the way, can have had one. The invariant is `Pastes`: added to any node to which its text could be added, what a call returns gives what the
text gives. `MapPastes` shows it for a map if it holds of the calls for its entries (`KeyStep` for a key, `FollowStep` for a
followed file), and `AllSame` for all calls, by induction on the calls that may still be opened (`Room`), where the
argument of `RecursionEnds` comes in again: flattening is not cut short. Nor is the text (`PastingEnds`), which matters since a text that were cut short
would be an exception, of which `CopyPaste` claims nothing: what a call stands for consists of calls with less room (`TextsRoomy`), so
that `TextsEnough` and `MeansEnough` follow like `Enough`.
Where `override` is set, an index may disappear when a value replaces the map, so that this argument fails, and for schemas merging stops at
specifications; `CopyPaste` stays with TLC there.

**TemplateFileProofs**, for any number of processes, calls and files of the user.

| theorem | says |
|---|---|
| `OldFilesKept` | `[]OldFilesSafe`: no call writes to a file that existed when it began |
| `TypeCorrect` | `[]TypeOK`, with it that the search for a name stays within `Names` |
| `NoFileLeftEmpty` | `[]NoEmptyFile` |

`OldFilesKept` needs that nothing which existed then has vanished (`Kept`). What it does *not* say is
that nothing is overwritten: see the race in section 4. `TypeCorrect` is a counting argument
(`Created`): if k calls have created a file, they and the processes that still seek a name
(`Seekers`) are no more than the calls that were counted, and files reach at most k beyond the last
file of the user, so that a process need not try more than one number further.

**SchemaStackProofs**, for any library, nodes, inputs and any room on the stack. Assumed are the types
of the constants, as named in SchemaStack.

| theorem | says |
|---|---|
| `TypeCorrect` | `[]TypeOK`: every walk is through a schema that could be loaded, and a node that is walked through is a map |
| `LoadsAreCaught` | `[]LoadsCatch` |

An exception ends in the try block that is nearest on the stack, so that the caller gets it only if
there is none below. The invariant (`Guarded`) is about the bottom of the stack: while a `load` or
`validate` runs, the first walk, or the second above `validateAllSchemas`, is a check with
that very try block, or the outcome in `ret` has left it and is no exception.

The refinement, and what follows from it, for any listing of the folders too:

| theorem | says |
|---|---|
| `RecursionImplementsRequests` | `ImplementsRequests` |
| `AcceptedAreAcyclic` | `[]AcceptedIsAcyclic` |
| `AppliesThrowForInput` | `[]ApplyThrowsForInput` |
| `CrashesAreCyclic` | `[]CrashIsCyclic`, if there are finitely many schemas, the nodes have height `H` at most, and there is room for more than `Cardinality(Names) * (H + 1)` calls |

*The refinement.* Every walk on the stack serves a request (`Goal`); it has gone past nothing that would have
stopped it, and its flag `ok` says what it has seen (`Walked`); and the answer to its request is what the walk
below waits for (`Linked`). All this is about the table of answers for the room that is left at that
place of the stack. When something returns, the outcome in `ret` is what the top walk waits for
(`Awaited`); when something throws, the walks up to the next try block all have the answer "throw", and a
walk with a try block turns it into what `Answers` says. With no room left the outcome is "crash" at
every place of the stack, and the process ends.

*The other three* are about the table `Answers`, and carry over to the program by the refinement.
`AcceptedIsAcyclic`: a schema is accepted only if those that it depends on
are, with less room; so the least room in which a schema is accepted falls along every arrow of `Depends`, and there
is no cycle among what is accepted. `ApplyThrowsForInput`: by induction on the
levels, what is thrown within the check of a schema ends in `loadSchema`, so that a throw has to come from
the walk through the input itself. `CrashIsCyclic`: if no chain is closed, a schema leads to itself and to some number of others,
and what it depends on leads to fewer; so, by induction on that number `m`, a load has room in `m * (H + 1)` calls,
one for every schema of a chain and `H` for the walks through a node on the way to the next one. SchemaCalls meets
the hypothesis, with 7 > 3 * 2.

**EigenConversionProofs**, for matrices of any dimensions, nodes of any depth and unsigned ints of any width.

| theorem | says |
|---|---|
| `SizedExactly` | a matrix that passes the wrapped comparison of sizes and is filled has exactly as many values as places |
| `WrittenAsRead` | `encode` writes the values of a filled matrix in the order in which they were read |
| `NodeStaysNode` | a node stays one whose sequences an unsigned int can count |
| `AlwaysFits` | `[]MatrixFits`: a matrix is read from a node exactly when it has as many numbers as the matrix has places |
| `ReadAgain` | `RoundTrip`: what was read and written is read again, as every type of a matrix |

A product that wraps is smaller than the matrix, and then the loop that fills it reads a value
that is not there, which throws: the comparison alone would not do, the two together do. `AlwaysFits` rests on
this and on `DecodesExactly`, case by case of static and dynamic dimensions; `ReadAgain` on
`DecodedMatrix` (what a matrix that was read looks like) and `DecodedAgain`.

**Only model-checked.** `EveryLoadEnds` and `EveryCallEnds`, since liveness under fairness is beyond the
prover. `CopyPaste` for schemas, and for input files with `override`. Everything that is defined in the modules with recursive operators
(ApplySchema, Generator, YamlServer, TypeText, TypeCalls), which the prover cannot read: what a
verdict says, and what a recursion over the text of a type computes for every text.
FollowLoad, SchemaRequests, YamlNodes, Flatten and PastedText could be written with recursive
functions because the recursion has a bound there: a set of files, the room on the stack, the height of a
node or a document.

## 6. What is not modelled

* **exprtk** is a vendored third-party library of 46000 lines, more than nine tenths of the files
  under `include/`: expressions are reduced to one comparison, with which parameters may occur, when
  they have values and what an error does.
* **Anchors and aliases**: nodes are trees, while yaml-cpp's nodes are shared.
* **Two files of one name** in the folders of schemas: a folder holds a name once.
* **Composition of types**: types are texts in TypeText and parts in ApplySchema, and recursive
  without bound only in SchemaStack, where VALUE, OPTIONS, DOC and derived types are left to ApplySchema.
* **Formatting**: comments, layout and quotes in templates; `bool` and the tolerance of 1e-9 in comparisons
  of doubles and matrices; a template's strings of several lines and bare characters (`char`).
* **Logging and node search** (`writeErrorToLog`, `writeNodeSchemaToLog`, `findNodesWithKey`,
  `getAllSchemas`): output, and queries of callers that nothing depends on.
* **The command line**: one call of `generateTemplate`.

## 7. The plan and what is left of it

Done: FollowLoad, FollowStack and their proofs; YamlNodes, NodeMerge, Flatten and their proofs; PastedText; ApplySchema,
YamlServer, Generator; SchemaRequests, SchemaStack and their proofs; EigenConversion, EigenCalls and
their proofs, TypeText, TypeCalls; TemplateFile and its proofs.

Left, in this order: the state machine of YamlServer apart from its functions on nodes, with a
proof of `PathNamesInput`; the proof of `CopyPaste` for input files with `override`; nodes with identity, to say what
anchors and aliases do to `flattenMap`.
