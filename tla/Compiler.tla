------------------------------ MODULE Compiler ------------------------------
(***************************************************************************)
(* From source files to programs, images and back: the compiler walk, the  *)
(* chain of symbolic opcodes it fills, the two passes that turn a chain    *)
(* into code, the libraries, required files and included files it compiles *)
(* on the way, the code it runs to compile custom nodes, the images that   *)
(* programs are saved to, and the interactive mode that extends a program. *)
(* (ape_compiler.c, opcode_chain.c, opcode_dict.c, program.c, text_seg.c,  *)
(* ops/compiler.c, vm.c, tinyaml.c.)                                       *)
(*                                                                         *)
(* A file is the sequence of the nodes the walk meets.  A node is a record *)
(* with the kind k; an opcode is a pair <<argument type, name>>, and also  *)
(* stands for the C function it is bound to.  A label is a tuple, <<"L">>  *)
(* in a file, so that labels the compiler makes up are never one of them;  *)
(* <<"+", n, 0>> is the relative label +n.                                 *)
(***************************************************************************)
EXTENDS Integers, Sequences, SequencesExt

CONSTANTS
  Sources,     \* the possible contents of the source files: functions from
               \* file and library names to sequences of nodes
  Libs,        \* the names that loadlib finds in the extension directory
  Images,      \* the names under which programs are saved
  Prebuilt,    \* image name -> file: images that earlier sessions left
  Named,       \* the files that the command line and the user name
  Preamble,    \* the file whose program the interactive mode extends
  Exports,     \* library -> the opcodes its shared object defines
  Core,        \* argument type -> names of the core library, in order
  Discards,    \* a file may be required for the first time after the chain
               \* of the file that requires it received nodes
  MaxPrograms, MaxParts, MaxDepth, MaxSessions, MaxSteps

\* Images are saved under names that no source file and no library has.
Saved == Images \cup DOMAIN Prebuilt
ASSUME FilesAssumption ==
  /\ Saved \cap Libs = {}
  /\ \A s \in Sources : /\ Saved \cap DOMAIN s = {}
                        /\ \A f \in DOMAIN s : s[f] \in Seq({s[f][i] : i \in DOMAIN s[f]})

VARIABLES
  src,         \* the files: chosen once, no program writes a source file
  disk,        \* the images, by name
  session, running,
  dict,        \* vm->opcodes: argument type -> names, in order of addition
  handle,      \* vm->dl_handle: the library whose functions are looked up
  env,         \* vm->env->symbols: the global symbols, by index
  vectors,     \* vm->compile_vectors: node name -> <<program, ip>>
  required, loadlibs,
  result,      \* vm->result: the chain under construction
  edit,        \* vm->current_edit_prg
  reent,       \* vm->compile_reent
  calls,       \* the files and images under way: the nested C calls
  progs,       \* the programs of this session
  current,     \* the newest program of the command line, 0 if none
  labels,      \* how many labels the compiler made up
  ran          \* history: the names whose program was run by require, loadlib

session_vars == <<dict, handle, env, vectors, required, loadlibs, ran>>
walk_vars == <<result, edit, reent, labels>>
vars == <<src, disk, session, running, session_vars, walk_vars, calls, progs, current>>

NoChain == <<[k |-> "null"]>>
NoHandle == "no handle"
NoOpcode == <<"NoArg", "">>

Op(t, n, a) == [k |-> "op", t |-> t, n |-> n, a |-> a]
Label(l) == [k |-> "label", n |-> l]
Data(a, rep) == [k |-> "data", t |-> "Int", a |-> a, rep |-> rep]
LoadLibNode(l) == Op("String", "__LL__", l)
RequireNode(f) == Op("String", "__RQ__", f)
Directives == {"__LL__", "__RQ__"}
Return == Op("Int", "ret", 0)

(***************************************************************************)
(* Text segments and opcode dictionaries: sequences of distinct names.     *)
(* Index 0 of a text segment is the empty string, so the indexes of the    *)
(* names are those of the sequence.                                        *)
(***************************************************************************)
Intern(seg, s) == IF Contains(seg, s) THEN seg ELSE Append(seg, s)
Index(seg, s) == IF Contains(seg, s) THEN CHOOSE i \in 1 .. Len(seg) : seg[i] = s ELSE -1
InternAll(ss) == FoldLeft(Intern, <<>>, ss)

Known(d, op) == Contains(d[op[1]], op[2])
AddOpcode(d, op) == [d EXCEPT ![op[1]] = Intern(@, op[2])]
EmptyDict == [t \in DOMAIN Core |-> <<>>]
\* The functions dlsym finds: those of the library of the lib block.
Exported == IF handle = NoHandle THEN {} ELSE Exports[handle]
Resolves(op) == Known(dict, op) \/ op \in Exported

(***************************************************************************)
(* From a chain to code.  The first pass gives labels their offsets, two   *)
(* words for every opcode node; the second writes the opcodes, except the  *)
(* directives, which only name a library or a file of the program.         *)
(***************************************************************************)
Opcodes(chain) == SelectSeq(chain, LAMBDA x : x.k = "op")
Written(x) == x.k = "op" /\ x.n \notin Directives
Ofs(chain, base, i) == base + 2 * Len(Opcodes(SubSeq(chain, 1, i - 1)))

LabelOfs(chain, base, l) ==
  LET at == SelectInSeq(chain, LAMBDA x : x = Label(l))
  IN IF at = 0 THEN 0 ELSE Ofs(chain, base, at)

Arg(chain, base, i) ==
  LET x == chain[i] IN
  CASE x.t = "Label" -> IF x.a[1] = "+" THEN x.a[2] ELSE LabelOfs(chain, base, x.a) - Ofs(chain, base, i)
    [] x.t = "EnvSym" -> Index(env, x.a)
    [] OTHER -> x.a

NamesIn(chain, name) == [i \in 1 .. Len(SelectSeq(chain, LAMBDA x : x.k = "op" /\ x.n = name)) |->
                         SelectSeq(chain, LAMBDA x : x.k = "op" /\ x.n = name)[i].a]
Texts(chain) == LET ts == SelectSeq(chain, LAMBDA x : x.k \in {"op", "data"} /\ x.t = "String")
                IN [i \in 1 .. Len(ts) |-> ts[i].a]
Cells(chain) ==
  LET ds == SelectSeq(chain, LAMBDA x : x.k = "data")
  IN FlattenSeq([i \in 1 .. Len(ds) |-> [j \in 1 .. ds[i].rep |-> <<ds[i].t, ds[i].a>>]])

AddLabel(table, entry) == IF \E i \in 1 .. Len(table) : table[i][1] = entry[1] THEN table ELSE Append(table, entry)

\* opcode_chain_serialize: the chain at the end of program p.
Serialize(chain, p) ==
  LET base == 2 * Len(p.code)
      written == SelectSeq([i \in 1 .. Len(chain) |-> i], LAMBDA i : Written(chain[i]))
      marks == SelectSeq([i \in 1 .. Len(chain) |-> i], LAMBDA i : chain[i].k = "label")
  IN [p EXCEPT !.code = @ \o [j \in 1 .. Len(written) |->
                                [op |-> <<chain[written[j]].t, chain[written[j]].n>>,
                                 arg |-> Arg(chain, base, written[j])]],
               !.data = @ \o Cells(chain),
               !.strings = FoldLeft(Intern, @, Texts(chain)),
               !.libs = FoldLeft(Intern, @, NamesIn(chain, "__LL__")),
               !.reqs = FoldLeft(Intern, @, NamesIn(chain, "__RQ__")),
               !.labels = FoldLeft(AddLabel, @, [j \in 1 .. Len(marks) |->
                                <<chain[marks[j]].n, Ofs(chain, base, marks[j])>>])]

\* program_new; parts: the files whose code the program holds and how many of
\* their nodes, from: how it was made.
Part(f) == <<f, Len(src[f])>>
NewProgram(from, parts) == [from |-> from, parts |-> parts, code |-> <<>>, data |-> <<>>,
                            strings |-> <<>>, libs |-> <<>>, reqs |-> <<>>, labels |-> <<>>]

(***************************************************************************)
(* Images.  Code words name their opcode and their symbols by an index     *)
(* into the dictionary and the symbols saved with them, which hold only    *)
(* what the program uses.                                                  *)
(***************************************************************************)
DictOf(p) == FoldLeft(AddOpcode, EmptyDict, [i \in 1 .. Len(p.code) |-> p.code[i].op])
SymbolsOf(p) == InternAll([i \in 1 .. Len(SelectSeq(p.code, LAMBDA c : c.op[1] = "EnvSym")) |->
                             env[SelectSeq(p.code, LAMBDA c : c.op[1] = "EnvSym")[i].arg]])

ArgSaved(p, syms, t, a) == CASE t = "EnvSym" -> Index(syms, env[a])
                             [] t = "String" -> Index(p.strings, a)
                             [] OTHER -> a
\* Mutant: symbols keep the index they were saved with
ArgLoadedAsSaved(img, t, a) == IF t = "String" THEN img.strings[a] ELSE a

ArgLoaded(img, t, a) == CASE t = "EnvSym" -> Index(env, img.symbols[a])
                          [] t = "String" -> img.strings[a]
                          [] OTHER -> a

Image(p) ==
  LET d == DictOf(p)
      syms == SymbolsOf(p)
      Word(c) == <<c.op[1], Index(d[c.op[1]], c.op[2])>>
  IN [parts |-> p.parts, libs |-> p.libs, reqs |-> p.reqs, symbols |-> syms, strings |-> p.strings,
      dict |-> d, labels |-> p.labels,
      code |-> [i \in 1 .. Len(p.code) |->
                  [word |-> Word(p.code[i]), arg |-> ArgSaved(p, syms, p.code[i].op[1], p.code[i].arg)]],
      data |-> [i \in 1 .. Len(p.data) |-> <<p.data[i][1], ArgSaved(p, syms, p.data[i][1], p.data[i][2])>>]]

\* opcode_dict_unserialize: a name that is bound to no function is left out,
\* and the names after it take lower numbers.
DictLoaded(img) == [t \in DOMAIN Core |-> SelectSeq(img.dict[t], LAMBDA n : Resolves(<<t, n>>))]

Loaded(img) ==
  LET d == DictLoaded(img)
      OpOf(w) == IF w[2] \in 1 .. Len(d[w[1]]) THEN <<w[1], d[w[1]][w[2]]>> ELSE NoOpcode
  IN [from |-> "image", parts |-> img.parts, libs |-> img.libs, reqs |-> img.reqs, strings |-> img.strings,
      labels |-> img.labels,
      code |-> [i \in 1 .. Len(img.code) |->
                  [op |-> OpOf(img.code[i].word), arg |-> ArgLoaded(img, img.code[i].word[1], img.code[i].arg)]],
      data |-> [i \in 1 .. Len(img.data) |-> <<img.data[i][1], ArgLoaded(img, img.data[i][1], img.data[i][2])>>]]

(***************************************************************************)
(* Running a program, as far as the compiler can tell: which symbols and   *)
(* compile vectors it adds, and which nodes it appends to the chain.       *)
(***************************************************************************)
Pop(m) == [m EXCEPT !.stack = Front(@)]
Emit(m, nodes) == [m EXCEPT !.out = @ \o nodes]

\* The write_oc opcodes: the argument type of the opcode node they append.
WriteTypes == [write_oc |-> "NoArg", write_ocInt |-> "Int", write_ocString |-> "String",
               write_ocLabel |-> "Label", write_ocEnvSym |-> "EnvSym"]
Popped(t, a) == IF t = "Label" THEN <<a>> ELSE a
Write(m, t, n) == IF t = "NoArg" THEN Emit(m, <<Op(t, n, 0)>>)
                  ELSE Emit(Pop(m), <<Op(t, n, Popped(t, Last(m.stack)))>>)
WriteData(m) == Emit(Pop(Pop(m)), <<Data(Last(m.stack), Last(Front(m.stack)))>>)

AddCompileMethod(m, self, ip) ==
  [Pop(m) EXCEPT !.vectors = @ @@ (Last(m.stack) :> <<self, ip>>)]

\* Code of program self is entered at ip, for node x of the file being compiled;
\* it has a stack of its own.
Enter(m, code, self, ip, x) ==
  [m EXCEPT !.stack = <<>>,
            !.runs = Append(@, [code |-> code, self |-> self, ip |-> ip, node |-> x, below |-> m.stack])]

\* The walk of one node of a language block: an opcode node, a label or a data
\* node joins the chain, a custom node runs the vector of its name.
Walk(x, m) ==
  IF x.k = "node" THEN LET v == m.vectors[x.n] IN Enter(m, progs[v[1]].code, v[1], v[2], x)
  ELSE Emit(m, <<x>>)

\* One opcode of the code entered last.
Step(m) ==
  LET r == Last(m.runs)
      i == r.code[r.ip \div 2 + 1]
      n == i.op[2]
      Hopped(d) == [m EXCEPT !.runs = Append(Front(@), [r EXCEPT !.ip = @ + d])]
      m1 == Hopped(2)
  IN CASE n = "ret" -> [m EXCEPT !.runs = Front(@), !.stack = r.below]
       [] n = "jmp" -> Hopped(i.arg)
       [] n = "push" -> [m1 EXCEPT !.stack = Append(@, i.arg)]
       [] n = "envAdd" -> [Pop(m1) EXCEPT !.env = Intern(@, Last(m.stack))]
       [] n = "__addCompileMethod" -> AddCompileMethod(m1, r.self, r.ip + i.arg)
       [] n \in DOMAIN WriteTypes -> Write(m1, WriteTypes[n], i.arg)
       [] n = "write_label" -> Emit(m1, <<Label(<<i.arg>>)>>)
       [] n = "write_data" -> WriteData(m1)
       [] n = "astGetChildString" -> [m1 EXCEPT !.stack = Append(@, r.node.children[i.arg + 1].n)]
       [] n = "astCompileChild" -> Walk(r.node.children[i.arg + 1], m1)
       [] OTHER -> m1

\* The machine when all that was entered has returned.  Bound: MaxSteps opcodes.
Run(m) ==
  LET after[k \in 0 .. MaxSteps] ==
        IF k = 0 THEN m ELSE LET m1 == after[k - 1] IN IF m1.runs = <<>> THEN m1 ELSE Step(m1)
  IN  after[MaxSteps]
Returned(m) == m.runs = <<>>

Machine == [env |-> env, vectors |-> vectors, stack |-> <<>>, out |-> <<>>, runs |-> <<>>]
Top == [k |-> "program"]
RunCode(code, self, ip) == Run(Enter(Machine, code, self, ip, Top))

(***************************************************************************)
(* Compilations and loads nest: calls is the stack of those under way.     *)
(***************************************************************************)
Frame == Last(calls)
Advanced == [calls EXCEPT ![Len(calls)].at = @ + 1]
Node == src[Frame.name][Frame.at]
Walking(k) == /\ running
              /\ calls # <<>>
              /\ Frame.what \in {"file", "include"}
              /\ Frame.at \in DOMAIN src[Frame.name]
              /\ Node.k = k
Walked == Frame.at \notin DOMAIN src[Frame.name]
Joined(chain, nodes) == IF chain = NoChain THEN NoChain ELSE chain \o nodes
Room(stack) == Len(progs) < MaxPrograms /\ Len(stack) < MaxDepth

\* While a line of the interactive mode is compiled, errors are printed only
\* (default_error_handler_no_exit).
Interactively == calls # <<>> /\ calls[1].why = "eval"
Unknown == Walking("node") /\ Node.n \notin DOMAIN vectors

\* ape_compiler_init: the first walk of a compilation makes the chain.
StartWalk(depth) == /\ reent' = depth + 1
                    /\ result' = IF reent' = 1 THEN <<>> ELSE result

\* vm_compile_file, vm_compile_append_buffer: node is what the walk of the
\* caller adds when the file is done, keep what becomes of the caller's chain.
Compile(stack, f, why, node, keep) ==
  /\ Room(stack)
  /\ calls' = Append(stack, [what |-> "file", name |-> f, at |-> 1, why |-> why, node |-> node,
                             edit |-> edit, reent |-> reent, keep |-> keep])
  /\ IF why = "eval"
     THEN /\ Len(progs[edit].parts) < MaxParts
          /\ edit' = edit
          /\ progs' = [progs EXCEPT ![edit].parts = Append(@, Part(f))]
     ELSE /\ edit' = Len(progs) + 1
          /\ progs' = Append(progs, NewProgram("source", <<Part(f)>>))
  /\ StartWalk(0)
  /\ UNCHANGED <<session_vars, labels, current>>

\* vm_unserialize_program, up to the libraries and the required files.
OpenImage(stack, i, why, node) ==
  /\ Room(stack)
  /\ calls' = Append(stack, [what |-> "image", name |-> i, lib |-> 1, req |-> 1,
                             id |-> Len(progs) + 1, why |-> why, node |-> node])
  /\ progs' = Append(progs, NewProgram("image", <<>>))
  /\ UNCHANGED <<session_vars, walk_vars, current>>

Nothing(stack, node) == /\ calls' = stack
                        /\ result' = Joined(result, node)
                        /\ UNCHANGED <<session_vars, edit, reent, labels, progs, current>>

IsSource(f) == f \in DOMAIN src \ Libs
IsImage(f) == f \in DOMAIN disk

\* A file that ran already, or that is not found, is not run.
AddRequire(stack, f, node) ==
  \/ /\ f \in required \/ ~ (IsSource(f) \/ IsImage(f))
     /\ Nothing(stack, node)
  \/ /\ f \notin required /\ IsSource(f)
     /\ result \in {NoChain, <<>>} \/ Discards
     /\ Compile(stack, f, "require", node, IF result = NoChain THEN NoChain ELSE <<>>)
  \/ /\ f \notin required /\ IsImage(f)
     /\ OpenImage(stack, f, "require", node)

\* A library that is not there stops nobody in the interactive mode: nothing is
\* remembered of it.
NothingToLoad(l) == l \in loadlibs \/ (l \notin Libs /\ Interactively)

\* Mutant: the chain of the caller is not kept for after the library.
AddLoadLibUnsaved(stack, l, node) ==
  \/ NothingToLoad(l) /\ Nothing(stack, node)
  \/ l \in Libs \ loadlibs /\ Compile(stack, l, "loadlib", node, <<>>)

AddLoadLib(stack, l, node) ==
  \/ NothingToLoad(l) /\ Nothing(stack, node)
  \/ l \in Libs \ loadlibs /\ Compile(stack, l, "loadlib", node, result)

(***************************************************************************)
(* The walk of a file.                                                     *)
(***************************************************************************)
\* Opcodes and labels (ocao, DeclLabel).
AddNode(k) == /\ Walking(k)
              /\ calls' = Advanced
              /\ result' = Append(result, Node)
              /\ UNCHANGED <<src, disk, session, running, session_vars, edit, reent, labels, progs, current>>

\* DataInt, DataFloat, DataString, DataChar.
AddDataNode == AddNode("data")

\* file "..." in a lib block: the shared object the opcodes are looked up in.
LibFile == /\ Walking("libfile")
           /\ calls' = Advanced
           /\ handle' = Node.n
           /\ UNCHANGED <<src, disk, session, running, dict, env, vectors, required, loadlibs, ran,
                          walk_vars, progs, current>>

\* opcode ... in a lib block: one that resolves to no function is not added.
DeclOpcode == /\ Walking("opcode")
              /\ calls' = Advanced
              /\ dict' = IF Resolves(Node.op) THEN AddOpcode(dict, Node.op) ELSE dict
              /\ UNCHANGED <<src, disk, session, running, handle, env, vectors, required, loadlibs, ran,
                             walk_vars, progs, current>>

\* compile n ...: a routine the program jumps over, and the opcodes that make
\* it the vector of the nodes n.
Routine(n, body, start, end) ==
  <<Op("Label", "jmp", end), Label(start)>> \o body
    \o <<Return, Label(end), Op("String", "push", n), Op("Label", "__addCompileMethod", start)>>

LangComp == /\ Walking("compile")
            /\ calls' = Advanced
            /\ result' = result \o Routine(Node.n, Node.body, <<"start", labels>>, <<"end", labels + 1>>)
            /\ labels' = labels + 2
            /\ UNCHANGED <<src, disk, session, running, session_vars, edit, reent, progs, current>>

\* A node of an added language (ape_compiler_default).
CustomNode == /\ Walking("node")
              /\ Node.n \in DOMAIN vectors
              /\ calls' = Advanced
              /\ LET m == Run(Walk(Node, Machine))
                 IN /\ Returned(m)
                    /\ result' = result \o m.out
                    /\ env' = m.env
                    /\ vectors' = m.vectors
              /\ UNCHANGED <<src, disk, session, running, dict, handle, required, loadlibs, ran,
                             edit, reent, labels, progs, current>>

\* A file that is not found is a parse error that is printed.
Include == /\ Walking("include")
           /\ \/ /\ IsSource(Node.n) /\ Len(calls) < MaxDepth
                 /\ calls' = Append(Advanced, [what |-> "include", name |-> Node.n, at |-> 1])
                 /\ StartWalk(reent)
              \/ /\ ~ IsSource(Node.n)
                 /\ calls' = Advanced
                 /\ UNCHANGED <<reent, result>>
           /\ UNCHANGED <<src, disk, session, running, session_vars, edit, labels, progs, current>>

EndInclude == /\ running /\ calls # <<>>
              /\ Frame.what = "include" /\ Walked
              /\ calls' = Front(calls)
              /\ reent' = reent - 1
              /\ UNCHANGED <<src, disk, session, running, session_vars, result, edit, labels, progs, current>>

Require == /\ Walking("require")
           /\ AddRequire(Advanced, Node.n, <<RequireNode(Node.n)>>)
           /\ UNCHANGED <<src, disk, session, running>>

LoadLib == /\ Walking("loadlib")
           /\ AddLoadLib(Advanced, Node.n, <<LoadLibNode(Node.n)>>)
           /\ UNCHANGED <<src, disk, session, running>>

(***************************************************************************)
(* The end of a compilation or of a load.  What was required or loaded as  *)
(* a library runs at once; a line of the interactive mode runs from where  *)
(* its code starts.                                                        *)
(***************************************************************************)
\* Mutant: only source files are remembered.
NowRequiredSource(f) == IF f.why = "require" /\ f.what = "file" THEN required \cup {f.name} ELSE required

NowRequired(f) == IF f.why = "require" THEN required \cup {f.name} ELSE required

Runs(why) == why \in {"require", "loadlib", "eval"}

Ended(f, id, p, ip, keep) ==
  LET m == IF Runs(f.why) THEN RunCode(p.code, id, ip) ELSE Machine
  IN /\ Returned(m)
     /\ progs' = [progs EXCEPT ![id] = p]
     /\ calls' = Front(calls)
     /\ result' = Joined(keep, m.out \o f.node)
     /\ env' = m.env
     /\ vectors' = m.vectors
     /\ required' = NowRequired(f)
     /\ loadlibs' = IF f.why = "loadlib" THEN loadlibs \cup {f.name} ELSE loadlibs
     /\ ran' = IF f.why \in {"require", "loadlib"} THEN Append(ran, f.name) ELSE ran
     /\ current' = IF f.why = "top" THEN id ELSE current

Complete == Append(result, Return)
Legal(chain) == \A i \in 1 .. Len(chain) : Written(chain[i]) => Known(dict, <<chain[i].t, chain[i].n>>)

\* compile_append_wast after the walk, and what its callers do with the program.
EndFile == /\ running /\ calls # <<>>
           /\ Frame.what = "file" /\ Walked
           /\ Legal(Complete)
           /\ Ended(Frame, edit, Serialize(Complete, progs[edit]), 2 * Len(progs[edit].code), Frame.keep)
           /\ handle' = NoHandle
           /\ edit' = IF Frame.why \in {"shell", "eval"} THEN edit ELSE Frame.edit
           /\ reent' = Frame.reent
           /\ UNCHANGED <<src, disk, session, running, dict, labels>>

\* A line of the interactive mode with a node that no vector compiles: the walk
\* ends there, the chain so far becomes code of the edited program all the
\* same, and only the line is not run.
RejectLine ==
  /\ Unknown
  /\ Frame.what = "file" /\ Frame.why = "eval"
  /\ Legal(Complete)
  /\ calls' = Front(calls)
  /\ progs' = [progs EXCEPT ![edit] =
                 [Serialize(Complete, @) EXCEPT !.parts = Append(Front(@), <<Frame.name, Frame.at - 1>>)]]
  /\ result' = Frame.keep
  /\ handle' = NoHandle
  /\ reent' = Frame.reent
  /\ UNCHANGED <<src, disk, session, running, dict, env, vectors, required, loadlibs, ran,
                 edit, labels, current>>

\* program_unserialize: first the libraries, then the required files.
LibsLeft == Frame.lib \in DOMAIN disk[Frame.name].libs
ReqsLeft == Frame.req \in DOMAIN disk[Frame.name].reqs

ImageLib == /\ running /\ calls # <<>>
            /\ Frame.what = "image" /\ LibsLeft
            /\ AddLoadLib([calls EXCEPT ![Len(calls)].lib = @ + 1], disk[Frame.name].libs[Frame.lib], <<>>)
            /\ UNCHANGED <<src, disk, session, running>>

ImageRequire == /\ running /\ calls # <<>>
                /\ Frame.what = "image" /\ ~ LibsLeft /\ ReqsLeft
                /\ AddRequire([calls EXCEPT ![Len(calls)].req = @ + 1], disk[Frame.name].reqs[Frame.req], <<>>)
                /\ UNCHANGED <<src, disk, session, running>>

\* ... and the symbols, the strings, the dictionary, the labels, the code.
EndImage == /\ running /\ calls # <<>>
            /\ Frame.what = "image" /\ ~ LibsLeft /\ ~ ReqsLeft
            /\ Ended(Frame, Frame.id, Loaded(disk[Frame.name]), 0, result)
            /\ UNCHANGED <<src, disk, session, running, dict, handle, edit, reent, labels>>

(***************************************************************************)
(* The command line (do_args) and the process.                             *)
(***************************************************************************)
Idle == running /\ calls = <<>>

CompileFile == \E f \in Named :
  /\ Idle
  /\ Compile(<<>>, f, "top", <<>>, NoChain)
  /\ UNCHANGED <<src, disk, session, running>>

LoadImage == \E i \in DOMAIN disk :
  /\ Idle
  /\ OpenImage(<<>>, i, "top", <<>>)
  /\ UNCHANGED <<src, disk, session, running>>

\* Bound: a name is saved to once.
Save == \E i \in Images :
  /\ Idle /\ current # 0 /\ ~ IsImage(i)
  /\ disk' = [d \in DOMAIN disk \cup {i} |-> IF d = i THEN Image(progs[current]) ELSE disk[d]]
  /\ UNCHANGED <<src, session, running, session_vars, walk_vars, calls, progs, current>>

RunForeground ==
  /\ Idle /\ current # 0
  /\ LET m == RunCode(progs[current].code, current, 0)
     IN Returned(m) /\ env' = m.env /\ vectors' = m.vectors
  /\ UNCHANGED <<src, disk, session, running, dict, handle, required, loadlibs, ran, walk_vars, calls, progs, current>>

Interactive ==
  /\ Idle /\ edit = 0
  /\ Compile(<<>>, Preamble, "shell", <<>>, NoChain)
  /\ UNCHANGED <<src, disk, session, running>>

Evaluate == \E f \in Named :
  /\ Idle /\ edit # 0
  /\ Compile(<<>>, f, "eval", <<>>, NoChain)
  /\ UNCHANGED <<src, disk, session, running>>

\* A node no vector compiles and a library that is not there end the process on
\* the command line (default_error_handler), an opcode that is not in the
\* dictionary always does (vm_fatal).  Left out: an unknown node of a file that
\* a line of the interactive mode requires or includes; the process stays there.
Fatal ==
  /\ running /\ calls # <<>>
  /\ \/ /\ ~ Interactively
        /\ \/ Unknown
           \/ Walking("loadlib") /\ Node.n \notin Libs
           \/ Frame.what = "image" /\ LibsLeft /\ disk[Frame.name].libs[Frame.lib] \notin Libs
     \/ Frame.what = "file" /\ (Walked \/ Unknown) /\ ~ Legal(Complete)
  /\ running' = FALSE
  /\ UNCHANGED <<src, disk, session, session_vars, walk_vars, calls, progs, current>>

\* A new process finds the files and the images.
Restart == /\ session < MaxSessions
           /\ session' = session + 1
           /\ running' = TRUE
           /\ dict' = Core /\ handle' = NoHandle /\ env' = <<>> /\ vectors' = [n \in {} |-> 0]
           /\ required' = {} /\ loadlibs' = {} /\ ran' = <<>>
           /\ result' = NoChain /\ edit' = 0 /\ reent' = 0 /\ labels' = 0
           /\ calls' = <<>> /\ progs' = <<>> /\ current' = 0
           /\ UNCHANGED <<src, disk>>

\* A prebuilt image holds a file without directives.
Init == /\ src \in Sources
        /\ session = 1 /\ running = TRUE
        /\ dict = Core /\ handle = NoHandle /\ env = <<>> /\ vectors = [n \in {} |-> 0]
        /\ required = {} /\ loadlibs = {} /\ ran = <<>>
        /\ result = NoChain /\ edit = 0 /\ reent = 0 /\ labels = 0
        /\ calls = <<>> /\ progs = <<>> /\ current = 0
        /\ disk = [i \in DOMAIN Prebuilt |->
                     Image(Serialize(Append(src[Prebuilt[i]], Return), NewProgram("source", <<Part(Prebuilt[i])>>)))]

Next == \/ AddNode("op") \/ AddNode("label") \/ AddDataNode
        \/ LibFile \/ DeclOpcode \/ LangComp \/ CustomNode
        \/ Include \/ EndInclude \/ Require \/ LoadLib
        \/ EndFile \/ RejectLine \/ ImageLib \/ ImageRequire \/ EndImage
        \/ CompileFile \/ LoadImage \/ Save \/ RunForeground \/ Interactive \/ Evaluate
        \/ Fatal \/ Restart

Spec == Init /\ [][Next]_vars

-----------------------------------------------------------------------------
(* Properties. *)

\* When the first require of a source file throws the chain away, the chain is
\* empty: "discard result, anyway it is empty at this point" (program.c).
EmptyWhenDiscarded ==
  [][\A i \in DOMAIN calls' \ DOMAIN calls :
       calls'[i].what = "file" /\ calls'[i].why = "require" => result \in {NoChain, <<>>}]_vars

\* The program of a required file or of a library runs once in a process,
\* whoever asks for it, source, image or library.
RunOnce == \A i, j \in DOMAIN ran : ran[i] = ran[j] => i = j
=============================================================================
