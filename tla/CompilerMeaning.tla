--------------------------- MODULE CompilerMeaning ---------------------------
(***************************************************************************)
(* What a file means, whatever the order of passes, files and sessions:    *)
(* its opcodes by name, with the symbols and strings by name and the       *)
(* labels by the instruction they stand before.  Programs and images that  *)
(* Compiler makes of files must mean the same.                             *)
(***************************************************************************)
EXTENDS Compiler

RoutineOf(n) == LET f == CHOOSE g \in DOMAIN src : \E i \in DOMAIN src[g] : src[g][i].k = "compile" /\ src[g][i].n = n
                    at == CHOOSE i \in DOMAIN src[f] : src[f][i].k = "compile" /\ src[f][i].n = n
                IN src[f][at].body

RECURSIVE Flat(_), Written_by(_)
\* The nodes that a custom node stands for: the text of its routine, in order.
Written_by(x) ==
  IF x.k # "node" THEN <<x>>
  ELSE LET step(acc, i) ==
             CASE i.n = "push" -> [acc EXCEPT !.stack = Append(@, i.a)]
               [] i.n = "astGetChildString" -> [acc EXCEPT !.stack = Append(@, x.children[i.a + 1].n)]
               [] i.n = "astCompileChild" -> [acc EXCEPT !.out = @ \o Written_by(x.children[i.a + 1])]
               [] i.n = "write_label" -> [acc EXCEPT !.out = Append(@, Label(<<i.a>>))]
               [] i.n = "write_data" -> [acc EXCEPT !.stack = SubSeq(@, 1, Len(@) - 2),
                    !.out = Append(@, Data(Last(acc.stack), Last(Front(acc.stack))))]
               [] i.n = "write_oc" -> [acc EXCEPT !.out = Append(@, Op("NoArg", i.a, 0))]
               [] i.n \in DOMAIN WriteTypes -> [acc EXCEPT !.stack = Front(@),
                                                          !.out = Append(@, Op(WriteTypes[i.n], i.a, Popped(WriteTypes[i.n], Last(acc.stack))))]
               [] OTHER -> acc
       IN FoldLeft(step, [stack |-> <<>>, out |-> <<>>], RoutineOf(x.n)).out

Flat(nodes) ==
  FlattenSeq([i \in 1 .. Len(nodes) |->
    CASE nodes[i].k \in {"op", "label", "data"} -> <<nodes[i]>>
      [] nodes[i].k = "include" -> IF IsSource(nodes[i].n) THEN Flat(src[nodes[i].n]) ELSE <<>>
      [] nodes[i].k = "compile" -> Routine(nodes[i].n, nodes[i].body, <<"start", nodes[i].n>>, <<"end", nodes[i].n>>)
      [] nodes[i].k = "node" -> Written_by(nodes[i])
      [] OTHER -> <<>>])

\* base: how many instructions come before.
MeaningOf(nodes, base) ==
  LET at(i) == base + Len(Opcodes(SubSeq(nodes, 1, i - 1)))
      target(l, i) == IF l[1] = "+" THEN at(i) + l[2] \div 2
                      ELSE at(CHOOSE j \in DOMAIN nodes : nodes[j] = Label(l))
      ops == SelectSeq([i \in 1 .. Len(nodes) |-> i], LAMBDA i : nodes[i].k = "op")
  IN [j \in 1 .. Len(ops) |->
        LET x == nodes[ops[j]] IN [op |-> <<x.t, x.n>>, arg |-> IF x.t = "Label" THEN target(x.a, ops[j]) ELSE x.a]]

SourceMeaning(parts) ==
  FoldLeft(LAMBDA acc, part : LET nodes == Append(Flat(SubSeq(src[part[1]], 1, part[2])), Return)
                                IN [code |-> acc.code \o MeaningOf(nodes, Len(acc.code)), data |-> acc.data \o Cells(nodes)],
           [code |-> <<>>, data |-> <<>>], parts)

Meaning(p) ==
  [code |-> [i \in 1 .. Len(p.code) |->
     LET c == p.code[i] IN
     [op |-> c.op, arg |-> CASE c.op[1] = "Label" -> (2 * (i - 1) + c.arg) \div 2
                             [] c.op[1] = "EnvSym" -> IF c.arg \in DOMAIN env THEN env[c.arg] ELSE "no symbol"
                             [] OTHER -> c.arg]],
   data |-> p.data]

\* lookup_label_by_offset: the offsets of the labels, the empty one first, are
\* searched by halves; 0 is no label.
RECURSIVE Bisect(_, _, _, _)
Bisect(table, ip, lower, upper) ==
  LET mid == (lower + upper) \div 2
      val == IF mid = 0 THEN 0 ELSE table[mid][2]
      from == IF val < ip THEN mid ELSE lower
      to == IF val > ip THEN mid ELSE upper
  IN IF val = ip THEN mid ELSE IF to > from + 1 THEN Bisect(table, ip, from, to) ELSE 0

\* The thread's IP is one instruction behind the label.
LookupLabel(p, ip) == Bisect(p.labels, ip + 2, 0, Len(p.labels) + 1)

UnderWay == {calls[i].id : i \in {j \in DOMAIN calls : calls[j].what = "image"}}
            \cup (IF calls = <<>> THEN {} ELSE {edit})
            \cup {calls[i].edit : i \in {j \in DOMAIN calls : calls[j].what = "file"}}
Finished(from) == {i \in DOMAIN progs \ UnderWay : progs[i].from = from}

\* The search by halves finds a label wherever program p has one.
LabelsFound(p) ==
  \A j \in 1 .. Len(p.labels) :
    LET found == LookupLabel(p, p.labels[j][2] - 2)
    IN found # 0 /\ p.labels[found][2] = p.labels[j][2]

\* Code means what its source says: every opcode is the one that was written,
\* every jump goes to the instruction behind its label, every symbol is the one
\* that was named, whatever was compiled, loaded or run in between.  And the
\* labels are found again, unless directives moved them behind their places.
CodeMeansSource ==
  \A i \in Finished("source") :
    /\ Meaning(progs[i]) = SourceMeaning(progs[i].parts)
    /\ progs[i].libs = <<>> /\ progs[i].reqs = <<>> => LabelsFound(progs[i])

\* program.c, line 492: the labels are looked up by halves; they are not in the
\* order of their offsets when directives moved some of them.
LabelsInOrder == \A i \in Finished("source") : LabelsFound(progs[i])

\* An image means the same when it is loaded, in a process with another opcode
\* dictionary and another table of symbols.
ImagesKeepMeaning == \A i \in Finished("image") : Meaning(progs[i]) = SourceMeaning(progs[i].parts)
=============================================================================
