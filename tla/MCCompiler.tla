----------------------------- MODULE MCCompiler -----------------------------
\* Small files around one library, one file that defines a symbol, one
\* included file and one image of that file which an earlier session left.
EXTENDS CompilerMeaning

MCCore == [t \in {"NoArg", "Int", "String", "Label", "EnvSym"} |->
  CASE t = "NoArg" -> <<"nop", "envAdd", "write_data">>
    [] t = "Int" -> <<"push", "ret", "astGetChildString", "astCompileChild">>
    [] t = "String" -> <<"push", "write_oc", "write_ocEnvSym", "write_ocLabel", "write_label">>
    [] t = "Label" -> <<"jmp", "__addCompileMethod">>
    [] t = "EnvSym" -> <<"envGet">>]
MCExports == [math |-> {<<"NoArg", "add">>, <<"NoArg", "sub">>}]
MCPrebuilt == [old |-> "defs"]

Item(k, n) == [k |-> k, n |-> n]
Decl(n) == [k |-> "opcode", op |-> <<"NoArg", n>>]
Custom(n, children) == [k |-> "node", n |-> n, children |-> children]
Push(s) == Op("String", "push", s)

\* unless: jumps over what its child compiles to; var: the value of a symbol.
Unless == <<Push("U"), Op("String", "write_ocLabel", "jmp"), Op("Int", "astCompileChild", 0),
            Op("String", "write_label", "U")>>
Var == <<Op("Int", "astGetChildString", 0), Op("String", "write_ocEnvSym", "envGet"),
         Op("Int", "push", 2), Op("Int", "push", 7), Op("NoArg", "write_data", 0)>>

Math == <<Item("libfile", "math"), Decl("sub"), Decl("gone"), Decl("add"),
          [k |-> "compile", n |-> "var", body |-> Var], Op("NoArg", "sub", 0),
          Push("z"), Op("NoArg", "envAdd", 0)>>
Defs == <<Label(<<"D">>), Push("y"), Op("NoArg", "envAdd", 0), Push("x"), Op("NoArg", "envAdd", 0)>>
Lang == <<[k |-> "compile", n |-> "unless", body |-> Unless], Data(3, 1)>>

Child == Item("var", "x")
Bodies == {<<>>,
           <<Op("Label", "jmp", <<"L">>), Push("x"), Op("NoArg", "add", 0), Label(<<"L">>)>>,
           <<Op("EnvSym", "envGet", "x"), Op("Label", "jmp", <<"+", 4, 0>>), Op("NoArg", "nop", 0), Op("EnvSym", "envGet", "y")>>,
           <<Op("NoArg", "gone", 0)>>, <<Op("NoArg", "nop", 0), Custom("who", <<>>), Op("NoArg", "nop", 0)>>,
           <<Custom("var", <<Item("sym", "x")>>), Op("NoArg", "add", 0)>>,
           <<Custom("unless", <<Custom("var", <<Item("sym", "y")>>)>>), Op("NoArg", "nop", 0)>>}
Directive == {Item("loadlib", "math"), Item("loadlib", "none"), Item("require", "defs"), Item("require", "old"), Item("require", "new"),
              Item("require", "none"), Item("require", "lang"), Item("include", "part"), Item("include", "none")}
Found == {d \in Directive : d.n # "none"}
Heads == {<<>>} \cup {<<d>> : d \in Directive} \cup {<<p[1], p[2]>> : p \in {q \in Found \X Found : q[1] # q[2]}}

Asks(h, ds) == \E i \in DOMAIN h : h[i] \in ds
Uses(b, test(_)) == \E i \in DOMAIN b : test(b[i])
\* A file asks for what it uses: other files do not parse.
Closed(h, b) ==
  /\ Asks(h, {Item("loadlib", "math")}) \/ ~ Uses(b, LAMBDA x : x.k = "node" \/ x \in {Op("NoArg", "add", 0), Op("NoArg", "gone", 0)})
  /\ Asks(h, {Item("require", "defs"), Item("require", "old")}) \/ ~ Uses(b, LAMBDA x : x.k = "node" \/ (x.k = "op" /\ x.t = "EnvSym"))
  /\ Asks(h, {Item("require", "lang")}) \/ ~ Uses(b, LAMBDA x : x.k = "node" /\ x.n = "unless")
ClosedMains == {hb[1] \o hb[2] : hb \in {x \in Heads \X Bodies : Closed(x[1], x[2])}}

FilesWith(m) == [main |-> m, math |-> Math, defs |-> Defs, lang |-> Lang, shell |-> <<>>,
                 part |-> <<Op("Label", "jmp", <<"P">>), Op("NoArg", "nop", 0), Label(<<"P">>), Data(4, 2)>>]
MCSources == {FilesWith(m) : m \in ClosedMains}
=============================================================================
