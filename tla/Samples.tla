------------------------------- MODULE Samples -------------------------------
(***************************************************************************)
(* Programs to compile, put together from parts the grammar of             *)
(* src/frontend/parser.y allows: relations and logical operators stand in  *)
(* conditions only.  main reads a and b, and tells x and then a + b.       *)
(* No condition is `left && name' or `left || name': those are compiled to *)
(* a bitwise operation on integers.                                        *)
(***************************************************************************)
EXTENDS SysY

a == SymNode("a")
b == SymNode("b")
x == SymNode("x")
g == SymNode("g")
i == SymNode("i")
N(n) == ImmNode(n)
B(l, op, r) == BinaryNode(op, l, r)
Plus(l, r) == B(l, "add", r)
Minus(l, r) == B(l, "sub", r)
Times(l, r) == B(l, "mul", r)
Over(l, r) == B(l, "div", r)
Less(l, r) == B(l, "lt", r)
Let(s, e) == VarDefNode(s, Int32, e, FALSE)
Const(s, e) == VarDefNode(s, Int32, e, TRUE)
LetArray(s, ty, e) == VarDefNode(s, ty, e, FALSE)
Asg(v, e) == AssignNode(v, e)
Inc(v) == Asg(v, Plus(v, N(1)))
At1(s, e) == ItemNode(SymNode(s), <<e>>)
At2(s, e, f) == ItemNode(SymNode(s), <<e, f>>)
Block(ss) == BlockNode(ss)
If(c, s) == IfNode(c, s, None)
Put(e) == CallNode("putint", <<e>>)
Param(s) == [sym |-> s, ty |-> Int32]
ArrayParam(s, ty) == [sym |-> s, ty |-> PointerTypeNode(ty)]
Fun(f, params, ss) == FuncDefNode(f, Int32, params, Block(ss))
Proc(f, params, ss) == FuncDefNode(f, BasicTypeNode(Void), params, Block(ss))
Matrix(n, m) == ArrayTypeNode(IntArray(m), N(n))
List(es) == ArrayDefNode(es)

Main(ss) ==
  Fun("main", <<>>,
      <<Let("a", CallNode("getint", <<>>)), Let("b", CallNode("getint", <<>>)), Let("x", N(0))>>
      \o ss \o <<Put(x), ReturnNode(Plus(a, b))>>)
-----------------------------------------------------------------------------
Exps ==
  {a, N(3), Plus(a, b), Minus(a, Times(b, N(2))), Over(a, b), B(a, "rem", b),
   UnaryNode("neg", a), UnaryNode("not", Plus(a, b)), Plus(UnaryNode("not", a), N(2)),
   UnaryNode("neg", UnaryNode("not", b))}
Conds ==
  {a, Less(a, b), B(a, "ge", N(1)), B(a, "eq", b), B(Less(a, b), "eq", N(1)), UnaryNode("not", a),
   B(Less(a, b), "and", Less(b, N(2))), B(Less(a, b), "or", Less(b, N(1))),
   B(a, "and", UnaryNode("not", b)), B(B(a, "or", Less(b, a)), "and", B(b, "ne", N(1))),
   B(Less(a, N(1)), "or", B(Less(N(0), b), "and", B(Over(b, a), "gt", N(0))))}

(* Statements with a condition c and an expression e.                      *)
Branching(c, e) ==
  {If(c, Asg(x, e)),
   IfNode(c, Asg(x, e), Block(<<Inc(a), Asg(x, a)>>)),
   IfNode(c, ReturnNode(e), Inc(b)),
   If(c, Block(<<Let("x", e), Asg(b, x)>>))}
Looping1(c, e) ==
  {WhileNode(c, Block(<<Inc(a), Asg(x, e), If(B(a, "gt", N(2)), BreakNode)>>)),
   WhileNode(Less(a, N(3)), Block(<<Inc(a), If(c, ContinueNode), Asg(x, Plus(x, e))>>)),
   WhileNode(Less(a, N(3)), Block(<<Inc(a), IfNode(c, BreakNode, Asg(x, e))>>))}

Inits == {<<>>, <<N(1)>>, <<a, N(2), b>>, <<List(<<N(1)>>), List(<<a, b>>)>>, <<N(1), N(2), List(<<b>>)>>, <<List(<<>>), N(4)>>}
ConstInits == {<<>>, <<N(1), N(2), N(3)>>, <<List(<<N(1)>>), List(<<N(2), N(0)>>)>>, <<List(<<>>), Minus(N(4), N(1))>>}

(* Arrays, of one and two dimensions, local, global and passed on.         *)
Sum2(s) == Plus(Plus(At2(s, N(0), N(0)), Times(N(2), At2(s, N(0), N(1)))),
                Plus(Times(N(4), At2(s, N(1), N(0))), Times(N(8), At2(s, N(1), N(1)))))
ArrayPrograms ==
  {<<Main(<<LetArray("m", Matrix(2, 2), List(es)), Asg(x, Sum2("m"))>>)>> : es \in Inits}
  \cup {<<LetArray("m", Matrix(2, 2), List(es)), Main(<<Asg(x, Sum2("m"))>>)>> : es \in ConstInits}
  \cup {<<LetArray("m", Matrix(2, 2), None),
          Fun("f", <<ArrayParam("p", IntArray(2)), Param("i")>>,
              <<Asg(At2("p", i, N(1)), Plus(i, N(1))), ReturnNode(At2("p", N(0), i))>>),
          Fun("h", <<ArrayParam("p", Int32)>>, <<Inc(At1("p", N(1))), ReturnNode(At1("p", N(0)))>>),
          Main(<<Asg(At2("m", a, b), N(7)), Asg(x, Plus(CallNode("f", <<SymNode("m"), e>>), CallNode("h", <<At1("m", N(1))>>))),
                 Asg(x, Plus(x, Sum2("m")))>>)>> : e \in {N(0), b}}
  \cup {<<Const("n", Plus(N(1), N(1))), Main(<<LetArray("m", ArrayTypeNode(IntArray(2), Plus(SymNode("n"), N(0))), None),
          Let("i", N(0)), WhileNode(Less(i, SymNode("n")), Block(<<Asg(At2("m", i, N(0)), i), Asg(At2("m", i, N(1)), Plus(i, e)), Inc(i)>>)),
          Asg(x, Sum2("m"))>>)>> : e \in {a, N(1)}}

(* Functions and variables at file scope.                                  *)
FunctionPrograms ==
  {<<VarDefNode("g", Int32, init, FALSE), d, Main(<<Asg(x, CallNode("f", <<e>>)), Asg(b, g)>>)>> :
     init \in {None, N(2)}, e \in {a, Plus(b, N(1))},
     d \in {Fun("f", <<Param("i")>>, <<Asg(g, Plus(g, i)), ReturnNode(g)>>),
            Fun("f", <<Param("i")>>, <<If(Less(i, N(1)), ReturnNode(N(1))), ReturnNode(Plus(i, CallNode("f", <<Minus(i, N(1))>>)))>>),
            Fun("f", <<Param("i")>>, <<WhileNode(N(1), Block(<<If(Less(N(2), i), ReturnNode(i)), Inc(i)>>)), ReturnNode(N(0))>>),
            Fun("f", <<Param("g")>>, <<IfNode(g, Block(<<Inc(g), ReturnNode(g)>>), ReturnNode(N(9)))>>)}}
  \cup {<<VarDefNode("g", Int32, N(1), FALSE), Proc("f", <<Param("i")>>, <<If(i, ReturnNode(None)), Asg(g, N(5))>>),
          Fun("h", <<Param("i")>>, <<CallNode("f", <<i>>), ReturnNode(Plus(g, i))>>),
          Main(<<CallNode("f", <<a>>), Asg(x, CallNode("h", <<b>>)), s>>)>> :
          s \in {Inc(g), If(Less(a, g), CallNode("f", <<N(0)>>)), Asg(b, Plus(b, CallNode("h", <<N(1)>>)))}}
=============================================================================
