------------------------------- MODULE MCMiddle -------------------------------
(* Conversion and the passes up to the data flow rounds.                   *)
EXTENDS Compiler, Samples

c1 == Less(a, b)
Else(c, s, t) == IfNode(c, s, t)
Swap == Block(<<Let("t", a), Asg(a, b), Asg(b, SymNode("t"))>>)
While(c, ss) == WhileNode(c, Block(ss))

(* Branches whose condition is known, or becomes known.                    *)
Known ==
  {<<Else(N(1), Asg(x, a), Asg(x, b))>>,
   <<Else(N(0), Block(<<Asg(x, a)>>), If(c1, Asg(x, b)))>>,
   <<Let("t", N(3)), Else(Less(SymNode("t"), N(2)), ReturnNode(a), Asg(x, SymNode("t")))>>,
   <<Let("t", N(0)), If(c1, Asg(SymNode("t"), N(0))), Else(SymNode("t"), Asg(x, a), Inc(x))>>,
   <<Let("t", N(0)), If(c1, Asg(SymNode("t"), N(1))), Else(SymNode("t"), Asg(x, a), Inc(x))>>,
   <<While(N(0), <<Inc(x)>>), Asg(x, Plus(x, b))>>,
   <<While(N(1), <<Inc(a), If(Less(N(2), a), BreakNode), If(c1, ContinueNode), Inc(x)>>)>>,
   <<If(B(N(1), "and", Less(a, N(1))), Asg(x, N(7)))>>,
   <<If(B(N(0), "or", Less(N(1), b)), ReturnNode(b)), Inc(x)>>,
   <<If(N(0), While(Less(a, b), <<Inc(a)>>)), Asg(x, a)>>,
   <<Else(c1, Block(<<ReturnNode(a), Inc(x)>>), ReturnNode(b))>>}

(* The same when a global becomes a local constant, after SSA.             *)
Late == {<<VarDefNode("g", Int32, N(n), FALSE), Main(ss)>> :
  n \in {0, 1}, ss \in {<<While(Less(x, N(2)), <<Else(g, Inc(a), Inc(b)), Inc(x)>>)>>,
                       <<Else(c1, Block(<<Else(b, Put(N(1)), Put(N(2))), If(g, Inc(b))>>), Inc(x))>>}}

(* Values that meet at joins and travel round loops.                       *)
Joins ==
  {<<Else(c1, Asg(x, N(1)), Asg(x, N(0))), Asg(a, x)>>} \cup
  {<<While(Less(x, N(2)), <<Inc(x), Swap>>)>>,
   <<While(Less(x, b), <<Let("t", N(0)), While(Less(SymNode("t"), a), <<Inc(SymNode("t")), If(B(SymNode("t"), "eq", x), BreakNode)>>), Inc(x)>>)>>,
   <<While(Less(a, N(3)), <<Inc(a), If(c1, ContinueNode), While(Less(x, a), <<Inc(x), If(B(x, "eq", N(1)), ContinueNode), Inc(b)>>)>>)>>,
   <<Let("t", None), Else(c1, Asg(SymNode("t"), a), Asg(SymNode("t"), Plus(b, N(1)))), While(Less(SymNode("t"), N(3)), <<Inc(SymNode("t"))>>), Asg(x, SymNode("t"))>>,
   <<If(B(Less(a, N(1)), "or", Less(b, N(1))), Swap), If(B(c1, "and", Less(x, a)), Asg(x, Minus(a, b)))>>}

(* What the plain optimizations rewrite.                                   *)
Algebra ==
  {<<Asg(x, Over(Times(a, N(2)), N(2)))>>, <<Asg(x, Minus(Plus(Plus(a, N(1)), b), b))>>,
   <<Asg(x, Minus(Plus(a, N(1)), N(1)))>>, <<Asg(x, Plus(Times(a, N(0)), Times(b, N(1))))>>,
   <<Asg(x, Plus(Plus(Plus(a, b), b), b))>>, <<Asg(x, Plus(Plus(a, a), a)), Asg(b, Plus(x, N(0)))>>,
   <<Let("u", Plus(a, b)), Asg(x, Over(a, N(1)))>>}

(* Calls to write out, with returns, loops and variables at file scope.    *)
Bodies ==
  {<<If(Less(i, N(1)), ReturnNode(N(5))), ReturnNode(Plus(i, g))>>,
   <<Let("t", N(0)), WhileNode(Less(SymNode("t"), i), Block(<<Inc(SymNode("t")), If(B(SymNode("t"), "eq", N(2)), ReturnNode(N(4)))>>)), ReturnNode(SymNode("t"))>>,
   <<Asg(g, Plus(g, i)), Inc(i), ReturnNode(i)>>}
Uses ==
  {<<Asg(x, CallNode("f", <<a>>)), Asg(b, g)>>,
   <<While(Less(x, N(2)), <<Inc(x), Asg(a, CallNode("f", <<Plus(a, CallNode("f", <<N(1)>>))>>))>>)>>,
   <<If(CallNode("f", <<b>>), Inc(g)), Asg(x, Plus(g, N(1)))>>}
Inlined ==
  {<<VarDefNode("g", Int32, N(1), FALSE), Fun("f", <<Param("i")>>, f), Main(m)>> : f \in Bodies, m \in Uses}
  \cup {<<VarDefNode("g", Int32, None, FALSE), Proc("p", <<Param("i")>>, <<If(i, ReturnNode(None)), Inc(g)>>),
          Fun("u", <<>>, <<ReturnNode(N(3))>>),
          Fun("f", <<Param("i")>>, <<CallNode("p", <<i>>), CallNode("p", <<N(0)>>), ReturnNode(Plus(g, i))>>),
          Main(<<Asg(x, CallNode("f", <<a>>)), CallNode("f", <<b>>)>>)>>}

(* Every kind of statement, with every condition and every expression.     *)
Mixed ==
  {<<Asg(x, e)>> : e \in Exps} \cup
  UNION {{<<s>> : s \in Branching(p[1], p[2]) \cup Looping1(p[1], p[2])} :
    p \in (Conds \X {Plus(a, b)}) \cup ({c1} \X Exps) \cup
          ({a, B(a, "eq", b), B(c1, "or", Less(b, N(1))), B(B(a, "or", Less(b, a)), "and", B(b, "ne", N(1)))}
             \X {Minus(a, Times(b, N(2))), B(a, "rem", b)})}

MCPrograms ==
  {<<Main(ss)>> : ss \in Known \cup Joins \cup Algebra \cup Mixed}
  \cup Inlined \cup Late \cup ArrayPrograms \cup FunctionPrograms
MCInputs == {<<0, 0>>, <<0, 1>>, <<1, 0>>, <<1, 2>>, <<2, -1>>}
=============================================================================
