------------------------------- MODULE MCLoops -------------------------------
(* The whole pipeline on loops that count.                                 *)
EXTENDS Compiler, Samples

j == SymNode("j")
From0(s, n, ss) == <<Let(s, N(0)), WhileNode(Less(SymNode(s), n), Block(ss \o <<Inc(SymNode(s))>>))>>
Count(n, ss) == From0("i", n, ss)
Add(e) == Asg(x, Plus(x, e))
Ten(init) == LetArray("m", IntArray(10), init)
M(e) == At1("m", e)

Sums ==
  {Count(a, <<Add(Times(i, b))>>),
   Count(a, <<Add(Times(a, b))>>),
   Count(a, <<Add(Over(a, b))>>),
   Count(a, <<Asg(x, Minus(b, x))>>),
   Count(a, <<Let("t", Plus(b, x)), Asg(b, Minus(b, x)), Asg(x, SymNode("t"))>>),
   Count(a, <<If(Less(x, i), Add(N(3)))>>),
   Count(a, <<If(B(i, "eq", b), Block(<<Inc(i), ContinueNode>>)), Add(i)>>),
   Count(a, <<If(B(i, "eq", b), BreakNode), Add(i)>>),
   Count(a, <<If(B(Less(i, b), "or", Less(x, i)), Inc(x))>>),
   <<Let("i", b), WhileNode(B(i, "le", a), Block(<<Add(i), Inc(i)>>))>>,
   <<Let("i", N(1)), WhileNode(B(N(9), "ge", i), Block(<<Put(i), Asg(i, Plus(i, N(2)))>>)), Add(i)>>,
   <<WhileNode(Less(x, a), Block(<<Inc(x)>>))>>,
   <<Let("i", N(0)), WhileNode(N(1), Block(<<If(B(i, "ge", a), BreakNode), Add(i), Inc(i)>>))>>,
   <<Let("i", N(0)), WhileNode(UnaryNode("not", B(N(3), "lt", i)), Block(<<Add(Times(a, b)), Inc(i)>>))>>,
   Count(b, From0("j", a, <<Add(Plus(i, j))>>)),
   Count(b, From0("j", i, <<Put(j), If(Less(a, j), BreakNode)>>))}
Two(p, q) == <<LetArray("m", IntArray(2), None), Asg(M(N(0)), p), Asg(M(N(1)), q)>>
Arrays ==
  {<<Ten(None)>> \o Count(N(9), <<Asg(M(i), N(0))>>) \o <<Asg(M(N(9)), b)>> \o From0("j", a, <<Add(M(j))>>),
   Two(N(3), N(4)) \o Count(N(2), <<Add(M(i))>>),
   Two(N(3), N(4)) \o <<Let("i", N(1)), WhileNode(B(i, "le", N(1)), Block(<<Asg(b, Plus(M(i), b)), Inc(i)>>))>>,
   Two(N(3), N(4)) \o Count(N(2), <<Asg(M(b), Plus(M(i), N(2))), Add(M(i))>>),
   <<Ten(List(<<N(1), b, N(3), a, N(5)>>))>> \o Count(a, <<Add(M(i))>>),
   <<Ten(None), Asg(M(N(0)), b)>> \o Count(N(9), <<Asg(M(Plus(i, N(1))), Plus(M(i), N(2)))>>) \o <<Add(M(N(9)))>>,
   <<Ten(None)>> \o Count(N(10), <<Asg(M(i), Times(i, a))>>) \o From0("j", N(10), <<Add(Times(M(j), b))>>)}
Functions1 ==
  {<<Fun("f", <<ArrayParam("p", Int32), Param("n")>>, Count(SymNode("n"), <<Asg(At1("p", i), N(0))>>) \o <<ReturnNode(At1("p", N(0)))>>),
     Main(<<Ten(List(<<N(7), a, b>>)), Add(CallNode("f", <<SymNode("m"), N(2)>>)), Put(M(N(1))), Put(M(N(2)))>>)>>,
   <<Fun("f", <<Param("n")>>, <<Let("s", N(1))>> \o Count(SymNode("n"), <<Asg(SymNode("s"), Plus(SymNode("s"), CallNode("f", <<i>>)))>>) \o <<ReturnNode(SymNode("s"))>>),
     Main(<<If(Less(b, N(3)), Add(CallNode("f", <<b>>)))>>)>>,
   <<LetArray("m", IntArray(10), None), Main(Count(N(10), <<Asg(M(i), a)>>) \o From0("j", N(5), <<Add(M(Times(j, N(2))))>>))>>,
   <<Fun("f", <<ArrayParam("p", Int32), Param("n")>>, <<Let("s", N(0))>> \o Count(SymNode("n"), <<Asg(SymNode("s"), Plus(SymNode("s"), At1("p", i)))>>) \o <<ReturnNode(SymNode("s"))>>),
     Main(<<Ten(List(<<N(7), a, b>>)), Add(CallNode("f", <<SymNode("m"), N(10)>>)), Add(CallNode("f", <<SymNode("m"), N(2)>>))>>)>>}

(* Known to go wrong: elements that an initializer list stores, and a      *)
(* variable that is constant from the second turn on.                      *)
Listed == {<<Main(<<Ten(List(<<N(1), N(2), N(3)>>))>> \o Count(N(10), <<Add(M(i))>>))>>}
Settled == {<<Main(<<Let("s", N(0))>> \o Count(a, <<Asg(SymNode("s"), Plus(SymNode("s"), x)), Asg(x, N(5))>>) \o <<Asg(x, SymNode("s"))>>)>>}

(* Functions that are called and not written out, for the backend.         *)
Params(n) == [k \in 1..n |-> Param(<<"p", "q", "r", "s", "t", "u", "v", "w", "y", "z">>[k])]
p == SymNode("p")
q == SymNode("q")
Calling(f, es) == CallNode(f, es)
Selected ==
  {<<Fun("f", Params(2), <<If(Less(p, N(1)), ReturnNode(q)), ReturnNode(Calling("f", <<Minus(p, N(1)), Plus(q, p)>>))>>),
     Main(<<If(Less(a, N(5)), Asg(x, Calling("f", <<a, b>>)))>>)>>,
   <<Fun("f", Params(2), <<If(Less(p, N(1)), ReturnNode(q)), ReturnNode(Calling("f", <<Minus(p, N(1)), p>>))>>),
     Main(<<If(Less(a, N(5)), Asg(x, Calling("f", <<a, b>>)))>>)>>,
   <<Fun("f", Params(2), <<If(Less(p, N(1)), ReturnNode(q)), ReturnNode(Calling("f", <<q, Minus(p, N(1))>>))>>),
     Main(<<If(Less(a, N(4)), Asg(x, Calling("f", <<b, N(3)>>)))>>)>>,
   <<Fun("f", Params(10), <<If(Less(p, N(1)), ReturnNode(Minus(SymNode("y"), SymNode("z")))),
       ReturnNode(Calling("f", <<Minus(p, N(1)), q, q, q, q, q, q, q, SymNode("z"), SymNode("y")>>))>>),
     Main(<<If(Less(a, N(5)), Asg(x, Calling("f", <<a, N(1), N(1), N(1), N(1), N(1), N(1), N(1), b, N(40)>>)))>>)>>,
   <<Fun("f", Params(10), <<If(Less(p, N(1)), ReturnNode(Minus(SymNode("y"), SymNode("z")))),
       ReturnNode(Plus(N(1), Calling("f", <<Minus(p, N(1)), q, q, q, q, q, q, q, SymNode("z"), SymNode("y")>>)))>>),
     Main(<<If(Less(a, N(5)), Asg(x, Calling("f", <<a, N(1), N(1), N(1), N(1), N(1), N(1), N(1), b, N(40)>>)))>>)>>,
   <<Fun("f", Params(1), <<Put(p), If(Less(p, N(1)), ReturnNode(N(7))), ReturnNode(Plus(Times(p, p), Calling("f", <<Minus(p, N(1))>>)))>>),
     Main(<<If(Less(a, N(4)), Asg(x, Calling("f", <<a>>)))>>)>>,
   <<Fun("f", Params(1), <<Put(p), If(Less(p, N(1)), ReturnNode(N(7))), Calling("f", <<Minus(p, N(1))>>), ReturnNode(p)>>),
     Main(<<If(Less(a, N(4)), Asg(x, Calling("f", <<a>>)))>>)>>,
   <<Fun("f", Params(1), <<If(Less(p, N(1)), ReturnNode(N(5))), ReturnNode(Plus(p, N(1)))>>),
     Main(<<Let("c", Calling("f", <<a>>)), Ten(None)>> \o Count(N(10), <<Asg(M(i), SymNode("c")), If(Less(i, N(3)), Asg(M(i), b))>>) \o <<Add(M(N(9))), Add(M(N(1)))>>)>>,
   <<Fun("f", Params(1), <<If(Less(p, N(1)), ReturnNode(N(5))), ReturnNode(Plus(p, N(1)))>>),
     Main(<<LetArray("k", IntArray(2), None), Asg(At1("k", N(1)), a), Asg(At1("k", N(0)), b), Let("c", Calling("f", <<a>>)), Ten(None)>> \o Count(N(10), <<Asg(M(i), SymNode("c")), If(Less(i, N(3)), Asg(M(i), At1("k", N(1))))>>) \o <<Add(M(N(9))), Add(M(N(1))), Add(At1("k", N(0)))>>)>>,
   <<VarDefNode("g", Int32, N(5), FALSE), LetArray("m", Matrix(2, 3), List(<<N(1), N(2), N(3), N(4)>>)),
     Fun("f", <<ArrayParam("p", IntArray(3)), Param("n")>>,
         <<If(B(SymNode("n"), "le", N(0)), ReturnNode(g)), Asg(g, Plus(g, At2("p", N(1), Minus(SymNode("n"), N(1))))),
           ReturnNode(Calling("f", <<p, Minus(SymNode("n"), N(1))>>))>>),
     Main(<<Asg(At2("m", N(1), N(2)), b), Asg(At2("m", N(1), N(1)), a), If(Less(a, N(4)), Add(Calling("f", <<SymNode("m"), N(3)>>)))>>)>>}
(* Expressions that are computed more than once.                           *)
K(e) == At1("k", e)
Repeated ==
  {<<IfNode(Less(a, b), Block(<<Asg(x, Times(a, b)), Put(Plus(a, N(3)))>>), Block(<<Put(Times(b, a)), Asg(x, Plus(a, N(3)))>>))>>,
   <<IfNode(Less(a, b), Asg(x, Minus(a, b)), Asg(x, Minus(b, a))), Add(Minus(a, b))>>,
   <<Put(Plus(a, b)), If(Less(a, b), Block(<<Put(Plus(b, a)), IfNode(Less(x, N(4)), Asg(x, Over(a, N(3))), Put(Over(a, N(3))))>>))>>,
   <<Ten(List(<<a, b, N(3)>>)), IfNode(Less(a, b), Asg(M(a), N(5)), Asg(M(a), N(6))), Add(M(a)), Add(M(N(1)))>>,
   <<Ten(None), LetArray("k", IntArray(10), None)>> \o Count(N(10), <<Asg(M(i), a), Asg(K(i), b)>>) \o From0("j", N(10), <<IfNode(Less(j, a), Asg(M(j), b), Asg(K(j), a)), Add(Minus(M(j), K(j)))>>),
   <<Put(B(Less(a,b), "eq", Less(b, a))), If(Less(b, a), Put(Plus(Less(b,a), Less(a,b))))>>,
   <<Ten(None)>> \o Count(N(10), <<Asg(M(i), b)>>) \o Count(a, <<Put(Plus(M(i), x)), Asg(M(i), Plus(M(i), i)), Add(M(i))>>),
   <<Ten(None)>> \o Count(N(10), <<Asg(M(i), b)>>) \o Count(b, <<Let("j", i), WhileNode(Less(j, N(10)), Block(<<Add(M(j)), Inc(j), If(Less(j, N(4)), Put(M(j)))>>))>>)}
(* Functions that are memoized with -O1, or must not be.                   *)
n == SymNode("n")
F1(e) == Calling("f", <<e>>)
Fib(e) == Fun("f", <<Param("n")>>, <<If(Less(n, N(2)), ReturnNode(e)), ReturnNode(Plus(F1(Minus(n, N(1))), F1(Minus(n, N(2)))))>>)
CallFib == <<If(Less(a, N(5)), Block(<<Asg(x, F1(a)), Asg(g, Plus(g, N(7))), Add(F1(a))>>))>>
Remembered ==
  {<<VarDefNode("g", Int32, N(1), FALSE), Fib(e), Main(CallFib)>> : e \in {n, g, Plus(n, N(1))}}
  \cup {<<VarDefNode("g", Int32, N(1), FALSE), Fib(n),
          Fun("h", <<Param("n"), Param("p")>>, <<If(Less(n, p), ReturnNode(Plus(F1(n), p))), ReturnNode(Calling("h", <<Minus(n, N(2)), Plus(F1(p), p)>>))>>),
          Main(<<If(Less(a, N(4)), Add(Calling("h", <<a, b>>)))>> \o CallFib)>>}
LostCopy == {<<Main(<<Let("t", N(0)), WhileNode(N(1), Block(<<Asg(SymNode("t"), x), Inc(x), If(B(x, "ge", a), BreakNode)>>)), Asg(x, SymNode("t"))>>)>>}

(* Known to go wrong: phis that read one another.                          *)
Exchanging(e) == <<Main(Count(a, <<Let("t", e), Asg(x, b), Asg(b, SymNode("t"))>>) \o <<Asg(x, Minus(x, b))>>)>>
Swapped == {Exchanging(x), Exchanging(Plus(x, b))}
(* Two phis that agree in every value, which no run contains: the search   *)
(* for a phi to replace one with throws.                                   *)
Twins ==
  {<<Main(<<Let("y", N(0)), IfNode(Less(a, b), Block(<<Asg(x, N(1)), Asg(SymNode("y"), N(1))>>),
                                              Block(<<Asg(x, N(2)), Asg(SymNode("y"), N(2))>>)), Add(SymNode("y"))>>)>>}
(* A tail call that passes the address of an array of the frame it takes   *)
(* over, which no run contains either.                                     *)
TailFrame ==
  {<<Fun("f", <<ArrayParam("p", Int32), Param("n")>>,
       <<LetArray("m", IntArray(2), None), If(Less(SymNode("n"), N(1)), ReturnNode(At1("p", N(0)))),
         Asg(M(N(0)), SymNode("n")), Asg(M(N(1)), At1("p", N(0))), Put(At1("p", N(1))),
         ReturnNode(Calling("f", <<SymNode("m"), Minus(SymNode("n"), N(1))>>))>>),
     Main(<<Ten(List(<<a, b>>)), If(Less(a, N(5)), Add(Calling("f", <<SymNode("m"), a>>)))>>)>>}
(* An element of a global array that changes between two calls of a        *)
(* function that reads it, which goes wrong with -O1.                      *)
GlobalElement ==
  {<<VarDefNode("m", IntArray(2), None, FALSE), Fun("f", <<Param("n")>>, <<If(Less(n, N(1)), ReturnNode(M(N(1)))), ReturnNode(Plus(n, F1(Minus(n, N(1)))))>>),
     Main(<<If(Less(a, N(5)), Block(<<Asg(M(N(1)), b), Asg(x, F1(a)), Asg(M(N(1)), a), Add(F1(a))>>))>>)>>}

MCPrograms == {<<Main(ss)>> : ss \in Sums \cup Arrays \cup Repeated} \cup Functions1 \cup Selected \cup Remembered \cup LostCopy
MCInputs == {<<0, 1>>, <<1, 0>>, <<3, 1>>, <<10, 2>>, <<23, -1>>}
=============================================================================
