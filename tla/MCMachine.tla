----------------------------- MODULE MCMachine -----------------------------
(***************************************************************************)
(* Programs for Machine: a function with deferred calls, a loop labelled   *)
(* L, a statement in the loop, and one of the ways to leave a statement in *)
(* that; and the results of GoSemantics for them.                          *)
(***************************************************************************)
EXTENDS Machine

MCRealms == {"bank", "shop"}

Go == INSTANCE GoSemantics

MCWant(P) == Go!Runs(P)

-----------------------------------------------------------------------------
(* Syntax.                                                                 *)

Val(v) == [k |-> "const", v |-> v]
Name(n) == [k |-> "name", n |-> n]
Lit(f) == [k |-> "lit", f |-> f]
CallOf(f, args) == [k |-> "call", func |-> f, args |-> args]
Binary(op, l, r) == [k |-> "binary", op |-> op, left |-> l, right |-> r]
Or(l, r) == [k |-> "or", left |-> l, right |-> r]
And(l, r) == [k |-> "and", left |-> l, right |-> r]
Does(x) == [k |-> "expr", label |-> Nil, x |-> x]
Println(x) == Does(CallOf(Name("println"), <<x>>))
Assign(n, x) == [k |-> "assign", label |-> Nil, define |-> FALSE, lhs |-> <<n>>, rhs |-> <<x>>]
Define(n, x) == [k |-> "assign", label |-> Nil, define |-> TRUE, lhs |-> <<n>>, rhs |-> <<x>>]
Inc(n) == [k |-> "inc", label |-> Nil, name |-> n]
Dec(n) == [k |-> "dec", label |-> Nil, name |-> n]
If(cond, then, else) == [k |-> "if", label |-> Nil, init |-> Nil, cond |-> cond, then |-> then, else |-> else]
ForLess(label, n, max, body) ==
    [k |-> "for", label |-> label, init |-> Define(n, Val(0)), cond |-> Binary("OpLss", Name(n), Val(max)),
     post |-> Inc(n), body |-> body]
Forever(label, body) == [k |-> "for", label |-> label, init |-> Nil, cond |-> Nil, post |-> Nil, body |-> body]
RangeOver(label, n, v, list, body) ==
    [k |-> "range", label |-> label, key |-> n, value |-> v, x |-> Val(list), body |-> body]
Switch(x, clauses) == [k |-> "switch", label |-> Nil, init |-> Nil, x |-> x, clauses |-> clauses]
When(cases, body) == [cases |-> cases, body |-> body]
BlockOf(body) == [k |-> "block", label |-> Nil, body |-> body]
Return(x) == [k |-> "return", label |-> Nil, results |-> x]
Panics(x) == [k |-> "panic", label |-> Nil, x |-> x]
Defers(f, args) == [k |-> "defer", label |-> Nil, call |-> CallOf(f, args)]
Branch(kind, to) == [k |-> kind, label |-> Nil, to |-> to]
Falls(index) == [k |-> "fallthrough", label |-> Nil, index |-> index]
Labelled(l, s) == [s EXCEPT !.label = l]
Func(results, body, pkg) == [params |-> <<>>, results |-> results, body |-> body, native |-> Nil, pkg |-> pkg]
NativeFunc(f, params) == [params |-> params, results |-> IF f = "recover" THEN <<"exception">> ELSE <<>>,
                          body |-> <<>>, native |-> f, pkg |-> "uverse"]

-----------------------------------------------------------------------------
(* The programs.                                                           *)

IsIn(n, v) == Binary("OpEql", Name(n), Val(v))
CallG == Println(CallOf(Name("g"), <<>>))

\* The statement that leaves another, or not.
Leaving ==
    [none |-> Println(Name("i")), break |-> Branch("break", Nil), continue |-> Branch("continue", Nil),
     breakL |-> Branch("break", "L"), continueL |-> Branch("continue", "L"), gotoE |-> Branch("goto", "E"),
     gotoA |-> If(Binary("OpLss", Name("k"), Val(2)), <<Branch("goto", "A")>>, <<>>),
     return |-> Return(<<Val(3)>>), bare |-> Return(Nil), panic |-> Panics(Val(4)), call |-> CallG,
     defer |-> Defers(Name("println"), <<Name("i")>>)]

\* The statement b is in.
Inner(kind, b) ==
    CASE kind = "alone" -> b
      [] kind = "if" -> If(And(IsIn("i", 1), Binary("OpLss", CallOf(Name("tick"), <<>>), Val(9))), <<b>>, <<Println(Val(20))>>)
      [] kind = "block" -> BlockOf(<<If(Or(IsIn("i", 0), Binary("OpLss", CallOf(Name("tick"), <<>>), Val(0))), <<Dec("k")>>, <<b>>), Println(Val(21))>>)
      [] kind = "for" -> ForLess(Nil, "j", 2, <<If(IsIn("j", 1), <<b>>, <<>>), Println(Name("j"))>>)
      [] kind = "range" -> RangeOver(Nil, Nil, "w", <<5, 6>>, <<b, Println(Name("w"))>>)
      [] kind = "empty" -> RangeOver(Nil, "j", Nil, <<>>, <<b>>)
      [] kind = "switch" -> Switch(Name("i"), <<When(<<Val(5), Val(1)>>, <<b, Println(Val(22))>>), When(<<Val(7)>>, <<>>)>>)
      [] kind = "default" -> Switch(Name("i"), <<When(<<>>, <<b, Println(Val(23))>>), When(<<Val(0)>>, <<Println(Val(24))>>)>>)
      [] kind = "falls" -> Switch(Name("i"), <<When(<<Val(0)>>, <<Println(Val(25)), Falls(1)>>), When(<<Val(3)>>, <<b>>)>>)

Outer(kind, body) ==
    CASE kind = "for" -> ForLess("L", "i", 2, body)
      [] kind = "range" -> RangeOver("L", "i", "v", <<7, 8>>, body)
      [] kind = "forever" -> Forever("L", <<Inc("i"), If(IsIn("i", 2), <<Branch("break", Nil)>>, <<>>)>> \o body)

Deferring ==
    [none |-> <<>>, print |-> <<Defers(Name("println"), <<Val(40)>>)>>,
     recover |-> <<Defers(Lit("log"), <<>>), Defers(Name("println"), <<Val(41)>>)>>,
     set |-> <<Defers(Lit("set"), <<>>)>>, again |-> <<Defers(Lit("log"), <<>>), Defers(Lit("again"), <<>>)>>,
     handle |-> <<Defers(Lit("loop"), <<>>), Defers(Lit("handle"), <<>>)>>]

Recover == CallOf(Name("recover"), <<>>)

\* f calls g, which may panic; main prints what f returns.
Program(d, o, in, b, last, fpkg, gpkg, gpanics) ==
    [main |-> Func(<<>>, <<Println(CallOf(Name("f"), <<>>)), Does(CallOf(Name("tick"), <<>>))>>, "main"),
     f |-> Func(<<"r">>,
                <<Define("k", Val(0)), Define("i", Val(-1))>> \o Deferring[d] \o
                <<Outer(o, <<Labelled("A", Inc("k")), Inner(in, Leaving[b]), Println(Val(10))>>),
                  Labelled("E", Println(Val(11))), Return(last)>>, fpkg),
     g |-> Func(<<"q">>, <<Println(Val(12)), IF gpanics THEN Panics(Val(13)) ELSE Return(<<Val(16)>>)>>, gpkg),
     tick |-> Func(<<"t">>, <<Println(Val(14)), Return(<<Binary("OpAdd", Name("t"), Val(1))>>)>>, "main"),
     log |-> Func(<<>>, <<Println(Recover)>>, fpkg),
     set |-> Func(<<>>, <<Assign("r", Val(9))>>, fpkg),
     again |-> Func(<<>>, <<Panics(Val(15))>>, fpkg),
     handle |-> Func(<<>>, <<If(Binary("OpEql", Recover, Val(Nil)), <<Return(Nil)>>, <<>>), Assign("r", Val(8))>>, fpkg),
     loop |-> Func(<<>>, <<RangeOver(Nil, Nil, "u", <<1, 2>>, <<Println(Name("u")), Branch("break", Nil)>>)>>, fpkg),
     println |-> NativeFunc("println", <<"xs">>), recover |-> NativeFunc("recover", <<>>)]

Ends == {"none", "return", "bare", "panic", "call", "defer"}
Framed == {"for", "range", "empty", "switch", "default", "falls"}

\* Deferred calls go with the ways to leave the function, calls of another realm
\* with f in one; goto A does not leave a loop or a switch, and a panic of
\* another realm meets no deferred call.
MCPrograms ==
    {Program(c.d, c.o, c.in, c.b, c.last, c.f, c.g, c.p) : c \in
        {c \in [d : DOMAIN Deferring, o : {"for", "range", "forever"},
                in : {"alone", "if", "block"} \cup Framed, b : DOMAIN Leaving, last : {Nil, <<Name("k")>>},
                f : {"main", "bank"}, g : {"main", "shop"}, p : BOOLEAN] :
            /\ c.d # "none" => c.b \in Ends /\ c.o = "for" /\ c.in \notin {"empty", "default"}
            /\ c.o # "for" => c.in \in {"alone", "block", "for", "range", "falls"}
            /\ c.b = "gotoA" => c.in \notin Framed
            /\ c.b # "call" => c.g = "main" /\ ~c.p
            /\ c.g = "shop" /\ c.p => c.d = "none"
            /\ c.f = "bank" <=> (c.b = "call" \/ c.d = "set")
            /\ c.last = Nil <=> c.d \in {"set", "print"}}}
=============================================================================
