---------------------------- MODULE GoSemantics ----------------------------
(***************************************************************************)
(* What a program of module Machine does according to the Go language      *)
(* specification: statements and expressions are evaluated by recursion    *)
(* over their structure, with the ways a statement can end (Go's           *)
(* "terminating" and "branch" statements, and panics) as results, and no   *)
(* stacks.  To that Gno adds the realms: a call runs in the realm of its   *)
(* function, and a realm is finalized when a call returns from it.         *)
(***************************************************************************)
EXTENDS Integers, Sequences, SequencesExt, TLC

CONSTANTS Realms, Nil

\* The state: variables by scope, the output, the panic a deferred function can
\* recover from, and the deferred calls of the function.
Ends(st, o, to, v) == [st |-> st, o |-> o, to |-> to, v |-> v]
Normal(st, v) == Ends(st, "normal", Nil, v)
Emit(st, line) == [st EXCEPT !.out = Append(@, line)]

Scope(st, up) == [st EXCEPT !.scopes = Append(@, [vars |-> <<>>, up |-> up])]
Declare(st, c, n, v) == [st EXCEPT !.scopes[c].vars = (n :> v) @@ @]
Where(st, c, n) ==
    LET find[b \in DOMAIN st.scopes] == IF n \in DOMAIN st.scopes[b].vars THEN b ELSE find[st.scopes[b].up]
    IN  find[c]
Set(st, c, n, v) == Declare(st, Where(st, c, n), n, v)

\* The value of an expression n, or how a statement n ends, in scope c of the
\* function fn; n is also one of the parts below.
RECURSIVE Sem(_, _, _, _, _)

All(xs) == [k |-> "all", xs |-> xs]                                 \* expressions, from left to right
Invoke(fv, args) == [k |-> "invoke", fv |-> fv, args |-> args]
Deferred(end) == [k |-> "deferred", end |-> end]                    \* deferred calls after a body
From(body, i) == [k |-> "from", body |-> body, i |-> i]             \* statements from the i-th on
Scoped(body) == [k |-> "scoped", body |-> body]                     \* a body in a scope of its own
Loop(s) == [k |-> "loop", s |-> s]
Ranging(s, list, i) == [k |-> "ranging", s |-> s, list |-> list, i |-> i]
Clause(cs, i) == [k |-> "clause", cs |-> cs, i |-> i]               \* the i-th clause
Matching(cs, tag, i) == [k |-> "matching", cs |-> cs, tag |-> tag, i |-> i]

Operator(op, l, r) == CASE op = "OpAdd" -> l + r [] op = "OpLss" -> l < r [] op = "OpEql" -> l = r

Bind(st, c, names, values) ==
    LET bind[i \in 0..Len(names)] == IF i = 0 THEN st ELSE Declare(bind[i - 1], c, names[i], values[i])
    IN  bind[Len(names)]

\* What comes after r, unless it panics.
After(r, then(_)) == IF r.o = "panic" THEN r ELSE then(r)

\* How the end of a body ends the loop or switch s, and whether a loop goes on.
Ours(r, s) == r.to \in {Nil, s.label}
Left(r, s) == IF r.o = "break" /\ Ours(r, s) THEN Normal(r.st, Nil) ELSE r
GoesOn(r, s) == r.o = "normal" \/ (r.o = "continue" /\ Ours(r, s))

Sem(P, fn, c, st, n) ==
  LET in == Scope(st, c)          \* for statements with a scope, and their init
      d == Len(in.scopes)
      init == IF n.init = Nil THEN Normal(in, Nil) ELSE Sem(P, fn, d, in, n.init)
  IN
  CASE n.k = "const" -> Normal(st, n.v)
    [] n.k = "name" -> Normal(st, st.scopes[Where(st, c, n.n)].vars[n.n])
    [] n.k = "lit" -> Normal(st, [f |-> n.f, clo |-> c])
    [] n.k \in {"and", "or"} ->
         After(Sem(P, fn, c, st, n.left),
               LAMBDA l : IF l.v = (n.k = "or") THEN l ELSE Sem(P, fn, c, l.st, n.right))
    [] n.k = "binary" ->
         After(Sem(P, fn, c, st, All(<<n.left, n.right>>)),
               LAMBDA r : Normal(r.st, Operator(n.op, r.v[1], r.v[2])))
    [] n.k = "call" ->
         After(Sem(P, fn, c, st, All(<<n.func>> \o n.args)),
               LAMBDA r : Sem(P, fn, c, r.st, Invoke(Head(r.v), Tail(r.v))))
    [] n.k = "all" ->
         IF n.xs = <<>> THEN Normal(st, <<>>)
         ELSE After(Sem(P, fn, c, st, Head(n.xs)),
                    LAMBDA x : After(Sem(P, fn, c, x.st, All(Tail(n.xs))),
                                     LAMBDA r : Normal(r.st, <<x.v>> \o r.v)))

    \* A call: the body, the deferred calls, and the realm is left.
    [] n.k = "invoke" ->
         LET f == P[n.fv.f]
             realm == IF f.pkg \in Realms THEN f.pkg ELSE fn.realm
             callee == [f |-> n.fv.f, realm |-> realm, depth |-> fn.depth + 1]
             scope == Scope([st EXCEPT !.defers = <<>>, !.exc = Nil], n.fv.clo)
             own == Len(scope.scopes)
             args == Bind(scope, own, f.params \o f.results, n.args \o [i \in DOMAIN f.results |-> 0])
             end == Sem(P, callee, own, args, Deferred(Sem(P, callee, own, args, From(f.body, 1))))
             back == [end.st EXCEPT !.defers = st.defers, !.exc = st.exc]
             left == IF realm # Nil /\ (fn.depth = 0 \/ realm # fn.realm) THEN Emit(back, <<"finalize", realm>>) ELSE back
         IN  (CASE f.native = "println" -> Normal(Emit(st, <<"print", n.args[1], realm>>), Nil)
                [] f.native = "recover" -> Normal([st EXCEPT !.exc = Nil], st.exc)
                [] f.native = Nil /\ end.o = "panic" -> [end EXCEPT !.st = back]
                [] f.native = Nil /\ end.o # "panic" ->
                     Normal(left, IF f.results = <<>> THEN Nil ELSE end.st.scopes[own].vars[f.results[1]]))

    \* The last deferred call first.  A panic goes on unless it is recovered.
    [] n.k = "deferred" ->
         IF n.end.st.defers = <<>> THEN n.end
         ELSE LET dfr == Last(n.end.st.defers)
                  rest == Front(n.end.st.defers)
                  was == n.end.o = "panic"
                  f == P[dfr.func.f]
                  now == [n.end.st EXCEPT !.defers = <<>>, !.exc = IF was THEN n.end.v ELSE Nil]
                  scope == Scope(now, dfr.func.clo)
                  own == Len(scope.scopes)
                  ran == IF f.native # Nil THEN Sem(P, fn, c, now, Invoke(dfr.func, dfr.args))
                         ELSE Sem(P, [fn EXCEPT !.f = dfr.func.f], own, Bind(scope, own, f.params, dfr.args), From(f.body, 1))
                  after == [ran.st EXCEPT !.defers = rest, !.exc = Nil]
                  goes == IF ran.o = "panic" THEN Ends(after, "panic", Nil, ran.v)
                          ELSE IF was /\ ran.st.exc # Nil THEN Ends(after, "panic", Nil, n.end.v)
                          ELSE Normal(after, Nil)
              IN  Sem(P, fn, c, after, Deferred(goes))

    \* goto continues at the label.
    [] n.k = "from" ->
         IF n.i > Len(n.body) THEN Normal(st, Nil)
         ELSE LET r == Sem(P, fn, c, st, n.body[n.i])
                  at == {j \in DOMAIN n.body : r.o = "goto" /\ n.body[j].label = r.to}
              IN  IF at # {} THEN Sem(P, fn, c, r.st, From(n.body, CHOOSE j \in at : TRUE))
                  ELSE IF r.o = "normal" THEN Sem(P, fn, c, r.st, From(n.body, n.i + 1)) ELSE r
    [] n.k \in {"scoped", "block"} -> Sem(P, fn, d, in, From(n.body, 1))
    [] n.k = "loop" ->
         After(IF n.s.cond = Nil THEN Normal(st, TRUE) ELSE Sem(P, fn, c, st, n.s.cond),
               LAMBDA cond :
                 IF ~cond.v THEN Normal(cond.st, Nil)
                 ELSE LET r == Sem(P, fn, c, cond.st, Scoped(n.s.body))
                          post == IF n.s.post = Nil THEN r ELSE Sem(P, fn, c, r.st, n.s.post)
                      IN  IF GoesOn(r, n.s) THEN Sem(P, fn, c, post.st, n) ELSE Left(r, n.s))
    [] n.k = "ranging" ->
         IF n.i > Len(n.list) THEN Normal(st, Nil)
         ELSE LET key == IF n.s.key = Nil THEN st ELSE Declare(st, c, n.s.key, n.i - 1)
                  both == IF n.s.value = Nil THEN key ELSE Declare(key, c, n.s.value, n.list[n.i])
                  r == Sem(P, fn, c, both, Scoped(n.s.body))
              IN  IF GoesOn(r, n.s) THEN Sem(P, fn, c, r.st, Ranging(n.s, n.list, n.i + 1)) ELSE Left(r, n.s)
    [] n.k = "clause" ->
         LET r == Sem(P, fn, c, st, Scoped(n.cs[n.i].body))
         IN  IF r.o = "fallthrough" THEN Sem(P, fn, c, r.st, Clause(n.cs, n.i + 1)) ELSE r

    \* The first clause with a case that equals the tag, or the default clause.
    [] n.k = "matching" ->
         IF n.i <= Len(n.cs)
         THEN LET vs == Sem(P, fn, c, st, All(n.cs[n.i].cases))
              IN  Sem(P, fn, c, vs.st, IF \E j \in DOMAIN vs.v : vs.v[j] = n.tag THEN Clause(n.cs, n.i)
                                       ELSE Matching(n.cs, n.tag, n.i + 1))
         ELSE LET default == {j \in DOMAIN n.cs : n.cs[j].cases = <<>>}
              IN  IF default = {} THEN Normal(st, Nil) ELSE Sem(P, fn, c, st, Clause(n.cs, CHOOSE j \in default : TRUE))

    [] n.k = "assign" ->
         After(Sem(P, fn, c, st, All(n.rhs)),
               LAMBDA r : LET set[i \in 0..Len(n.lhs)] ==
                                IF i = 0 THEN r.st
                                ELSE IF n.define THEN Declare(set[i - 1], c, n.lhs[i], r.v[i])
                                ELSE Set(set[i - 1], c, n.lhs[i], r.v[i])
                          IN  Normal(set[Len(n.lhs)], Nil))
    [] n.k \in {"inc", "dec"} ->
         LET by == IF n.k = "inc" THEN 1 ELSE -1
         IN  Normal(Set(st, c, n.name, st.scopes[Where(st, c, n.name)].vars[n.name] + by), Nil)
    [] n.k = "expr" -> Sem(P, fn, c, st, n.x)
    [] n.k = "if" ->
         After(Sem(P, fn, d, init.st, n.cond), LAMBDA r : Sem(P, fn, d, r.st, Scoped(IF r.v THEN n.then ELSE n.else)))
    [] n.k = "for" -> Sem(P, fn, d, init.st, Loop(n))
    [] n.k = "range" -> After(Sem(P, fn, d, in, n.x), LAMBDA r : Sem(P, fn, d, r.st, Ranging(n, r.v, 1)))
    [] n.k = "switch" ->
         Left(After(Sem(P, fn, d, init.st, n.x), LAMBDA r : Sem(P, fn, d, r.st, Matching(n.clauses, r.v, 1))), n)
    [] n.k = "return" ->
         IF n.results = Nil THEN Ends(st, "return", Nil, Nil)
         ELSE After(Sem(P, fn, c, st, All(n.results)),
                    LAMBDA r : Ends(Set(r.st, c, P[fn.f].results[1], r.v[1]), "return", Nil, Nil))
    [] n.k = "panic" -> After(Sem(P, fn, c, st, n.x), LAMBDA r : Ends(r.st, "panic", Nil, r.v))
    [] n.k = "defer" ->
         After(Sem(P, fn, c, st, All(<<n.call.func>> \o n.call.args)),
               LAMBDA r : Normal([r.st EXCEPT !.defers = Append(@, [func |-> Head(r.v), args |-> Tail(r.v)])], Nil))
    [] n.k \in {"break", "continue", "goto"} -> Ends(st, n.k, n.to, Nil)
    [] n.k = "fallthrough" -> Ends(st, "fallthrough", Nil, Nil)

\* What the program does: its functions are in the outermost scope.
Runs(P) ==
    LET st == [scopes |-> <<[vars |-> [f \in DOMAIN P |-> [f |-> f, clo |-> 1]], up |-> 0]>>,
               out |-> <<>>, exc |-> Nil, defers |-> <<>>]
        end == Sem(P, [f |-> "main", realm |-> Nil, depth |-> 0], 1, st, Invoke([f |-> "main", clo |-> 1], <<>>))
    IN  [out |-> end.st.out, panics |-> end.o = "panic"]
=============================================================================
