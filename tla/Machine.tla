------------------------------ MODULE Machine ------------------------------
(***************************************************************************)
(* The virtual machine of Gno (pkgs/gnolang/machine.go, op_*.go): a loop   *)
(* that pops an operation and runs it on the stacks of operations,         *)
(* expressions, statements, values, frames and blocks.                     *)
(*                                                                         *)
(* This module models what carries the control flow: bodies, for and range *)
(* loops, if, switch, break, continue, goto, fallthrough, calls, return,   *)
(* defer, panic and recover, and the realm a call runs in.  Values are     *)
(* integers, Booleans, lists and functions.  A program is a set of         *)
(* functions, chosen at the start; what running it as a Go program gives   *)
(* is kept in want.                                                        *)
(*                                                                         *)
(* Names are looked up in the enclosing blocks, which is where the paths   *)
(* of the preprocessor lead, as functions are deferred where they are      *)
(* written.                                                                *)
(***************************************************************************)
EXTENDS Integers, Sequences, SequencesExt, FiniteSetsExt, TLC

CONSTANTS
    Programs,   \* [name of a function -> [params, results, body, native, pkg]]
    Realms,     \* packages that are realms
    Want(_),    \* what a program prints and whether it panics
    Nil

VARIABLES
    program,
    machine,    \* the stacks, the heap of blocks, the exception, realm and package, and the output
    status,     \* running, done, panicked
    want        \* history: what the program should do

vars == <<program, machine, status, want>>

-----------------------------------------------------------------------------
(* Stacks.                                                                 *)

Sticky == {"OpBody", "OpForLoop", "OpRangeIter", "OpReturnCallDefers"}

PushOp(m, op) == [m EXCEPT !.ops = Append(@, op)]
ForcePopOp(m) == [m EXCEPT !.ops = Front(@)]
PushValue(m, v) == [m EXCEPT !.values = Append(@, v)]
PopValues(m, n) == [m EXCEPT !.values = SubSeq(@, 1, Len(@) - n)]
PeekValue(m, n) == m.values[Len(m.values) - n + 1]
PushStmt(m, s) == [m EXCEPT !.stmts = Append(@, s)]

\* Evaluate x, and execute s, next.
PushEval(m, x) == [m EXCEPT !.exprs = Append(@, x), !.ops = Append(@, "OpEval")]
PushExec(m, s) == PushOp(PushStmt(m, s), "OpExec")

\* The expressions of xs, the first to be evaluated first.
PushEvals(m, xs) ==
    [m EXCEPT !.exprs = @ \o Reverse(xs), !.ops = @ \o [i \in DOMAIN xs |-> "OpEval"]]

\* A statement on the stack, or the body of a block, whose current statement
\* is the active one.
IsBody(s) == s.k = "body"
PeekStmt(m) == LET s == Last(m.stmts) IN IF IsBody(s) THEN m.heap[s.b].bs.active ELSE s
PopStmt(m) ==
    LET s == Last(m.stmts)
    IN  IF IsBody(s) THEN [m EXCEPT !.heap[s.b].bs.active = Nil] ELSE [m EXCEPT !.stmts = Front(@)]

\* A bodyStmt: next is -2 before it starts and -1 before an iteration.
BodyStmt(body) ==
    [body |-> body, next |-> -2, active |-> Nil, cond |-> Nil, post |-> Nil, key |-> Nil, value |-> Nil,
     index |-> 0, numOps |-> 0, numValues |-> 0, numExprs |-> 0, numStmts |-> 0]

LastBlock(m) == Last(m.blocks)

\* Alloc.NewBlock and PushBlock.
PushBlock(m, up, bs) ==
    [m EXCEPT !.heap = Append(@, [vars |-> <<>>, up |-> up, bs |-> bs]),
              !.blocks = Append(@, Len(m.heap) + 1)]

\* The body of the last block becomes bs, and runs.
RunBody(m, bs, op) ==
    [m EXCEPT !.heap[LastBlock(m)].bs = bs,
              !.ops = Append(@, op), !.stmts = Append(@, [k |-> "body", b |-> LastBlock(m)])]

\* The block that has the name n.
Owner(m, n) ==
    LET find[b \in DOMAIN m.heap] ==
          IF n \in DOMAIN m.heap[b].vars THEN b ELSE find[m.heap[b].up]
    IN  find[LastBlock(m)]

SetVar(m, b, n, v) == [m EXCEPT !.heap[b].vars = (n :> v) @@ @]

-----------------------------------------------------------------------------
(* Frames.                                                                 *)

PushFrameBasic(m, s) ==
    [m EXCEPT !.frames = Append(@,
        [src |-> s.k, label |-> s.label, stmt |-> s, numOps |-> Len(m.ops), numValues |-> Len(m.values),
         numExprs |-> Len(m.exprs), numStmts |-> Len(m.stmts), numBlocks |-> Len(m.blocks)])]

CallValues(m, nargs) == Len(m.values) - nargs - 1

EnterRealm(m, pkg) == IF pkg \in Realms THEN pkg ELSE m.realm

\* Enter the package of the function and, if it is one, its realm.
PushFrameCall(m, nargs, f) ==
    LET pkg == program[f.f].pkg IN
    [m EXCEPT !.frames = Append(@,
        [src |-> "call", label |-> Nil, stmt |-> Nil, numOps |-> Len(m.ops), numValues |-> CallValues(m, nargs),
         numExprs |-> Len(m.exprs), numStmts |-> Len(m.stmts), numBlocks |-> Len(m.blocks),
         func |-> f, defers |-> <<>>, lastPkg |-> m.pkg, lastRealm |-> m.realm]),
              !.pkg = pkg, !.realm = EnterRealm(m, pkg)]

ResetTo(m, ops, values, exprs, stmts, blocks) ==
    [m EXCEPT !.ops = SubSeq(@, 1, ops), !.values = SubSeq(@, 1, values), !.exprs = SubSeq(@, 1, exprs),
              !.stmts = SubSeq(@, 1, stmts), !.blocks = SubSeq(@, 1, blocks)]

\* Mutant: the blocks of the statement stay.
PopFrameAndReset_KeepsBlocks(m) ==
    LET fr == Last(m.frames)
        popped == [m EXCEPT !.frames = Front(@)]
    IN  PopStmt(ResetTo(popped, fr.numOps, fr.numValues, fr.numExprs, fr.numStmts, Len(m.blocks)))

PopFrameAndReset(m) ==
    LET fr == Last(m.frames)
        popped == [m EXCEPT !.frames = Front(@)]
    IN  PopStmt(ResetTo(popped, fr.numOps, fr.numValues, fr.numExprs, fr.numStmts, fr.numBlocks))

Unwound(m, fr) == ResetTo(m, fr.numOps, fr.numValues, fr.numExprs, fr.numStmts, fr.numBlocks)

\* The results, on top of the values, move down to where the call started.
PopFrameAndReturn(m) ==
    LET fr == Last(m.frames)
        n == Len(program[fr.func.f].results)
        results == SubSeq(m.values, Len(m.values) - n + 1, Len(m.values))
    IN  [Unwound(m, fr) EXCEPT !.frames = Front(@), !.values = @ \o results, !.numResults = n,
                               !.pkg = fr.lastPkg, !.realm = fr.lastRealm]

LastCallFrame(m) == Max({0} \cup {i \in DOMAIN m.frames : m.frames[i].src = "call"})
PopUntilLastCallFrame(m) == [m EXCEPT !.frames = SubSeq(@, 1, LastCallFrame(m))]

-----------------------------------------------------------------------------
(* Branches.                                                               *)

\* The innermost frame of one of the kinds, and of the label if there is one.
Target(m, kinds, label) ==
    Max({i \in DOMAIN m.frames : m.frames[i].src \in kinds /\ label \in {Nil, m.frames[i].label}})

\* Mutant: the label is ignored.
Break_NoLabel(m, label) ==
    PopFrameAndReset([m EXCEPT !.frames = SubSeq(@, 1, Target(m, {"for", "range", "switch"}, Nil))])

Break(m, label) ==
    PopFrameAndReset([m EXCEPT !.frames = SubSeq(@, 1, Target(m, {"for", "range", "switch"}, label))])

\* PeekFrameAndContinueFor and PeekFrameAndContinueRange, which keeps the list.
Continue(m, label) ==
    LET i == Target(m, {"for", "range"}, label)
        fr == m.frames[i]
        reset == ResetTo(m, fr.numOps + 1, fr.numValues + (IF fr.src = "range" THEN 1 ELSE 0),
                         fr.numExprs, fr.numStmts + 1, fr.numBlocks + 1)
        b == Last(reset.stmts).b
    IN  [reset EXCEPT !.frames = SubSeq(@, 1, i), !.heap[b].bs.next = Len(m.heap[b].bs.body)]

\* findGotoLabel: the last block, of those on the stack, with the label in its
\* body, and the index of the statement.
HasLabel(bs, label) == bs # Nil /\ \E i \in DOMAIN bs.body : bs.body[i].label = label
GotoBlock(m, label) == Max({i \in DOMAIN m.blocks : HasLabel(m.heap[m.blocks[i]].bs, label)})

\* goto pops blocks, and leaves the frames as they are.  The heights of a for
\* loop count its first condition, so that its slot may come back, stale.
Goto(m, label) ==
    LET n == GotoBlock(m, label)
        b == m.blocks[n]
        bs == m.heap[b].bs
        index == CHOOSE i \in DOMAIN bs.body : bs.body[i].label = label
        stale == PushValue(m, Nil)
    IN  [ResetTo(stale, bs.numOps, bs.numValues, bs.numExprs, bs.numStmts, n) EXCEPT
            !.heap[b].bs.next = index - 1, !.heap[b].bs.active = bs.body[index]]

\* toClauses: the default clause is the last.
ToClauses(clauses) ==
    SelectSeq(clauses, LAMBDA c : c.cases # <<>>) \o SelectSeq(clauses, LAMBDA c : c.cases = <<>>)

\* The next clause runs in the block of this one.
Fallthrough(m, index) ==
    RunBody(m, BodyStmt(ToClauses(Last(m.frames).stmt.clauses)[index + 1].body), "OpBody")

-----------------------------------------------------------------------------
(* EXEC_SWITCH of doOpExec: what a statement pushes.                       *)

ExecFor(m, s) ==
    LET up == LastBlock(m)
        loop == RunBody(PushBlock(PushFrameBasic(m, s), up, Nil),
                        [BodyStmt(s.body) EXCEPT !.cond = s.cond, !.post = s.post], "OpForLoop")
        cond == IF s.cond = Nil THEN loop ELSE PushEval(loop, s.cond)
    IN  IF s.init = Nil THEN cond ELSE PushExec(cond, s.init)

ExecRange(m, s) ==
    LET loop == RunBody(PushBlock(PushFrameBasic(m, s), LastBlock(m), Nil),
                        [BodyStmt(s.body) EXCEPT !.key = s.key, !.value = s.value], "OpRangeIter")
    IN  PushEval(loop, s.x)

ExecIf(m, s) ==
    LET cond == PushEval(PushOp(PushOp(PushBlock(m, LastBlock(m), Nil), "OpPopBlock"), "OpIfCond"), s.cond)
    IN  IF s.init = Nil THEN cond ELSE PushExec(cond, s.init)

\* Below the tag are the indices of the clause and of its case.
ExecSwitch(m, s) ==
    LET framed == PushOp(PushFrameBasic(m, s), "OpPopFrameAndReset")
        block == PushOp(PushOp(PushBlock(framed, LastBlock(m), Nil), "OpPopBlock"), "OpSwitchClause")
        tag == PushEval(PushValue(PushValue(block, 1), 1), s.x)
    IN  IF s.init = Nil THEN tag ELSE PushExec(tag, s.init)

\* Deferred calls run before the results are taken from the block.
ExecReturn(m, s) ==
    LET popped == PopStmt(m)
        fr == m.frames[LastCallFrame(m)]
        hasDefers == fr.defers # <<>>
        hasResults == program[fr.func.f].results # <<>>
        ops == CASE hasDefers /\ s.results # Nil /\ hasResults ->
                      <<"OpReturnFromBlock", "OpReturnCallDefers", "OpReturnToBlock">>
                 [] hasDefers /\ (s.results = Nil \/ ~hasResults) -> <<"OpReturnFromBlock", "OpReturnCallDefers">>
                 [] ~hasDefers /\ s.results = Nil -> <<"OpReturnFromBlock">>
                 [] ~hasDefers /\ s.results # Nil -> <<"OpReturn">>
        pushed == [popped EXCEPT !.ops = @ \o ops]
    IN  IF s.results = Nil THEN pushed ELSE PushEvals(pushed, s.results)

Exec(m, s) ==
    CASE s.k = "assign" -> PushEvals(PushOp(m, IF s.define THEN "OpDefine" ELSE "OpAssign"), s.rhs)
      [] s.k \in {"inc", "dec"} -> PushOp(m, IF s.k = "inc" THEN "OpInc" ELSE "OpDec")
      [] s.k = "expr" ->
           PushEval(PushOp(PopStmt(m), IF s.x.k = "call" THEN "OpPopResults" ELSE "OpPopValue"), s.x)
      [] s.k = "for" -> ExecFor(m, s)
      [] s.k = "range" -> ExecRange(m, s)
      [] s.k = "if" -> ExecIf(m, s)
      [] s.k = "switch" -> ExecSwitch(m, s)
      [] s.k = "block" ->
           RunBody(PushOp(PushBlock(m, LastBlock(m), Nil), "OpPopBlock"), BodyStmt(s.body), "OpBody")
      [] s.k = "return" -> ExecReturn(m, s)
      [] s.k = "panic" -> PushEval(PushOp(PopStmt(m), "OpPanic1"), s.x)
      [] s.k = "defer" -> PushEvals(PushOp(m, "OpDefer"), <<s.call.func>> \o s.call.args)
      [] s.k = "break" -> Break(m, s.to)
      [] s.k = "continue" -> Continue(m, s.to)
      [] s.k = "goto" -> Goto(m, s.to)
      [] s.k = "fallthrough" -> Fallthrough(m, s.index)

-----------------------------------------------------------------------------
(* The operations.  m is the machine after PopOp.                          *)

Op == IF status = "running" THEN Last(machine.ops) ELSE Nil
Popped == IF Op \in Sticky THEN machine ELSE ForcePopOp(machine)
Step(m) == machine' = m /\ UNCHANGED <<program, status, want>>

Halt ==
    /\ Op = "OpHalt"
    /\ machine' = Popped /\ status' = "done"
    /\ UNCHANGED <<program, want>>

DoOpExec == Op = "OpExec" /\ Step(Exec(Popped, PeekStmt(machine)))

\* The bodyStmt of block b starts: goto comes back to these heights.
Started(m, b, next) ==
    [m EXCEPT !.heap[b].bs = [@ EXCEPT !.next = next, !.numOps = Len(m.ops), !.numValues = Len(m.values),
                                       !.numExprs = Len(m.exprs), !.numStmts = Len(m.stmts)]]

\* The next statement of the body becomes active and is executed.
ExecNext(m, b) ==
    LET bs == m.heap[b].bs
        s == bs.body[bs.next + 1]
    IN  Exec([m EXCEPT !.heap[b].bs.next = @ + 1, !.heap[b].bs.active = s], s)

DoOpBody ==
    /\ Op = "OpBody"
    /\ LET b == LastBlock(machine)
           m == IF machine.heap[b].bs.next = -2 THEN Started(machine, b, 0) ELSE machine
       IN  Step(IF m.heap[b].bs.next < Len(m.heap[b].bs.body) THEN ExecNext(m, b)
                          ELSE [m EXCEPT !.ops = Front(@), !.stmts = Front(@)])

\* Evaluate the condition, run the body, and queue the condition and the post
\* statement.
DoOpForLoop ==
    /\ Op = "OpForLoop"
    /\ LET b == LastBlock(machine)
           m == IF machine.heap[b].bs.next = -2 THEN Started(machine, b, -1) ELSE machine
           bs == m.heap[b].bs
           test == bs.next = -1 /\ bs.cond # Nil
           in == IF bs.next # -1 THEN m
                 ELSE [PopValues(m, IF test THEN 1 ELSE 0) EXCEPT !.heap[b].bs.next = 0]
           back == [IF bs.cond = Nil THEN in ELSE PushEval(in, bs.cond) EXCEPT
                       !.heap[b].bs.next = -1, !.heap[b].bs.active = bs.post]
       IN  Step(IF test /\ ~PeekValue(m, 1) THEN PopFrameAndReset(PopValues(m, 1))
                ELSE IF in.heap[b].bs.next < Len(bs.body) THEN ExecNext(in, b)
                ELSE IF bs.post = Nil THEN back ELSE Exec(back, bs.post))

RangeDone(bs, list) == bs.index >= Len(list) - 1

DoOpRangeIter ==
    /\ Op = "OpRangeIter"
    /\ LET b == Last(machine.stmts).b
           list == PeekValue(machine, 1)
           m == IF machine.heap[b].bs.next = -2 THEN Started(machine, b, -1) ELSE machine
           bs == m.heap[b].bs
           key == IF bs.key = Nil THEN m ELSE SetVar(m, LastBlock(m), bs.key, bs.index)
           value == IF bs.value = Nil THEN key ELSE SetVar(key, LastBlock(m), bs.value, list[bs.index + 1])
           in == IF bs.next # -1 THEN m ELSE [value EXCEPT !.heap[b].bs.next = 0]
       IN  Step(IF machine.heap[b].bs.next = -2 /\ list = <<>> THEN PopFrameAndReset(machine)
                ELSE IF in.heap[b].bs.next < Len(bs.body) THEN ExecNext(in, b)
                ELSE IF RangeDone(bs, list) THEN PopFrameAndReset(in)
                ELSE [in EXCEPT !.heap[b].bs = [@ EXCEPT !.index = @ + 1, !.next = -1, !.active = Nil]])

DoOpIfCond ==
    /\ Op = "OpIfCond"
    /\ LET s == PeekStmt(machine)
           m == PopValues(PopStmt(Popped), 1)
           body == IF PeekValue(machine, 1) THEN s.then ELSE s.else
       IN  Step(IF body = <<>> THEN m ELSE RunBody(m, BodyStmt(body), "OpBody"))

\* A clause runs, and the switch statement with its three values is done.
RunClause(m, body) == RunBody(PopValues(PopStmt(m), 3), BodyStmt(body), "OpBody")

\* Mutant: there is always a clause that matches.
DoOpSwitchClause_Matches ==
    /\ Op = "OpSwitchClause"
    /\ LET clauses == ToClauses(PeekStmt(machine).clauses)
           i == PeekValue(machine, 3)
       IN  /\ i \in DOMAIN clauses
           /\ Step(IF clauses[i].cases = <<>> THEN RunClause(Popped, clauses[i].body)
                   ELSE PushEval(PushOp(Popped, "OpSwitchClauseCase"), clauses[i].cases[1]))

DoOpSwitchClause ==
    /\ Op = "OpSwitchClause"
    /\ LET m == Popped
           clauses == ToClauses(PeekStmt(machine).clauses)
           i == PeekValue(machine, 3)
       IN  Step(IF i > Len(clauses) THEN PopValues(PopStmt(m), 3)
                ELSE IF clauses[i].cases = <<>> THEN RunClause(m, clauses[i].body)
                ELSE PushEval(PushOp(m, "OpSwitchClauseCase"), clauses[i].cases[1]))

DoOpSwitchClauseCase ==
    /\ Op = "OpSwitchClauseCase"
    /\ LET m == PopValues(Popped, 1)
           clauses == ToClauses(PeekStmt(machine).clauses)
           i == PeekValue(m, 3)
           case == PeekValue(m, 2)
           set(j, c) == [m EXCEPT !.values = SubSeq(@, 1, Len(@) - 3) \o <<j, c, Last(@)>>]
       IN  Step(IF PeekValue(machine, 1) = PeekValue(m, 1) THEN RunClause(m, clauses[i].body)
                ELSE IF case < Len(clauses[i].cases)
                THEN PushEval(PushOp(set(i, case + 1), "OpSwitchClauseCase"), clauses[i].cases[case + 1])
                ELSE PushOp(set(i + 1, 1), "OpSwitchClause"))

-----------------------------------------------------------------------------
(* Expressions and assignments.                                            *)

DoOpEval ==
    /\ Op = "OpEval"
    /\ LET x == Last(machine.exprs)
           popped == [Popped EXCEPT !.exprs = Front(@)]
       IN  Step(CASE x.k = "name" -> PushValue(popped, machine.heap[Owner(machine, x.n)].vars[x.n])
                  [] x.k = "const" -> PushValue(popped, x.v)
                  [] x.k = "lit" -> PushValue(popped, [f |-> x.f, clo |-> LastBlock(machine)])
                  [] x.k \in {"and", "or"} -> PushEval(PushOp(Popped, "OpBinary1"), x.left)
                  [] x.k = "binary" -> PushEvals(PushOp(Popped, x.op), <<x.left, x.right>>)
                  [] x.k = "call" -> PushEvals(PushOp(Popped, "OpPrecall"), <<x.func>> \o x.args))

\* The right operand is evaluated only if it matters.
DoOpBinary1 ==
    /\ Op = "OpBinary1"
    /\ LET x == Last(machine.exprs)
           m == [Popped EXCEPT !.exprs = Front(@)]
       IN  Step(IF PeekValue(m, 1) = (x.k = "or") THEN m
                ELSE PushEval(PushOp(m, IF x.k = "and" THEN "OpLand" ELSE "OpLor"), x.right))

Apply(op, l, r) ==
    CASE op = "OpAdd" -> l + r [] op = "OpLss" -> l < r [] op = "OpEql" -> l = r
      [] op = "OpLand" -> l /\ r [] op = "OpLor" -> l \/ r

\* OpLand and OpLor come from OpBinary1, which has popped the expression.
DoOpBinary2 ==
    /\ Op \in {"OpAdd", "OpLss", "OpEql", "OpLand", "OpLor"}
    /\ LET m == IF Op \in {"OpLand", "OpLor"} THEN Popped ELSE [Popped EXCEPT !.exprs = Front(@)]
       IN  Step(PushValue(PopValues(m, 2), Apply(Op, PeekValue(m, 2), PeekValue(m, 1))))

\* The names get the values, each in its block.
Assigned(m, blocks, names, values) ==
    LET set[i \in 0..Len(names)] ==
          IF i = 0 THEN m ELSE SetVar(set[i - 1], blocks[i], names[i], values[i])
    IN  set[Len(names)]

DoOpAssign ==
    /\ Op \in {"OpAssign", "OpDefine"}
    /\ LET lhs == PeekStmt(machine).lhs
           m == PopValues(PopStmt(Popped), Len(lhs))
           rvs == SubSeq(machine.values, Len(machine.values) - Len(lhs) + 1, Len(machine.values))
           blocks == [i \in DOMAIN lhs |-> IF Op = "OpDefine" THEN LastBlock(m) ELSE Owner(m, lhs[i])]
       IN  Step(Assigned(m, blocks, lhs, rvs))

DoOpIncDec ==
    /\ Op \in {"OpInc", "OpDec"}
    /\ LET n == PeekStmt(machine).name
           b == Owner(machine, n)
       IN  Step(SetVar(PopStmt(Popped), b, n, machine.heap[b].vars[n] + (IF Op = "OpInc" THEN 1 ELSE -1)))

PopResults(m) == [PopValues(m, m.numResults) EXCEPT !.numResults = 0]

DoOpPop ==
    /\ Op \in {"OpPopValue", "OpPopResults", "OpPopBlock", "OpPopFrameAndReset"}
    /\ Step(CASE Op = "OpPopValue" -> PopValues(Popped, 1)
                  [] Op = "OpPopResults" -> PopResults(Popped)
                  [] Op = "OpPopBlock" -> [Popped EXCEPT !.blocks = Front(@)]
                  [] Op = "OpPopFrameAndReset" -> PopFrameAndReset(Popped))

-----------------------------------------------------------------------------
(* Calls.                                                                  *)

DoOpPrecall ==
    /\ Op = "OpPrecall"
    /\ LET nargs == Len(Last(machine.exprs).args)
           m == [Popped EXCEPT !.exprs = Front(@)]
       IN  Step(PushOp(PushFrameCall(m, nargs, PeekValue(m, 1 + nargs)), "OpCall"))

\* A block with the parameters and zero results; a function without results
\* returns at the end of its body.
DoOpCall ==
    /\ Op = "OpCall"
    /\ LET fv == Last(machine.frames).func
           f == program[fv.f]
           n == Len(f.params)
           block == PushBlock(PopValues(Popped, n), fv.clo, Nil)
           names == f.params \o f.results
           args == SubSeq(machine.values, Len(machine.values) - n + 1, Len(machine.values))
           m == Assigned(block, [i \in DOMAIN names |-> LastBlock(block)], names, args \o [i \in DOMAIN f.results |-> 0])
           returns == IF f.results = <<>> THEN PushExec(m, [k |-> "return", results |-> Nil, label |-> Nil]) ELSE m
       IN  Step(IF f.native # Nil THEN PushOp(PushOp(m, "OpReturn"), "OpCallNativeBody")
                ELSE RunBody(returns, BodyStmt(f.body), "OpBody"))

\* println writes its argument, here with the realm it is called in; recover
\* takes the exception.
Native(m, f) ==
    CASE f = "println" ->
           [m EXCEPT !.out = Append(@, <<"print", m.heap[LastBlock(m)].vars["xs"], m.realm>>)]
      [] f = "recover" -> [PushValue(m, m.exception) EXCEPT !.exception = Nil]

DoOpCallNativeBody ==
    /\ Op = "OpCallNativeBody"
    /\ Step(Native(Popped, program[Last(machine.frames).func.f].native))

DoOpCallDeferNativeBody ==
    /\ Op = "OpCallDeferNativeBody"
    /\ Step(Native(PopValues(Popped, 1), program[PeekValue(machine, 1).f].native))

\* The realm is finalized when the call returns to another one or was the first.
Finalized(m) ==
    IF m.realm # Nil /\ (Len(m.frames) = 1 \/ m.realm # Last(m.frames).lastRealm)
    THEN [m EXCEPT !.out = Append(@, <<"finalize", m.realm>>)] ELSE m

DoOpReturn ==
    /\ Op = "OpReturn"
    /\ Step(PopFrameAndReturn(Finalized(PopUntilLastCallFrame(Popped))))

\* The block of a call frame, and the values of the results in it.
FuncBlock(m, fr) == m.blocks[fr.numBlocks + 1]
ResultsIn(m, fr) == [i \in DOMAIN program[fr.func.f].results |->
                        m.heap[FuncBlock(m, fr)].vars[program[fr.func.f].results[i]]]

DoOpReturnFromBlock ==
    /\ Op = "OpReturnFromBlock"
    /\ LET m == PopUntilLastCallFrame(Popped)
       IN  Step(PopFrameAndReturn(Finalized([m EXCEPT !.values = @ \o ResultsIn(m, Last(m.frames))])))

DoOpReturnToBlock ==
    /\ Op = "OpReturnToBlock"
    /\ LET fr == machine.frames[LastCallFrame(machine)]
           results == program[fr.func.f].results
           n == Len(results)
           blocks == [i \in 1..n |-> FuncBlock(machine, fr)]
       IN  Step(Assigned(PopValues(Popped, n), blocks, results,
                         SubSeq(machine.values, Len(machine.values) - n + 1, Len(machine.values))))

-----------------------------------------------------------------------------
(* Defer, panic, recover.                                                  *)

DoOpDefer ==
    /\ Op = "OpDefer"
    /\ LET n == Len(PeekStmt(machine).call.args)
           args == SubSeq(machine.values, Len(machine.values) - n + 1, Len(machine.values))
           dfr == [func |-> PeekValue(machine, n + 1), args |-> args, parent |-> LastBlock(machine)]
       IN  Step([PopValues(PopStmt(Popped), n + 1) EXCEPT
                                !.frames[LastCallFrame(machine)].defers = Append(@, dfr)])

PopDefer(defers) == [dfr |-> Last(defers), rest |-> Front(defers)]

\* The last deferred call runs, in a block of its own and without a frame.  When
\* there is none left and the function panics, its frame goes.
DoOpReturnCallDefers ==
    /\ Op = "OpReturnCallDefers"
    /\ LET i == LastCallFrame(machine)
           defers == machine.frames[i].defers
           done == ForcePopOp(machine)
           p == PopDefer(defers)
           f == program[p.dfr.func.f]
           block == PushBlock([machine EXCEPT !.frames[i].defers = p.rest], p.dfr.parent, Nil)
           m == Assigned(block, [x \in DOMAIN f.params |-> LastBlock(block)], f.params, p.dfr.args)
       IN  Step(IF defers = <<>> THEN IF machine.exception = Nil THEN done ELSE [done EXCEPT !.frames = Front(@)]
                ELSE IF f.native = Nil THEN RunBody(m, BodyStmt(f.body), "OpBody")
                ELSE PushOp(PushValue(m, p.dfr.func), "OpCallDeferNativeBody"))

DoOpPanic1 ==
    /\ Op = "OpPanic1"
    /\ Step([PopUntilLastCallFrame(PopValues(Popped, 1)) EXCEPT
                !.exception = PeekValue(machine, 1), !.ops = @ \o <<"OpPanic2", "OpReturnCallDefers">>])

\* Recovered: return from the function.  Otherwise the caller panics.
DoOpPanic2 ==
    /\ Op = "OpPanic2"
    /\ IF machine.exception # Nil /\ LastCallFrame(machine) = 0
         THEN /\ status' = "panicked"
              /\ machine' = PopUntilLastCallFrame(Popped)
              /\ UNCHANGED <<program, want>>
         ELSE Step(IF machine.exception = Nil
                   THEN [Popped EXCEPT !.ops = @ \o <<"OpReturnFromBlock", "OpReturnCallDefers">>]
                   ELSE [PopUntilLastCallFrame(Popped) EXCEPT !.ops = @ \o <<"OpPanic2", "OpReturnCallDefers">>])

-----------------------------------------------------------------------------
(* RunMain: the functions are in the block of the package main.            *)

Init ==
    /\ program \in Programs
    /\ want = Want(program)
    /\ status = "running"
    /\ machine =
         [ops |-> <<"OpHalt", "OpExec">>, exprs |-> <<>>, values |-> <<>>, frames |-> <<>>, blocks |-> <<1>>,
          stmts |-> <<[k |-> "expr", label |-> Nil, x |-> [k |-> "call", func |-> [k |-> "name", n |-> "main"], args |-> <<>>]]>>,
          heap |-> <<[vars |-> [f \in DOMAIN program |-> [f |-> f, clo |-> 1]], up |-> 0, bs |-> Nil]>>,
          exception |-> Nil, numResults |-> 0, pkg |-> "main", realm |-> Nil, out |-> <<>>]

Next ==
    \/ Halt \/ DoOpExec \/ DoOpBody \/ DoOpForLoop \/ DoOpRangeIter
    \/ DoOpIfCond \/ DoOpSwitchClause \/ DoOpSwitchClauseCase
    \/ DoOpEval \/ DoOpBinary1 \/ DoOpBinary2 \/ DoOpAssign \/ DoOpIncDec \/ DoOpPop
    \/ DoOpPrecall \/ DoOpCall \/ DoOpCallNativeBody \/ DoOpCallDeferNativeBody
    \/ DoOpReturn \/ DoOpReturnFromBlock \/ DoOpReturnToBlock
    \/ DoOpReturnCallDefers \/ DoOpDefer \/ DoOpPanic1 \/ DoOpPanic2

\* Run is one loop that takes the next operation.
Spec == Init /\ [][Next]_vars /\ WF_vars(Next)

-----------------------------------------------------------------------------
(* Properties.                                                             *)

\* The stacks hold what they are for, and every block has a parent before it.
TypeOK ==
    /\ status \in {"running", "done", "panicked"}
    /\ \A i \in DOMAIN machine.stmts : IsBody(machine.stmts[i]) => machine.stmts[i].b \in DOMAIN machine.heap
    /\ \A b \in DOMAIN machine.heap : machine.heap[b].up \in 0..b - 1
    /\ \A i \in DOMAIN machine.blocks : machine.blocks[i] \in DOMAIN machine.heap
    /\ machine.realm \in Realms \cup {Nil}

\* A call never takes anything its callers left on the stacks: every stack is
\* at least as high as each active call found it, and the calls nest
\* (PushFrameCall, PopFrameAndReturn).
CallsNest ==
    LET calls == {i \in DOMAIN machine.frames : machine.frames[i].src = "call"}
        within(lo, hi) == /\ lo.numOps <= hi.numOps /\ lo.numValues <= hi.numValues
                          /\ lo.numExprs <= hi.numExprs /\ lo.numStmts <= hi.numStmts
                          /\ lo.numBlocks <= hi.numBlocks
        now == [numOps |-> Len(machine.ops), numValues |-> Len(machine.values), numExprs |-> Len(machine.exprs),
                numStmts |-> Len(machine.stmts), numBlocks |-> Len(machine.blocks)]
    IN  \A i \in calls : /\ within(machine.frames[i], now)
                         /\ \A j \in calls : i < j => within(machine.frames[i], machine.frames[j])

\* Whenever a body or a loop goes on, the statement on top is the body of the
\* last block: however a statement was left (break, continue, goto, return,
\* panic), the blocks and the statements were unwound together.
BodyOnTop ==
    Op \in {"OpBody", "OpForLoop"} =>
        Last(machine.stmts) = [k |-> "body", b |-> LastBlock(machine)]

\* CheckEmpty: a machine that has run a statement to its end has nothing left
\* on its stacks but the package's block.
EmptyWhenDone ==
    status = "done" =>
        /\ machine.ops = <<>> /\ machine.values = <<>> /\ machine.exprs = <<>> /\ machine.stmts = <<>>
        /\ machine.frames = <<>> /\ machine.blocks = <<1>> /\ machine.exception = Nil

\* The program prints what the same Go program prints, in that order and each
\* line in the realm of the function that prints it, finalizes the realms its
\* calls leave, and panics if and only if the Go program does.
RunsAsGo ==
    /\ IsPrefix(machine.out, want.out)
    /\ status # "running" => machine.out = want.out /\ (status = "panicked") = want.panics

\* The machine comes to the end of every program that ends in Go.
Halts == <>(status # "running")

\* However statements and calls are left, the stacks are unwound together and
\* to where the call found them, and in the end there is nothing on them.
StacksNest == TypeOK /\ CallsNest /\ BodyOnTop /\ EmptyWhenDone
=============================================================================
