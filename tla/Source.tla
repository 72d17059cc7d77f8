------------------------------- MODULE Source -------------------------------
(***************************************************************************)
(* What a program means: the reference the compiled program is compared    *)
(* with.  The language is Rust's as far as feGrammar.y goes, over          *)
(* integers, booleans (1 and 0), floats (integers as well) and arrays,     *)
(* which are sequences: operands from left to right, && and || without     *)
(* their right operand where the left one decides, the bounds of a `for`   *)
(* computed once, an assignment a copy, a division by zero the end of the  *)
(* run.                                                                    *)
(*                                                                         *)
(* A world w is what has been printed, how the run stands, and the calls   *)
(* and loop turns still allowed.                                           *)
(***************************************************************************)
EXTENDS Integers, Sequences, TLC

Magnitude(n) == IF n < 0 THEN -n ELSE n
Divide(y, z) == LET q == Magnitude(y) \div Magnitude(z)
                IN  IF (y < 0) = (z < 0) THEN q ELSE -q

Truth(b) == IF b THEN 1 ELSE 0
Apply(sign, y, z) ==
    CASE sign = "+" -> y + z
      [] sign = "-" -> y - z
      [] sign = "*" -> y * z
      [] sign = "/" -> Divide(y, z)
      [] sign = "%" -> y - z * Divide(y, z)
      [] sign = "<" -> Truth(y < z)
      [] sign = "<=" -> Truth(y <= z)
      [] sign = ">" -> Truth(y > z)
      [] sign = ">=" -> Truth(y >= z)
      [] sign = "==" -> Truth(y = z)
      [] sign = "!=" -> Truth(y # z)

(* The outcome of an expression, and of a statement: leaving is whether a  *)
(* return was executed, value what it returns.                             *)
Outcome(v, w) == [value |-> v, w |-> w]
Effect(env, w, leaving, v) == [env |-> env, w |-> w, leaving |-> leaving, value |-> v]

Spent(w) == IF w.fuel = 0 THEN [w EXCEPT !.status = "endless"]
                          ELSE [w EXCEPT !.fuel = @ - 1]
Live(w) == w.status = "running"

(* A binary operator applied to the outcomes of its operands.              *)
Operation(sign, l, r) ==
    IF ~ Live(r.w) THEN Outcome(0, r.w)
    ELSE IF sign \in {"/", "%"} /\ r.value = 0 THEN Outcome(0, [r.w EXCEPT !.status = "trap"])
    ELSE Outcome(Apply(sign, l.value, r.value), r.w)

(* The environment of the globals alone, and with parameters in front.     *)
GlobalValue(g) == IF "values" \in DOMAIN g THEN g.values ELSE g.value
GlobalEnv(P) ==
    [x \in {P.globals[g].name : g \in DOMAIN P.globals} |->
        GlobalValue(CHOOSE g \in {P.globals[k] : k \in DOMAIN P.globals} : g.name = x)]
Bound(params, values, P) ==
    [x \in {params[n] : n \in DOMAIN params} |->
        values[CHOOSE n \in DOMAIN params : params[n] = x]] @@ GlobalEnv(P)

Printed(w, values) == [w EXCEPT !.out = Append(@, <<values[1], values[2]>>)]

(* Which element an index that is a literal or a variable names.           *)
At(e, env) == 1 + IF e.index.op = "IDENT" THEN env[e.index.name] ELSE e.index.value

Updated(sign, old, v) == IF sign = "=" THEN v ELSE Apply(sign, old, v)
AssignTo(target, sign, v, env) ==
    IF target.op = "IDENT" THEN [env EXCEPT ![target.name] = Updated(sign, @, v)]
    ELSE [env EXCEPT ![target.name][At(target, env)] = Updated(sign, @, v)]

RECURSIVE Eval(_, _, _, _), EvalAll(_, _, _, _), Exec(_, _, _, _), ExecAll(_, _, _, _),
          Count(_, _, _, _, _, _), Invoke(_, _, _, _)

EvalAll(es, env, w, P) ==
    IF es = <<>> THEN [values |-> <<>>, w |-> w]
    ELSE LET then(first) == [EvalAll(Tail(es), env, first.w, P)
                               EXCEPT !.values = <<first.value>> \o @]
         IN  then(Eval(Head(es), env, w, P))

Eval(e, env, w, P) ==
    LET behind(l) == Operation(e.sign, l, Eval(e.right, env, l.w, P))
        unless(v, l) == IF Live(l.w) /\ l.value # v THEN Eval(e.right, env, l.w, P) ELSE l
        negated(r) == Outcome(1 - r.value, r.w)
        items(all) == Outcome(all.values, all.w)
        called(args) ==
            IF ~ Live(args.w) THEN Outcome(0, args.w)
            ELSE IF e.name = "println" THEN Outcome(0, Printed(args.w, args.values))
            ELSE Invoke(e.name, args.values, Spent(args.w), P)
    IN  CASE ~ Live(w) -> Outcome(0, w)
          [] Live(w) /\ e.op \in {"LIT_INTEGER", "LIT_BOOL", "LIT_STR", "LIT_FLOAT"} -> Outcome(e.value, w)
          [] Live(w) /\ e.op = "IDENT" -> Outcome(env[e.name], w)
          [] Live(w) /\ e.op = "array" -> items(EvalAll(e.items, env, w, P))
          [] Live(w) /\ e.op = "array_index" -> Outcome(env[e.name][At(e, env)], w)
          [] Live(w) /\ e.op \in {"arith", "beq"} -> behind(Eval(e.left, env, w, P))
          [] Live(w) /\ e.op = "bor" -> unless(1, Eval(e.left, env, w, P))
          [] Live(w) /\ e.op = "ban" -> unless(0, Eval(e.left, env, w, P))
          [] Live(w) /\ e.op = "bno" -> negated(Eval(e.right, env, w, P))
          [] Live(w) /\ e.op = "fac" -> Eval(e.right, env, w, P)
          [] Live(w) /\ e.op = "func" -> called(EvalAll(e.args, env, w, P))

Invoke(f, values, w, P) ==
    LET left(done) == Outcome(done.value, done.w)
    IN  left(ExecAll(P.functions[f].body, Bound(P.functions[f].params, values, P), w, P))

Proceeds(effect) == Live(effect.w) /\ ~ effect.leaving

ExecAll(ss, env, w, P) ==
    LET then(s) == IF Proceeds(s) THEN ExecAll(Tail(ss), s.env, s.w, P) ELSE s
    IN  IF ss = <<>> THEN Effect(env, w, FALSE, 0) ELSE then(Exec(Head(ss), env, w, P))

(* The turns of a `for` from n to limit.                                   *)
Count(s, n, limit, env, w, P) ==
    LET then(turn) == IF Proceeds(turn) THEN Count(s, n + 1, limit, turn.env, turn.w, P)
                      ELSE turn
    IN  IF n > limit \/ ~ Live(w) THEN Effect(env, w, FALSE, 0)
        ELSE then(ExecAll(s.body, (s.name :> n) @@ env, Spent(w), P))

Exec(s, env, w, P) ==
    LET nothing(v) == Effect(env, v.w, FALSE, 0)
        let(v) == Effect((s.name :> v.value) @@ env, v.w, FALSE, 0)
        update(v) ==
            Effect(IF Live(v.w) THEN AssignTo(s.target, s.sign, v.value, env) ELSE env,
                   v.w, FALSE, 0)
        return(v) == Effect(env, v.w, TRUE, v.value)
        else(v) == IF s.op = "single_if" THEN nothing(v)
                   ELSE IF s.else.op = "else" THEN ExecAll(s.else.body, env, v.w, P)
                   ELSE Exec(s.else, env, v.w, P)
        if(v) == IF ~ Live(v.w) THEN nothing(v)
                 ELSE IF v.value = 1 THEN ExecAll(s.body, env, v.w, P) ELSE else(v)
        again(turn) == IF Proceeds(turn) THEN Exec(s, turn.env, turn.w, P) ELSE turn
        while(v) == IF ~ Live(v.w) \/ v.value = 0 THEN nothing(v)
                    ELSE again(ExecAll(s.body, env, Spent(v.w), P))
        count(low, high) ==
            Count(s, low.value, IF s.inclusive THEN high.value ELSE high.value - 1,
                  env, high.w, P)
        from(low) == count(low, Eval(s.high, env, low.w, P))
    IN  CASE s.op = "assign_stm" /\ "value" \notin DOMAIN s ->
               let(Outcome("unassigned", w))
          [] s.op = "assign_stm" /\ "value" \in DOMAIN s -> let(Eval(s.value, env, w, P))
          [] s.op = "update_stm" -> update(Eval(s.value, env, w, P))
          [] s.op = "bor" -> nothing(Eval(s.value, env, w, P))
          [] s.op = ";" -> Effect(env, w, FALSE, 0)
          [] s.op = "ret_stmt" -> return(Eval(s.value, env, w, P))
          [] s.op \in {"single_if", "if_type_stm"} -> if(Eval(s.cond, env, w, P))
          [] s.op = "while_stm" -> while(Eval(s.cond, env, w, P))
          [] s.op = "for_stm" -> from(Eval(s.low, env, w, P))

(* The run of a program: what it prints, and how it ends.                  *)
Run(P, fuel) ==
    LET result(o) == [out |-> o.w.out, status |-> IF Live(o.w) THEN "done" ELSE o.w.status]
    IN  result(Invoke("main", <<>>, [out |-> <<>>, status |-> "running", fuel |-> fuel], P))
=============================================================================
