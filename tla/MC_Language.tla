---------------------------- MODULE MC_Language ----------------------------
(* Small programs: every expression with up to two operators over three     *)
(* leaves, printed with vx = 5, and programs with branches, loops, loops in *)
(* loops, a division by zero half way, and assignments that are skipped.    *)
EXTENDS Language

\* The variables: one looks like a keyword, one has a digit in its name.
vx == <<"x">>
vy == <<"i", "f", "x">>
vs == <<"y", "2">>

Num(v) == [type |-> "NODE_NUM", value |-> v]
Id(n) == [type |-> "NODE_IDENT", name |-> n]
Bin(t, l, r) == [type |-> t, left |-> l, right |-> r]
Set(n, e) == [type |-> "NODE_ASSIGN", name |-> n, right |-> e]
Show(e) == [type |-> "NODE_PRINT", left |-> e]
If(e, b) == [type |-> "NODE_IF", left |-> e, body |-> b]
While(e, b) == [type |-> "NODE_WHILE", left |-> e, body |-> b]

Leaves == {Num(0), Num(258), Id(vx)}
Ops == {"NODE_ADD", "NODE_SUB", "NODE_MUL", "NODE_DIV", "NODE_EQEQ",
        "NODE_GT", "NODE_LT"}
One == {Bin(t, l, r) : t \in Ops, l \in Leaves, r \in Leaves}
Two == {Bin(t, l, r) : t \in Ops, l \in One, r \in {Num(258), Id(vx)}}
       \cup {Bin(t, l, r) : t \in Ops, l \in {Num(258), Id(vx)}, r \in One}

ExprPrograms == {<<Set(vx, Num(5)), Show(e)>> : e \in One \cup Two}

Down(n) == Set(n, Bin("NODE_SUB", Id(n), Num(1)))
Positive(n) == Bin("NODE_GT", Id(n), Num(0))

\* The bodies that are tried in a branch, in a loop and in both.
Bodies == {
    <<>>,
    <<Show(Id(vx))>>,
    <<Set(vy, Bin("NODE_ADD", Id(vx), Id(vx))), Show(Id(vy))>>,
    <<If(Bin("NODE_EQEQ", Id(vx), Num(1)), <<Show(Num(7))>>), Show(Id(vx))>>,
    <<Show(Bin("NODE_DIV", Num(6), Bin("NODE_SUB", Id(vx), Num(1))))>>,
    <<Set(vy, Num(2)), While(Positive(vy), <<Show(Id(vy)), Down(vy)>>)>>}

ControlPrograms ==
    {<<Set(vx, Num(v)), While(Positive(vx), b \o <<Down(vx)>>), Show(Id(vx))>> :
         v \in 0..3, b \in Bodies}
    \cup {<<Set(vx, Num(v)), If(Bin(t, Id(vx), Num(1)), b), Show(Id(vx))>> :
         v \in 0..2, t \in {"NODE_EQEQ", "NODE_LT", "NODE_GT"}, b \in Bodies}
    \cup {<<Set(vx, Num(3)), Set(vs, Num(0)),
            While(Id(vx), <<If(Id(vx), b), Set(vs, Bin("NODE_ADD", Id(vs), Id(vx))),
                           Down(vx)>>),
            Show(Id(vs))>> : b \in Bodies}

MC_Programs == ExprPrograms \cup ControlPrograms

\* A brace that closes nothing, a missing brace, an operator as a statement,
\* and a character of no token.  Texts like print (1 { are no programs either,
\* but the parser accepts them.
MC_Malformed == {
    <<"p", "r", "i", "n", "t", " ", "1", "}">>,
    <<"i", "f", " ", "1", "{", "p", "r", "i", "n", "t", "\n", "1">>,
    <<"+">>,
    <<"x", "=", "1", "!">>}
=============================================================================
