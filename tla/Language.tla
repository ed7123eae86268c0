------------------------------ MODULE Language ------------------------------
(***************************************************************************)
(* The language that src/bytecode-vm/compiler.c compiles, and what it means *)
(* for the compiler to be right.                                            *)
(*                                                                         *)
(* A program is a tree.  Written down by the grammar in the head comment of *)
(* compiler.c, in which * and / bind more tightly than + and -, and these   *)
(* more tightly than the comparisons, it is a sequence of tokens.  Its      *)
(* meaning is what it prints, evaluated on the tree.  The specification     *)
(* compiles the tokens and runs the bytecode.                               *)
(***************************************************************************)
EXTENDS Compiler

CONSTANTS
    Programs,        \* trees: sequences of statements
    Malformed,       \* texts that the lexer or the parser refuses; the parser
                     \* accepts more than programs, since it skips what stands
                     \* in the place of a brace or of ) without a look at it
    ParenProducts,   \* whether products inside of expressions get parentheses
    MaxTurns         \* bound on the turns of a loop

-----------------------------------------------------------------------------
(* Writing a tree down.                                                    *)

Tok(type) == [type |-> type]

TokenOf == [NODE_ADD |-> "TOK_PLUS", NODE_SUB |-> "TOK_MINUS",
            NODE_MUL |-> "TOK_STAR", NODE_DIV |-> "TOK_SLASH",
            NODE_EQEQ |-> "TOK_EQEQ", NODE_GT |-> "TOK_GT", NODE_LT |-> "TOK_LT"]

\* How tightly the operator of a node binds.
Level(e) == CASE e.type \in {"NODE_EQEQ", "NODE_GT", "NODE_LT"} -> 1
              [] e.type \in {"NODE_ADD", "NODE_SUB"} -> 2
              [] e.type \in {"NODE_MUL", "NODE_DIV"} -> 3

RECURSIVE ExprTokens(_, _)

\* The tokens of e where an operator of at least the given level is expected.
ExprTokens(e, level) ==
    CASE e.type = "NODE_NUM" -> <<[type |-> "TOK_NUM", value |-> e.value]>>
      [] e.type = "NODE_IDENT" -> <<[type |-> "TOK_IDENT", name |-> e.name]>>
      [] OTHER ->
            LET bare == ExprTokens(e.left, Level(e)) \o <<Tok(TokenOf[e.type])>>
                            \o ExprTokens(e.right, Level(e) + 1)
            IN  IF \/ Level(e) < level
                   \/ ParenProducts /\ Level(e) = 3 /\ level > 1
                THEN <<Tok("TOK_LPAREN")>> \o bare \o <<Tok("TOK_RPAREN")>>
                ELSE bare

RECURSIVE BodyTokens(_)

StatementTokens(s) ==
    CASE s.type = "NODE_ASSIGN" ->
            <<[type |-> "TOK_IDENT", name |-> s.name], Tok("TOK_EQ")>>
                \o ExprTokens(s.right, 1)
      [] s.type = "NODE_PRINT" -> <<Tok("TOK_PRINT")>> \o ExprTokens(s.left, 1)
      [] OTHER ->
            <<Tok(IF s.type = "NODE_IF" THEN "TOK_IF" ELSE "TOK_WHILE")>>
                \o ExprTokens(s.left, 1) \o <<Tok("TOK_LBRACE")>>
                \o BodyTokens(s.body) \o <<Tok("TOK_RBRACE")>>

BodyTokens(body) ==
    IF body = <<>> THEN <<>>
    ELSE StatementTokens(Head(body)) \o BodyTokens(Tail(body))

ProgramTokens(p) == BodyTokens(p) \o <<Tok("TOK_EOF")>>

(* Writing tokens down, with a blank behind every one, or only where two of *)
(* them would run together.                                                 *)

RECURSIVE Numeral(_)

Numeral(v) ==
    IF v < 10 THEN <<Digits[v + 1]>>
    ELSE Append(Numeral(v \div 10), Digits[(v % 10) + 1])

Spelling(token) ==
    CASE token.type = "TOK_NUM" -> Numeral(token.value)
      [] token.type = "TOK_IDENT" -> token.name
      [] token.type = "TOK_EQEQ" -> <<"=", "=">>
      [] token.type = "TOK_EOF" -> <<>>
      [] token.type \in {k.type : k \in Keywords} ->
            (CHOOSE k \in Keywords : k.type = token.type).name
      [] OTHER -> <<CHOOSE c \in DOMAIN Symbols : Symbols[c] = token.type>>

RunTogether(a, b) ==
    /\ a # <<>> /\ b # <<>>
    /\ \/ Last(a) \in isalnum /\ Head(b) \in isalnum
       \/ Last(a) = "=" /\ Head(b) = "="

\* The text of the tokens; blanks are what goes between two that need none.
Text(ts, blanks) ==
    FoldLeft(LAMBDA text, token :
                 LET s == Spelling(token)
                 IN  text \o (IF RunTogether(text, s) THEN <<"\n">> ELSE blanks) \o s,
             <<>>, ts)

-----------------------------------------------------------------------------
(* The meaning of a tree.  A number is the byte that OP_PUSH takes; ints    *)
(* wrap around; a variable is 0 before it is assigned.                      *)

Apply(type, a, b) ==
    CASE type = "NODE_ADD" -> Wrap(a + b)
      [] type = "NODE_SUB" -> Wrap(a - b)
      [] type = "NODE_MUL" -> Wrap(a * b)
      [] type = "NODE_DIV" -> Quotient(a, b)
      [] type = "NODE_EQEQ" -> IF a = b THEN 1 ELSE 0
      [] type = "NODE_GT" -> IF a > b THEN 1 ELSE 0
      [] type = "NODE_LT" -> IF a < b THEN 1 ELSE 0

RECURSIVE Value(_, _)

Value(e, env) ==
    CASE e.type = "NODE_NUM" -> [ok |-> TRUE, v |-> e.value % 256]
      [] e.type = "NODE_IDENT" ->
            [ok |-> TRUE,
             v |-> IF e.name \in DOMAIN env THEN env[e.name] ELSE 0]
      [] OTHER ->
            LET l == Value(e.left, env)
                r == Value(e.right, env)
            IN  IF ~l.ok \/ ~r.ok \/ (e.type = "NODE_DIV" /\ DivFault(l.v, r.v))
                THEN [ok |-> FALSE, v |-> 0]
                ELSE [ok |-> TRUE, v |-> Apply(e.type, l.v, r.v)]

RECURSIVE Execute(_, _), Loop(_, _, _)

\* The state s: the variables, what was printed, and whether there was no error.
ExecuteBody(body, s) == FoldLeft(LAMBDA r, n : Execute(n, r), s, body)

Execute(n, s) ==
    IF ~s.ok THEN s
    ELSE IF n.type = "NODE_WHILE" THEN Loop(n, s, MaxTurns)
    ELSE LET val == Value(IF n.type = "NODE_ASSIGN" THEN n.right ELSE n.left, s.env)
         IN  CASE ~val.ok -> [s EXCEPT !.ok = FALSE]
               [] val.ok /\ n.type = "NODE_ASSIGN" ->
                    [s EXCEPT !.env = (n.name :> val.v) @@ @]
               [] val.ok /\ n.type = "NODE_PRINT" ->
                    [s EXCEPT !.out = Append(@, val.v)]
               [] val.ok /\ n.type = "NODE_IF" ->
                    IF val.v # 0 THEN ExecuteBody(n.body, s) ELSE s

Loop(n, s, turns) ==
    LET val == Value(n.left, s.env)
    IN  CASE ~s.ok -> s
          [] s.ok /\ ~val.ok -> [s EXCEPT !.ok = FALSE]
          [] s.ok /\ val.ok /\ val.v = 0 -> s
          [] s.ok /\ val.ok /\ val.v # 0 /\ turns > 0 ->
                Loop(n, ExecuteBody(n.body, s), turns - 1)

Meaning(p) == ExecuteBody(p, [env |-> <<>>, out |-> <<>>, ok |-> TRUE])

-----------------------------------------------------------------------------
LanguageInit ==
    /\ Init
    /\ source \in {[text |-> Text(ProgramTokens(p), blanks), tree |-> p,
                    wellformed |-> TRUE] : p \in Programs, blanks \in {<<>>, <<" ">>}}
                  \cup {[text |-> text, tree |-> <<>>, wellformed |-> FALSE] :
                       text \in Malformed}

\* The loop of vm_run goes on as long as vm->running.
LanguageSpec ==
    LanguageInit /\ [][main]_vars /\ WF_vars(vm_run /\ UNCHANGED source)

-----------------------------------------------------------------------------
(* Properties                                                              *)

Ended == status \notin {"new", "running"}

\* The compiler and the machine together print what the program means, and end
\* with an error exactly where it divides by zero.  Of the other texts this
\* speaks of the ones in Malformed, which are rejected before they print
\* anything.
OutputCorrect ==
    Ended => LET m == Meaning(source.tree)
             IN  IF source.wellformed
                 THEN out = m.out /\ status = IF m.ok THEN "halted" ELSE "exit"
                 ELSE out = <<>> /\ status = "exit"

\* The lexer reads the tokens that were written, also where only = and == , or
\* a word and a number, tell where one ends.
TokensRead ==
    source.wellformed => lexer(source.text).tokens = ProgramTokens(source.tree)

\* A statement uses up what its expression pushed: the stack is empty after
\* each store, print and conditional jump, so that no loop can fill it.
StatementsBalanced ==
    [][status = "running" /\ code[ip] \in {OP_STORE, OP_PRINT, OP_JMP_IF_FALSE}
         => stack' = <<>>]_vars

\* The bytecode of a program whose loops end comes to an end.
Finishes == status = "running" ~> Ended

\* The grammar in the head comment: the tree that the parser makes of a
\* program's tokens is the program.
GrammarFollowed ==
    source.wellformed => parser(lexer(source.text).tokens).statements = source.tree

=============================================================================
