------------------------------ MODULE Compiler ------------------------------
(***************************************************************************)
(* The compiler of src/bytecode-vm/compiler.c: the lexer, the recursive-    *)
(* descent parser, the generator that walks the tree, and main, which hands *)
(* the bytecode to the machine of Vm.                                       *)
(*                                                                         *)
(* The text is a sequence of one-character strings, and so is a name.  A    *)
(* parsing function returns the node it made and the index behind what it   *)
(* consumed.  The sequence of tokens ends in TOK_EOF.  Where the code falls *)
(* off a function or reads a node that it did not fill in, the definitions  *)
(* here have no value: such programs are not among the inputs.              *)
(***************************************************************************)
EXTENDS Vm, SequencesExt

VARIABLE source   \* the program: its text, and the tree that it spells

vars == <<code, ip, stack, globals, cstack, status, out, source>>

-----------------------------------------------------------------------------
(* The lexer.                                                              *)

Digits == <<"0", "1", "2", "3", "4", "5", "6", "7", "8", "9">>

\* The characters for which the predicates of these names hold.
isdigit == ToSet(Digits)
isalpha == {"a", "b", "e", "f", "h", "i", "l", "n", "p", "r", "t", "w", "x", "y"}
isalnum == isalpha \cup isdigit
isspace == {" ", "\n"}

Keywords == {[name |-> <<"p", "r", "i", "n", "t">>, type |-> "TOK_PRINT"],
             [name |-> <<"w", "h", "i", "l", "e">>, type |-> "TOK_WHILE"],
             [name |-> <<"i", "f">>, type |-> "TOK_IF"]}

Symbols == ("+" :> "TOK_PLUS") @@ ("-" :> "TOK_MINUS") @@ ("*" :> "TOK_STAR")
        @@ ("/" :> "TOK_SLASH") @@ ("=" :> "TOK_EQ") @@ (">" :> "TOK_GT")
        @@ ("<" :> "TOK_LT") @@ ("(" :> "TOK_LPAREN") @@ (")" :> "TOK_RPAREN")
        @@ ("{" :> "TOK_LBRACE") @@ ("}" :> "TOK_RBRACE")

\* The index behind the characters from i on that are in chars.
Behind(text, i, chars) ==
    CHOOSE j \in i..(Len(text) + 1) :
        /\ \A k \in i..(j - 1) : text[k] \in chars
        /\ j <= Len(text) => text[j] \notin chars

word_token(word) ==
    IF \E k \in Keywords : k.name = word
    THEN [type |-> (CHOOSE k \in Keywords : k.name = word).type]
    ELSE [type |-> "TOK_IDENT", name |-> word]

atoi(digits) ==
    FoldLeft(LAMBDA v, c : 10 * v + SelectInSeq(Digits, LAMBDA d : d = c) - 1, 0, digits)

\* The second character is not looked at.
BadIsEqEq(text, i) == text[i] = "="

IsEqEq(text, i) == text[i] = "=" /\ i < Len(text) /\ text[i + 1] = "="

RECURSIVE lexer_from(_, _, _)

\* The tokens, after those before index i; exit(1) at any other character.
lexer_from(text, i, tokens) ==
    CASE i > Len(text) -> [ok |-> TRUE, tokens |-> Append(tokens, [type |-> "TOK_EOF"])]
      [] i <= Len(text) /\ text[i] \in isalpha ->
            LET j == Behind(text, i, isalnum)
            IN  lexer_from(text, j, Append(tokens, word_token(SubSeq(text, i, j - 1))))
      [] i <= Len(text) /\ text[i] \in isdigit ->
            LET j == Behind(text, i, isdigit)
            IN  lexer_from(text, j, Append(tokens, [type |-> "TOK_NUM",
                                                    value |-> atoi(SubSeq(text, i, j - 1))]))
      [] i <= Len(text) /\ text[i] \in isspace -> lexer_from(text, i + 1, tokens)
      [] i <= Len(text) /\ text[i] \in DOMAIN Symbols ->
            IF IsEqEq(text, i)
            THEN lexer_from(text, i + 2, Append(tokens, [type |-> "TOK_EQEQ"]))
            ELSE lexer_from(text, i + 1, Append(tokens, [type |-> Symbols[text[i]]]))
      [] OTHER -> [ok |-> FALSE, tokens |-> tokens]

lexer(text) == lexer_from(text, 1, <<>>)

-----------------------------------------------------------------------------
(* The parser.                                                             *)

NodeOf == [TOK_PLUS |-> "NODE_ADD", TOK_MINUS |-> "NODE_SUB",
           TOK_STAR |-> "NODE_MUL", TOK_SLASH |-> "NODE_DIV",
           TOK_EQEQ |-> "NODE_EQEQ", TOK_GT |-> "NODE_GT",
           TOK_LT |-> "NODE_LT"]

Leaf(token) ==
    IF token.type = "TOK_NUM" THEN [type |-> "NODE_NUM", value |-> token.value]
    ELSE [type |-> "NODE_IDENT", name |-> token.name]

\* The node for  left op right,  where r is what was parsed behind the operator.
Join(left, token, r) ==
    [node |-> [type |-> NodeOf[token.type], left |-> left, right |-> r.node],
     i |-> r.i]

RECURSIVE parse_comparison(_, _), comparison_rest(_, _)
RECURSIVE parse_expression(_, _), expression_rest(_, _)
RECURSIVE parse_term(_, _), term_rest(_, _)
RECURSIVE parse_factor(_, _)

\* The closing parenthesis is skipped without a look.
parse_factor(ts, i) ==
    CASE ts[i].type \in {"TOK_IDENT", "TOK_NUM"} ->
            [node |-> Leaf(ts[i]), i |-> i + 1]
      [] ts[i].type = "TOK_LPAREN" ->
            LET r == parse_comparison(ts, i + 1)
            IN  [node |-> r.node, i |-> r.i + 1]

\* The operand behind * or / is a whole expression.
term_rest(ts, l) ==
    IF ts[l.i].type \notin {"TOK_SLASH", "TOK_STAR"} THEN l
    ELSE term_rest(ts, Join(l.node, ts[l.i], parse_expression(ts, l.i + 1)))

parse_term(ts, i) == term_rest(ts, parse_factor(ts, i))

expression_rest(ts, l) ==
    IF ts[l.i].type \notin {"TOK_PLUS", "TOK_MINUS"} THEN l
    ELSE expression_rest(ts, Join(l.node, ts[l.i], parse_term(ts, l.i + 1)))

parse_expression(ts, i) == expression_rest(ts, parse_term(ts, i))

comparison_rest(ts, l) ==
    IF ts[l.i].type \notin {"TOK_EQEQ", "TOK_GT", "TOK_LT"} THEN l
    ELSE comparison_rest(ts,
             Join(l.node, ts[l.i], parse_expression(ts, l.i + 1)))

parse_comparison(ts, i) == comparison_rest(ts, parse_expression(ts, i))

\* What is returned once exit(1) was called.
Exit(i) == [node |-> [type |-> "exit"], i |-> i]

RECURSIVE parse_statement(_, _), parse_body(_, _, _)

\* The statements up to the closing brace, after those in body.
parse_body(ts, i, body) ==
    IF ts[i].type = "TOK_RBRACE" THEN [body |-> body, i |-> i + 1, ok |-> TRUE]
    ELSE LET s == parse_statement(ts, i)
         IN  IF s.node.type = "exit" THEN [body |-> body, i |-> s.i, ok |-> FALSE]
             ELSE parse_body(ts, s.i, Append(body, s.node))

\* A condition, a token taken for the opening brace, and a body.
parse_block(ts, i, type) ==
    LET c == parse_comparison(ts, i + 1)
        b == parse_body(ts, c.i + 1, <<>>)
    IN  IF b.ok THEN [node |-> [type |-> type, left |-> c.node, body |-> b.body],
                      i |-> b.i]
        ELSE Exit(b.i)

parse_statement(ts, i) ==
    CASE ts[i].type = "TOK_IDENT" /\ ts[i + 1].type = "TOK_EQ" ->
            LET r == parse_comparison(ts, i + 2)
            IN  [node |-> [type |-> "NODE_ASSIGN", name |-> ts[i].name,
                           right |-> r.node],
                 i |-> r.i]
      [] ts[i].type = "TOK_PRINT" ->
            LET r == parse_comparison(ts, i + 1)
            IN  [node |-> [type |-> "NODE_PRINT", left |-> r.node], i |-> r.i]
      [] ts[i].type = "TOK_IF" -> parse_block(ts, i, "NODE_IF")
      [] ts[i].type = "TOK_WHILE" -> parse_block(ts, i, "NODE_WHILE")
      [] ts[i].type \notin {"TOK_IDENT", "TOK_PRINT", "TOK_IF", "TOK_WHILE"} ->
            Exit(i)

RECURSIVE parser_rest(_, _, _)

parser_rest(ts, i, statements) ==
    IF ts[i].type = "TOK_EOF" THEN [ok |-> TRUE, statements |-> statements]
    ELSE LET s == parse_statement(ts, i)
         IN  IF s.node.type = "exit" THEN [ok |-> FALSE, statements |-> <<>>]
             ELSE parser_rest(ts, s.i, Append(statements, s.node))

parser(ts) == parser_rest(ts, 1, <<>>)

-----------------------------------------------------------------------------
(* The generator.  Its state g has the bytes so far and var_names.  An int  *)
(* stored in the array loses all but its low eight bits.                    *)

OpOf == [NODE_ADD |-> OP_ADD, NODE_SUB |-> OP_SUB, NODE_MUL |-> OP_MUL,
         NODE_DIV |-> OP_DIV, NODE_EQEQ |-> OP_EQ, NODE_GT |-> OP_GT,
         NODE_LT |-> OP_LT]

uint8(v) == v % 256

Emit(g, bytes) == [g EXCEPT !.bytes = @ \o bytes]

\* The index of a name in var_names plus one, or 0.
Lookup(g, name) == SelectInSeq(g.var_names, LAMBDA v : v = name)

\* The jump goes back to the instruction before it, a whole condition if this is
\* a variable.
BadPatchPlace(g, placeholder) ==
    [g EXCEPT !.bytes = [@ EXCEPT ![placeholder] = uint8(placeholder - 4)]]

\* The last byte of g before the body is the placeholder for the target.
Patch(g, placeholder) ==
    [g EXCEPT !.bytes = [@ EXCEPT ![placeholder] = uint8(Len(g.bytes))]]

RECURSIVE walk(_, _)

walk_body(body, g) == FoldLeft(LAMBDA h, n : walk(n, h), g, body)

walk(n, g) ==
    CASE n.type = "NODE_NUM" -> Emit(g, <<OP_PUSH, uint8(n.value)>>)
      [] n.type = "NODE_IDENT" ->
            IF Lookup(g, n.name) = 0 THEN Emit(g, <<OP_LOAD>>)
            ELSE Emit(g, <<OP_LOAD, uint8(Lookup(g, n.name) - 1)>>)
      [] n.type \in DOMAIN OpOf ->
            Emit(walk(n.right, walk(n.left, g)), <<OpOf[n.type]>>)
      [] n.type = "NODE_ASSIGN" ->
            LET h == walk(n.right, g)
            IN  IF Lookup(h, n.name) = 0
                THEN [Emit(h, <<OP_STORE, uint8(Len(h.var_names))>>)
                        EXCEPT !.var_names = Append(@, n.name)]
                ELSE Emit(h, <<OP_STORE, uint8(Lookup(h, n.name) - 1)>>)
      [] n.type = "NODE_PRINT" -> Emit(walk(n.left, g), <<OP_PRINT>>)
      [] n.type = "NODE_IF" ->
            LET h == Emit(walk(n.left, g), <<OP_JMP_IF_FALSE, 0>>)
            IN  Patch(walk_body(n.body, h), Len(h.bytes))
      [] n.type = "NODE_WHILE" ->
            LET h == Emit(walk(n.left, g), <<OP_JMP_IF_FALSE, 0>>)
            IN  Patch(Emit(walk_body(n.body, h),
                           <<OP_JMP, uint8(Len(g.bytes))>>),
                      Len(h.bytes))

\* The rest of the array is whatever malloc returned; 0 is not an opcode.
generate_byte(statements) ==
    LET g == walk_body(statements, [bytes |-> <<>>, var_names |-> <<>>])
        bytes == Append(g.bytes, OP_HALT)
    IN  [k \in 0..(CODE_SIZE - 1) |-> IF k < Len(bytes) THEN bytes[k + 1] ELSE 0]

-----------------------------------------------------------------------------
\* exit(1) in the lexer, or in the parser.
Rejected(text) ==
    LET l == lexer(text) IN ~(l.ok /\ parser(l.tokens).ok)

main_exit ==
    /\ status = "new"
    /\ Rejected(source.text)
    /\ status' = "exit"
    /\ UNCHANGED <<code, ip, stack, globals, cstack, out>>

main_compile ==
    /\ status = "new"
    /\ ~Rejected(source.text)
    /\ vm_init(generate_byte(parser(lexer(source.text).tokens).statements))

main ==
    /\ main_exit \/ main_compile \/ vm_run
    /\ UNCHANGED source

=============================================================================
