------------------------------- MODULE RqlMongo -------------------------------
(***************************************************************************)
(* Queries of the resource query language, parsed by parse of              *)
(* nmoscommon/rql/parser.py and translated for MongoDB by unparse of       *)
(* nmoscommon/rql/query/mongodb.py.                                        *)
(*                                                                         *)
(* A query is taken as the tokens that parse finds in it once FIQL, a=1,   *)
(* is rewritten as a call, eq(a,1).  A term is <<"term", name, args>>, a   *)
(* group without a conjunction <<"list", args>>, a word <<"val", word>>.   *)
(***************************************************************************)
EXTENDS FiniteSets, Integers, Sequences, SequencesExt, TLC

CONSTANTS
  Fields,       \* the fields of a document
  Numbers,      \* what their values may be
  Error         \* an exception

VARIABLES
  query,        \* the query as a tree, of which only the text is parsed
  style         \* how its conjunctions are written: a&b "infix", and(a,b) "call"
vars == <<query, style>>

Conjunctions == {"and", "or"}
Comparisons == {"eq", "ne", "lt", "lte", "gt", "gte"}
-------------------------------------------------------------------------------
(* The text of a query. *)
Token(delim, word, paren) == [delim |-> delim, word |-> word, paren |-> paren]
Close == Token("", "", ")")
Sign(name) == IF name = "and" THEN "&" ELSE "|"

RECURSIVE Text(_, _, _)
Text(q, delim, top) ==
  LET Each(between) ==
        FlattenSeq([i \in 1..Len(q.args) |->
                      Text(q.args[i], IF i = 1 THEN "" ELSE between, FALSE)])
  IN CASE q.name \in Comparisons ->
            <<Token(delim, q.name, "("), Token("", q.args[1], ""),
              Token(",", q.args[2], ""), Close>>
       [] q.name \in {"in", "out"} ->
            <<Token(delim, q.name, "("), Token("", q.args[1], ""), Token(",", "", "(")>>
              \o [i \in 1..Len(q.args[2]) |->
                    Token(IF i = 1 THEN "" ELSE ",", q.args[2][i], "")]
              \o <<Close, Close>>
       [] q.name \in Conjunctions /\ style = "infix" ->
            IF top THEN Each(Sign(q.name))
            ELSE <<Token(delim, "", "(")>> \o Each(Sign(q.name)) \o <<Close>>
       [] OTHER -> <<Token(delim, q.name, "(")>> \o Each(",") \o <<Close>>
-------------------------------------------------------------------------------
(* parse: the stack has the term being read last, under it those around it. *)
Empty(name) == [name |-> name, args |-> << >>]
AddArgument(term, arg) == [term EXCEPT !.args = Append(@, arg)]

SetConjunction(term, name) ==
  CASE term.name = ""     -> [term EXCEPT !.name = name]
    [] term.name = name   -> term
    [] OTHER              -> Error

Conjoined(term, delim) ==
  CASE delim = "&" -> SetConjunction(term, "and")
    [] delim = "|" -> SetConjunction(term, "or")
    [] OTHER       -> term

Closed(term) == IF term.name = "" THEN <<"list", term.args>>
                ELSE <<"term", term.name, term.args>>

ReadToken(stack, token) ==
  IF stack = Error THEN Error ELSE
  LET term == Conjoined(Last(stack), token.delim)
      outer == Front(stack)
  IN CASE term = Error     -> Error
       [] token.paren = "(" -> outer \o <<term, Empty(token.word)>>
       [] token.paren = ")" -> IF outer = << >> THEN Error
                               ELSE Front(outer) \o <<AddArgument(Last(outer), Closed(term))>>
       [] OTHER             -> outer \o <<AddArgument(term, <<"val", token.word>>)>>

parse(tokens) ==
  LET stack == FoldLeft(ReadToken, <<Empty("")>>, tokens) IN
    IF stack = Error \/ Len(stack) # 1 THEN Error
    ELSE <<"term", IF stack[1].name = "" THEN "and" ELSE stack[1].name, stack[1].args>>
-------------------------------------------------------------------------------
(* unparse: a dictionary is a function of its keys, of which a field has a *)
(* condition <<operator, value>> and $or and $and have <<"all", values>>.  *)
MergesAll(values) == TRUE                               \* mutant of the next
NoDuplicateKeys(values) ==
  Cardinality(UNION {DOMAIN values[i] : i \in DOMAIN values}) = Len(values)

handle_type_f(values) ==
  CASE NoDuplicateKeys(values) -> FoldLeft(LAMBDA all, d : d @@ all, << >>, values)
    [] ~NoDuplicateKeys(values) /\ Len(values) = 1 -> values[1]
    [] OTHER -> "$and" :> <<"all", values>>

Words(args) == {args[i][2] : i \in DOMAIN args}

RECURSIVE unparse(_)
unparse(term) ==
  LET name == term[2]
      args == term[3]
      values == [i \in DOMAIN args |-> unparse(args[i])]
      field == args[1][2]
  IN CASE name \in Comparisons -> field :> <<name, args[2][2]>>
       [] name \in {"in", "out"} -> field :> <<name, Words(args[2][2])>>
       [] name = "or" -> "$or" :> <<"all", values>>
       [] name = "not" -> [key \in DOMAIN values[1] |-> <<"not", values[1][key]>>]
       [] name = "and" -> handle_type_f(values)
-------------------------------------------------------------------------------
(* MongoDB: the documents that a dictionary selects. *)
Compares(op, x, v) ==
  CASE op = "eq" -> x = v  [] op = "ne" -> x # v
    [] op = "lt" -> x < v  [] op = "lte" -> x <= v
    [] op = "gt" -> x > v  [] op = "gte" -> x >= v
    [] op = "in" -> x \in v  [] op = "out" -> x \notin v

RECURSIVE Selects(_, _)
Selects(d, doc) ==
  \A key \in DOMAIN d :
    CASE key = "$and" -> \A i \in DOMAIN d[key][2] : Selects(d[key][2][i], doc)
      [] key = "$or" -> \E i \in DOMAIN d[key][2] : Selects(d[key][2][i], doc)
      [] key \in Fields /\ d[key][1] = "not" ->
           ~Compares(d[key][2][1], doc[key], d[key][2][2])
      [] OTHER -> Compares(d[key][1], doc[key], d[key][2])

(* What the query says of a document. *)
RECURSIVE Means(_, _)
Means(q, doc) ==
  CASE q.name = "and" -> \A i \in DOMAIN q.args : Means(q.args[i], doc)
    [] q.name = "or" -> \E i \in DOMAIN q.args : Means(q.args[i], doc)
    [] q.name = "not" -> ~Means(q.args[1], doc)
    [] q.name \in {"in", "out"} -> Compares(q.name, doc[q.args[1]], ToSet(q.args[2]))
    [] OTHER -> Compares(q.name, doc[q.args[1]], q.args[2])
-------------------------------------------------------------------------------
Node(name, args) == [name |-> name, args |-> args]
Comparison == {Node(op, <<f, v>>) : op \in Comparisons, f \in Fields, v \in Numbers}
Member == {Node(op, <<f, s>>) : op \in {"in", "out"}, f \in Fields,
             s \in UNION {[1..n -> Numbers] : n \in 1..2}}
Simple == {Node(op, <<f, v>>) : op \in {"eq", "lt"}, f \in Fields, v \in Numbers}
Negated == {Node("not", <<q>>) : q \in {c \in Comparison : c.name # "eq"}}
Of(name, first, second) == {Node(name, <<p, q>>) : p \in first, q \in second}

(* Left out is what the translation does not do, or not rightly: le and    *)
(* ge, the negation of anything but a comparison other than eq, a group of *)
(* one, and in an and, another of several conditions.                      *)
Init ==
  /\ style \in {"infix", "call"}
  /\ \/ query \in Comparison \cup Member \cup Negated
     \/ \E name \in Conjunctions :
          \/ query \in Of(name, Comparison \cup Negated, Simple \cup Negated)
          \/ query \in {Node(name, <<p, q, r>>) : p, q, r \in Simple}
     \/ query \in Of("and", Of("or", Simple, Simple), Simple)
     \/ query \in Of("or", Of("and", Simple, Simple), Simple)
     \/ query \in Of("or", Of("and", Simple, Simple), Of("and", Simple, Simple))
Next == FALSE /\ UNCHANGED vars
Spec == Init /\ [][Next]_vars
-------------------------------------------------------------------------------
(* The documents that MongoDB is asked for are those that the query means, *)
(* with several conditions on one field as with one on each of several.    *)
RqlMeans ==
  LET term == parse(Text(query, "", TRUE)) IN
    /\ term # Error
    /\ \A doc \in [Fields -> Numbers] : Selects(unparse(term), doc) <=> Means(query, doc)
===============================================================================
