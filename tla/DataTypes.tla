------------------------------ MODULE DataTypes ------------------------------
(***************************************************************************)
(* The parser of type names, odps/datatype/data_type_parser.go, and the    *)
(* names it is given.  A type is a tuple: its code and its parameters; a   *)
(* name is the sequence of its words, numbers and marks (the case of a     *)
(* word and blanks beside a mark make no difference to the parser).        *)
(***************************************************************************)
EXTENDS Integers, Sequences

Word(w) == <<"word", w>>
Num(n)  == <<"num", n>>
Mark(m) == <<"mark", m>>
IsMark(t) == t[1] = "mark"

Primitive == {"BIGINT", "DOUBLE", "BOOLEAN", "DATETIME", "STRING", "VOID", "TINYINT", "SMALLINT",
              "INT", "FLOAT", "DATE", "TIMESTAMP", "TIMESTAMP_NTZ", "BINARY", "JSON", "GEOGRAPHY",
              "INTERVAL_DAY_TIME", "INTERVAL_YEAR_MONTH"}

\* A word ends with the mark after it: once there is a mark, what follows the last one
\* is not made a token.  A name without marks is one word.
Tokenize(name) ==
  LET marks == {n \in 1 .. Len(name) : IsMark(name[n])}
  IN  IF marks = {} THEN name
      ELSE SubSeq(name, 1, CHOOSE n \in marks : \A m \in marks : m <= n)

-----------------------------------------------------------------------------
(* Every parse function returns an outcome: a type (or nothing, for a       *)
(* token) and the index after it, an error, or the panic of consumeToken    *)
(* behind the last token.                                                   *)

Got(type, next) == [what |-> "type", type |-> type, next |-> next]
Failed == [what |-> "error"]
Panics == [what |-> "panic"]

\* The next function, unless this one has failed.
Then(o, F(_)) == IF o.what = "type" THEN F(o) ELSE o

ConsumeToken(toks, n) == IF n > Len(toks) THEN Panics ELSE Got(toks[n], n + 1)
PeekIs(toks, n, m) == n <= Len(toks) /\ toks[n] = Mark(m)

Expect(toks, n, m) ==
  Then(ConsumeToken(toks, n), LAMBDA t : IF t.type = Mark(m) THEN t ELSE Failed)

\* strconv.Atoi of the next token.
ParseNumber(toks, n) ==
  Then(ConsumeToken(toks, n), LAMBDA t : IF t.type[1] = "num" THEN Got(t.type[2], t.next) ELSE Failed)

\* char and varchar differ in their largest length.
ParseLength(toks, n, code, max) ==
  Then(Expect(toks, n, "("), LAMBDA a :
  Then(ParseNumber(toks, a.next), LAMBDA len :
  IF len.type \notin 1 .. max THEN Failed ELSE
  Then(Expect(toks, len.next, ")"), LAMBDA z : Got(<<code, len.type>>, z.next))))

ParserChar(toks, n) == ParseLength(toks, n, "CHAR", 255)
ParserVarchar(toks, n) == ParseLength(toks, n, "VARCHAR", 65535)

\* Without parameters only at the end of the name.
ParseDecimal(toks, n) ==
  IF n > Len(toks) THEN Got(<<"DECIMAL", 38, 18>>, n) ELSE
  Then(Expect(toks, n, "("), LAMBDA a :
  Then(ParseNumber(toks, a.next), LAMBDA precision :
  Then(Expect(toks, precision.next, ","), LAMBDA c :
  Then(ParseNumber(toks, c.next), LAMBDA scale :
  Then(Expect(toks, scale.next, ")"), LAMBDA z :
       Got(<<"DECIMAL", precision.type, scale.type>>, z.next))))))

\* Mutant: the value type before the key type.
ValueFirst(key, value) == <<"MAP", value, key>>
MapType(key, value) == <<"MAP", key, value>>

RECURSIVE Parse(_, _), ParseFields(_, _, _)

ParseArray(toks, n) ==
  Then(Expect(toks, n, "<"), LAMBDA a :
  Then(Parse(toks, a.next), LAMBDA elem :
  Then(Expect(toks, elem.next, ">"), LAMBDA z : Got(<<"ARRAY", elem.type>>, z.next))))

ParseMap(toks, n) ==
  Then(Expect(toks, n, "<"), LAMBDA a :
  Then(Parse(toks, a.next), LAMBDA key :
  Then(Expect(toks, key.next, ","), LAMBDA c :
  Then(Parse(toks, c.next), LAMBDA value :
  Then(Expect(toks, value.next, ">"), LAMBDA z : Got(MapType(key.type, value.type), z.next))))))

\* The loop of parseStruct: a field, then a comma and the next one, or the end.
ParseFields(toks, n, fields) ==
  Then(ConsumeToken(toks, n), LAMBDA name :
  Then(Expect(toks, name.next, ":"), LAMBDA c :
  Then(Parse(toks, c.next), LAMBDA type :
  LET all == Append(fields, <<name.type, type.type>>)
  IN  IF PeekIs(toks, type.next, ",") THEN ParseFields(toks, type.next + 1, all)
      ELSE IF PeekIs(toks, type.next, ">") THEN Got(<<"STRUCT", all>>, type.next + 1)
      ELSE Failed)))

ParseStruct(toks, n) ==
  Then(Expect(toks, n, "<"), LAMBDA a : ParseFields(toks, a.next, <<>>))

Parse(toks, n) ==
  Then(ConsumeToken(toks, n), LAMBDA t :
  CASE t.type = Word("ARRAY")   -> ParseArray(toks, t.next)
    [] t.type = Word("MAP")     -> ParseMap(toks, t.next)
    [] t.type = Word("STRUCT")  -> ParseStruct(toks, t.next)
    [] t.type = Word("CHAR")    -> ParserChar(toks, t.next)
    [] t.type = Word("VARCHAR") -> ParserVarchar(toks, t.next)
    [] t.type = Word("DECIMAL") -> ParseDecimal(toks, t.next)
    [] t.type[1] = "word" /\ t.type[2] \in Primitive -> Got(<<t.type[2]>>, t.next)
    [] OTHER -> Failed)

\* Tokens left behind the type are an error, as is any error on the way.
ParseDataType(name) ==
  LET toks == Tokenize(name)
  IN  Then(Parse(toks, 1), LAMBDA o : IF o.next <= Len(toks) THEN Failed ELSE o)

-----------------------------------------------------------------------------
(* The name of a type in the service's answers (external): as the code's    *)
(* own Name functions write it, but with the fields of a struct unquoted    *)
(* and, for the type <<"DECIMAL">>, without parameters.                     *)

RECURSIVE ServiceName(_), FieldNames(_)

ServiceName(t) ==
  CASE t[1] = "ARRAY" -> <<Word("ARRAY"), Mark("<")>> \o ServiceName(t[2]) \o <<Mark(">")>>
    [] t[1] = "MAP"   -> <<Word("MAP"), Mark("<")>> \o ServiceName(t[2]) \o <<Mark(",")>>
                           \o ServiceName(t[3]) \o <<Mark(">")>>
    [] t[1] = "STRUCT" -> <<Word("STRUCT"), Mark("<")>> \o FieldNames(t[2]) \o <<Mark(">")>>
    [] t[1] \in {"CHAR", "VARCHAR"} -> <<Word(t[1]), Mark("("), Num(t[2]), Mark(")")>>
    [] t[1] = "DECIMAL" /\ Len(t) = 3 -> <<Word(t[1]), Mark("("), Num(t[2]), Mark(","), Num(t[3]), Mark(")")>>
    [] OTHER -> <<Word(t[1])>>

FieldNames(fields) ==
  LET first == <<fields[1][1], Mark(":")>> \o ServiceName(fields[1][2])
  IN  IF Len(fields) = 1 THEN first ELSE first \o <<Mark(",")>> \o FieldNames(Tail(fields))
=============================================================================
