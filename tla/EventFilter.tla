---------------------------- MODULE EventFilter ----------------------------
(***************************************************************************)
(* The filter expressions of subscriptions (events.py): a recursive        *)
(* descent parser that computes the truth of the expression as it reads,   *)
(* from the facts of an event.                                             *)
(*                                                                         *)
(* Splitting the text into tokens is left out: a token is <<word>> or, for *)
(* a double-quoted string, <<"\"", content>>.  The facts of an event are a *)
(* function from some field names to sets.  A result is [at, is]: the      *)
(* position of the parser and the truth of what it has read; at position 0 *)
(* it has raised ValueError.                                               *)
(***************************************************************************)
EXTENDS Naturals, Sequences, SequencesExt

\* null in JSON, told from other JSON by its field.
JsonNull == [null |-> TRUE]

Quoted(content) == <<"\"", content>>
IsQuoted(token) == Len(token) = 2
Comma == <<",">>

ValueError == [at |-> 0, is |-> FALSE]
Raised(result) == result.at = 0

\* What _tokenize makes of a text: words and quoted strings.
Expression(tokens) ==
  Len(tokens) \in Nat /\ \A i \in 1..Len(tokens) : Len(tokens[i]) \in 1..2

Peek(tokens, at) == IF at <= Len(tokens) THEN tokens[at] ELSE <<>>

NullableFields == {"locale", "scope"}

\* The field has a fact that is allowed, or null where the field may be null.
Allows(field, allowed, facts) ==
  LET name == IF field = <<"channel">> THEN "scope" ELSE field[1] IN
  /\ ~IsQuoted(field) /\ name \in DOMAIN facts
  /\ \E fact \in facts[name] :
       fact \in allowed \/ (name \in NullableFields /\ fact = JsonNull)

\* One quoted string, or a list of them separated by commas, from position i on.
StringsAt(tokens, closing, strings, i) ==
  LET rest == strings[i + 2]
      next == Peek(tokens, i + 1) IN
  IF ~IsQuoted(Peek(tokens, i)) \/ next \notin {closing, Comma}
  THEN [at |-> 0, allowed |-> {}]
  ELSE IF next = closing THEN [at |-> i + 2, allowed |-> {tokens[i][2]}]
  ELSE [at |-> rest.at, allowed |-> rest.allowed \cup {tokens[i][2]}]

Strings(tokens, closing) ==
  LET strings[i \in 1..Len(tokens) + 1] == StringsAt(tokens, closing, strings, i) IN strings

Closing(token) == CASE token = <<"(">> -> <<")">> [] token = <<"[">> -> <<"]">> [] OTHER -> <<>>

\* field = "x", or field in ("x", "y").  Any token but "(" will do for the field.
ParseLeaf(tokens, facts, at) ==
  LET operator == Peek(tokens, at + 1)
      closing == Closing(Peek(tokens, at + 2))
      strings == Strings(tokens, closing)[at + 3]
      one == Peek(tokens, at + 2) IN
  IF at > Len(tokens) THEN ValueError
  ELSE IF operator = <<"=">> /\ IsQuoted(one)
       THEN [at |-> at + 3, is |-> Allows(tokens[at], {one[2]}, facts)]
  ELSE IF operator = <<"in">> /\ closing # <<>> /\ strings.at # 0
       THEN [at |-> strings.at, is |-> Allows(tokens[at], strings.allowed, facts)]
  ELSE ValueError

\* Variant: once the left side of an "or" is true the right side is not read.
JoinShort(word, left, right) ==
  IF word = "or" /\ left.is THEN left
  ELSE [at |-> right.at, is |-> IF word = "or" THEN left.is \/ right.is ELSE left.is /\ right.is]

\* Both sides are read, whatever the truth of the left one.
Join(word, left, right) ==
  [at |-> right.at, is |-> IF word = "or" THEN left.is \/ right.is ELSE left.is /\ right.is]

Negated(result) == [at |-> result.at, is |-> ~result.is]

\* The closing parenthesis after what is in them.
Closed(tokens, inner) ==
  IF Raised(inner) \/ Peek(tokens, inner.at) # <<")">> THEN ValueError
  ELSE [at |-> inner.at + 1, is |-> inner.is]

Goes(tokens, word, left) == ~Raised(left) /\ Peek(tokens, left.at) = <<word>>

\* What the methods make of the tokens from position i on, given what they make of them
\* from all later positions on; the first is parse_not with parse_atom.
ParseNot(tokens, facts, parse, i) ==
  CASE Peek(tokens, i) = <<"not">> -> Negated(parse[i + 1].not)
    [] Peek(tokens, i) = <<"(">> -> Closed(tokens, parse[i + 1].or)
    [] OTHER -> ParseLeaf(tokens, facts, i)

ParseAnd(tokens, parse, not) ==
  IF Goes(tokens, "and", not) THEN Join("and", not, parse[not.at + 1].and) ELSE not

ParseOr(tokens, parse, and) ==
  IF Goes(tokens, "or", and) THEN Join("or", and, parse[and.at + 1].or) ELSE and

ParseAt(tokens, facts, parse, i) ==
  LET not == ParseNot(tokens, facts, parse, i)
      and == ParseAnd(tokens, parse, not) IN
  [not |-> not, and |-> and, or |-> ParseOr(tokens, parse, and)]

Parses(tokens, facts) ==
  LET parse[i \in 1..Len(tokens) + 1] == ParseAt(tokens, facts, parse, i) IN parse

\* The truth of the whole expression: nothing if parsing raises ValueError.
Parse(tokens, facts) ==
  LET result == Parses(tokens, facts)[1].or IN
  IF Raised(result) \/ result.at # Len(tokens) + 1 THEN {} ELSE {result.is}

NoFacts == [field \in {} |-> {}]

\* validate_filter reads it against no facts.  A filter that is absent or empty, as
\* <<>> is here, is valid and allows everything.
ValidFilter(tokens) == tokens = <<>> \/ Parse(tokens, NoFacts) # {}

\* _filter_allows: an expression that raises allows nothing.
FilterAllows(tokens, facts) == tokens = <<>> \/ TRUE \in Parse(tokens, facts)

----------------------------------------------------------------------------
(* What an expression means, without a parser: every way in which the      *)
(* tokens from i to j can be read at a level of the grammar.               *)

TakeTurns(x, y) == (IsQuoted(x) /\ y = Comma) \/ (x = Comma /\ IsQuoted(y))

\* The tokens before e are strings, from i on, with commas between them; e closes them.
IsStrings(tokens, closing, i, e) ==
  /\ e \in i + 1 .. Len(tokens) /\ tokens[e] = closing
  /\ IsQuoted(tokens[i]) /\ IsQuoted(tokens[e - 1])
  /\ \A k \in i .. e - 2 : TakeTurns(tokens[k], tokens[k + 1])

IsLeaf(tokens, i, j) ==
  /\ j >= i + 2 /\ ~(tokens[i] \in {<<"not">>, <<"(">>})
  /\ \/ j = i + 2 /\ tokens[i + 1] = <<"=">> /\ IsQuoted(tokens[j])
     \/ /\ tokens[i + 1] = <<"in">>
        /\ \/ tokens[i + 2] = <<"(">> /\ IsStrings(tokens, <<")">>, i + 3, j)
           \/ tokens[i + 2] = <<"[">> /\ IsStrings(tokens, <<"]">>, i + 3, j)

\* The leaf is about a field whose facts meet its strings; null meets every locale and
\* every channel.
LeafHolds(tokens, facts, i, j) ==
  LET field == IF tokens[i] = <<"channel">> THEN "scope" ELSE Last(tokens[i])
      named == {tokens[k][2] : k \in {k \in i + 2 .. j : IsQuoted(tokens[k])}}
      known == IF field \in DOMAIN facts THEN facts[field] ELSE {} IN
  /\ ~IsQuoted(tokens[i])
  /\ (known \cap named # {}) \/ (field \in {"locale", "scope"} /\ JsonNull \in known)

Splits(tokens, word, i, j) == {k \in i + 1 .. j - 1 : tokens[k] = <<word>>}

ReadNot(tokens, facts, read, i, j) ==
  IF i > j THEN {}
  ELSE IF tokens[i] = <<"not">> THEN {~v : v \in read[<<i + 1, j>>].not}
  ELSE IF tokens[i] = <<"(">>
       THEN IF tokens[j] = <<")">> THEN read[<<i + 1, j - 1>>].or ELSE {}
  ELSE IF IsLeaf(tokens, i, j) THEN {LeafHolds(tokens, facts, i, j)}
  ELSE {}

ReadAnd(tokens, read, not, i, j) ==
  not \cup
  {v[1] /\ v[2] : v \in UNION {read[<<i, k - 1>>].and \X read[<<k + 1, j>>].not :
                               k \in Splits(tokens, "and", i, j)}}

ReadOr(tokens, read, and, i, j) ==
  and \cup
  {v[1] \/ v[2] : v \in UNION {read[<<i, k - 1>>].or \X read[<<k + 1, j>>].and :
                               k \in Splits(tokens, "or", i, j)}}

ReadPart(tokens, facts, read, i, j) ==
  LET not == ReadNot(tokens, facts, read, i, j)
      and == ReadAnd(tokens, read, not, i, j) IN
  [not |-> not, and |-> and, or |-> ReadOr(tokens, read, and, i, j)]

Parts(tokens) == (1..Len(tokens) + 1) \X (0..Len(tokens))

AllReadings(tokens, facts) ==
  LET read[part \in Parts(tokens)] == ReadPart(tokens, facts, read, part[1], part[2]) IN read

Readings(tokens, facts) == AllReadings(tokens, facts)[<<1, Len(tokens)>>].or

=============================================================================
