------------------------------- MODULE SqlGuards -------------------------------
(***************************************************************************)
(* The two guards an analytics statement passes: validate_sql, a node of   *)
(* the graph, and assert_readonly_sql of the DuckDB client. A statement is *)
(* a sequence of tokens, without blanks between semicolons. A comment      *)
(* stands for a comment, a quoted token for a literal, of ordinary words.  *)
(***************************************************************************)
EXTENDS Integers, Sequences, FiniteSets, SequencesExt

CONSTANTS
  MaxTokens,    \* bound: tokens of a statement
  MaxLength     \* max_query_length, in tokens

SqlAssumption == MaxTokens \in Nat /\ MaxLength \in Nat

(* "select" may open a statement for both guards, "show" only for the client;
   "drop" is a keyword both forbid, "prepare" one that only the client does, and
   "name" any other word. *)
Tokens == {"select", "show", "drop", "prepare", "name", "comment", "quoted", ";", "(", ")"}
Statements == SeqOf(Tokens, MaxTokens)

Count(sql, token) == Cardinality({i \in DOMAIN sql : sql[i] = token})

(* The words of a text, as [A-Za-z_]+ finds them: here their positions. *)
IsWord(token) == token \notin {"quoted", ";", "(", ")"}

(* The first of the words is one that may open a statement. *)
Opens(sql, words, starters) ==
  \E i \in words : sql[i] \in starters /\ \A j \in words : i <= j

-----------------------------------------------------------------------------
(* validate_sql looks at the statement with blanks for its comments and with
   empty literals. *)
CodeWords(sql) == {i \in DOMAIN sql : IsWord(sql[i]) /\ sql[i] # "comment"}

(* select and with; the rules of the context say the same. *)
Starters == {"select"}
Forbidden == {"drop"}

(* Mutant: require_single_statement is not looked at. *)
MutSingle(sql) == TRUE

(* strip(), then rstrip(";"): at the end there may be semicolons, and comments
   behind them all. *)
Single(sql) ==
  \A i, j \in DOMAIN sql : sql[i] = ";" /\ i < j =>
    sql[j] = ";" \/ \A k \in j..Len(sql) : sql[k] = "comment"

Validated(sql) ==
  /\ sql # <<>>
  /\ \A i \in CodeWords(sql) : sql[i] \notin Forbidden
  /\ Opens(sql, CodeWords(sql), Starters)
  /\ Single(sql)
  /\ Count(sql, "(") = Count(sql, ")")
  /\ Len(sql) <= MaxLength

(* _READ_ONLY_STARTERS has show, describe, explain and pragma_show as well. *)
ClientStarters == Starters \cup {"show"}

(* assert_readonly_sql empties the literals only: a comment is words to it, and
   what may follow a semicolon is semicolons. *)
Words(sql) == {i \in DOMAIN sql : IsWord(sql[i])}

Accepted(sql) ==
  /\ Opens(sql, Words(sql), ClientStarters)
  /\ \A i \in Words(sql) : sql[i] \notin {"drop", "prepare"}
  /\ \A i, j \in DOMAIN sql : sql[i] = ";" /\ i < j => sql[j] = ";"
=============================================================================
