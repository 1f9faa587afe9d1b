----------------------------- MODULE AnalyticsChat -----------------------------
(***************************************************************************)
(* One chat completion in the analytics mode: the graph load_context ->    *)
(* generate_sql -> validate_sql -> log_decision, the DecisionLog row, the  *)
(* execution of the statement on DuckDB and the answer, streamed or not.   *)
(***************************************************************************)
EXTENDS SqlGuards

CONSTANTS
  MaxMatching,  \* bound: rows the statement selects in the warehouse
  MaxRows,      \* duckdb_max_rows
  ShownRows,    \* rows of the table in an answer (10)
  MaxContent,   \* bound: length of the answer
  ChunkSize,    \* characters of a chunk of the stream
  Faults        \* what may fail: "context", "llm", "db", "duckdb"

AnalyticsAssumption ==
  /\ SqlAssumption
  /\ MaxMatching \in Nat /\ MaxRows \in Nat \ {0} /\ ShownRows \in Nat
  /\ MaxContent \in Nat /\ MaxContent > ShownRows /\ ChunkSize \in Nat \ {0}
  /\ Faults \subseteq {"context", "llm", "db", "duckdb"}

VARIABLES
  pc,
  loaded,      \* load_context has put a bundle into the state of the graph
  sql,         \* generated_sql
  sql_valid,
  status,      \* of the AgentRunResult
  row,         \* the committed DecisionLog row, or NoRow
  matching,    \* rows the statement selects
  executed,    \* what the DuckDB client returned, or NotExecuted
  response,    \* 0, or the HTTP status
  told,        \* what the answer tells of the execution
  content,     \* length of the answer
  sent         \* characters streamed

graphVars == <<loaded, sql, sql_valid, status>>
vars == <<pc, graphVars, row, matching, executed, response, told, content, sent>>

Least(a, b) == IF a < b THEN a ELSE b

NoRow == [status |-> "none", sha |-> FALSE, score |-> 0]
NotExecuted == [kind |-> "none", row_count |-> 0, truncated |-> FALSE]
NothingTold == [kind |-> "none", said |-> 0, shown |-> 0]

TypeOK ==
  /\ pc \in {"load_context", "generate_sql", "validate_sql", "log_decision", "persist",
             "execute", "answer", "stream", "done"}
  /\ loaded \in BOOLEAN /\ sql_valid \in BOOLEAN
  /\ Len(sql) <= MaxTokens /\ \A i \in DOMAIN sql : sql[i] \in Tokens
  /\ status \in {"succeeded", "failed"}
  /\ row \in [status : {"none", "succeeded", "failed"}, sha : BOOLEAN, score : {0, 1}]
  /\ matching \in 0..MaxMatching
  /\ executed \in [kind : {"none", "rows", "error"}, row_count : 0..MaxRows, truncated : BOOLEAN]
  /\ told \in [kind : {"none", "rows", "error"}, said : 0..MaxRows, shown : 0..ShownRows]
  /\ response \in {0, 200, 502} /\ content \in 0..MaxContent /\ sent \in 0..MaxContent

Init ==
  /\ pc = "load_context" /\ loaded = FALSE /\ sql = <<>> /\ sql_valid = FALSE
  /\ status = "succeeded" /\ row = NoRow /\ matching = 0 /\ executed = NotExecuted
  /\ response = 0 /\ told = NothingTold /\ content = 0 /\ sent = 0

-----------------------------------------------------------------------------
(* The graph. A node that raises ends it, and its state is dropped: the values
   of the run are {} then. *)
LoadContext ==
  /\ pc = "load_context" /\ pc' = "generate_sql" /\ loaded' = TRUE
  /\ UNCHANGED <<sql, sql_valid, status, row, matching, executed, response, told, content, sent>>

GenerateSql ==
  /\ pc = "generate_sql" /\ pc' = "validate_sql"
  /\ sql' \in Statements
  /\ matching' \in 0..MaxMatching
  /\ UNCHANGED <<loaded, sql_valid, status, row, executed, response, told, content, sent>>

ValidateSql ==
  /\ pc = "validate_sql" /\ pc' = "log_decision"
  /\ sql_valid' = Validated(sql)
  /\ UNCHANGED <<loaded, sql, status, row, matching, executed, response, told, content, sent>>

LogDecision ==
  /\ pc = "log_decision" /\ pc' = "persist"
  /\ UNCHANGED <<graphVars, row, matching, executed, response, told, content, sent>>

GraphFails ==
  /\ \/ pc = "load_context" /\ "context" \in Faults
     \/ pc = "generate_sql" /\ "llm" \in Faults
  /\ pc' = "persist" /\ status' = "failed"
  /\ UNCHANGED <<loaded, sql, sql_valid, row, matching, executed, response, told, content, sent>>

(* A failed run has no decision record, and its values were dropped with the sha. *)
Score == IF status = "succeeded" /\ sql_valid THEN 1 ELSE 0

Persist ==
  /\ pc = "persist" /\ pc' = "execute"
  /\ row' = [status |-> status, sha |-> status = "succeeded", score |-> Score]
  /\ UNCHANGED <<graphVars, matching, executed, response, told, content, sent>>

PersistFails ==
  /\ pc = "persist" /\ pc' = "execute" /\ "db" \in Faults
  /\ UNCHANGED <<graphVars, row, matching, executed, response, told, content, sent>>

-----------------------------------------------------------------------------
(* chat_completions *)

(* Mutant: every statement is executed. *)
MutRunnable == sql # <<>>

Runnable == sql_valid /\ sql # <<>>

BadGateway ==
  /\ pc = "execute" /\ status = "failed"
  /\ pc' = "done" /\ response' = 502
  /\ UNCHANGED <<graphVars, row, matching, executed, told, content, sent>>

Skip ==
  /\ pc = "execute" /\ status = "succeeded" /\ ~Runnable
  /\ pc' = "answer"
  /\ UNCHANGED <<graphVars, row, matching, executed, response, told, content, sent>>

Truncated(fetched) == fetched >= MaxRows

Fetched == Least(matching, MaxRows)

Execute ==
  /\ pc = "execute" /\ status = "succeeded" /\ Runnable /\ Accepted(sql)
  /\ pc' = "answer"
  /\ executed' = [kind |-> "rows", row_count |-> Fetched, truncated |-> Truncated(Fetched)]
  /\ UNCHANGED <<graphVars, row, matching, response, told, content, sent>>

(* The guard of the client or the engine raises: the error is part of the answer. *)
ExecuteFails ==
  /\ pc = "execute" /\ status = "succeeded" /\ Runnable
  /\ ~Accepted(sql) \/ "duckdb" \in Faults
  /\ pc' = "answer"
  /\ executed' = [NotExecuted EXCEPT !.kind = "error"]
  /\ UNCHANGED <<graphVars, row, matching, response, told, content, sent>>

(* _format_analytics: an error is told as such; of the rows the answer says how
   many were fetched and shows the first ten. It does not say whether the client
   marked them as truncated. *)
Told ==
  IF executed.kind = "rows"
    THEN [kind |-> "rows", said |-> executed.row_count,
          shown |-> Least(executed.row_count, ShownRows)]
    ELSE [NothingTold EXCEPT !.kind = executed.kind]

(* Its length is that of a heading and the rows shown, at least. *)
Answer ==
  /\ pc = "answer" /\ response' = 200 /\ told' = Told
  /\ \E length \in (1 + Told.shown)..MaxContent :
       /\ content' = length
       /\ \/ pc' = "done" /\ sent' = length
          \/ pc' = "stream" /\ sent' = 0
  /\ UNCHANGED <<graphVars, row, matching, executed>>

(* range(0, len(content), 48) *)
More == sent < content

Stream ==
  /\ pc = "stream" /\ More
  /\ sent' = Least(sent + ChunkSize, content)
  /\ UNCHANGED <<pc, graphVars, row, matching, executed, response, told, content>>

FinishStream ==
  /\ pc = "stream" /\ ~More /\ pc' = "done"
  /\ UNCHANGED <<graphVars, row, matching, executed, response, told, content, sent>>

Next ==
  \/ LoadContext \/ GenerateSql \/ ValidateSql \/ LogDecision \/ GraphFails
  \/ Persist \/ PersistFails \/ BadGateway \/ Skip \/ Execute \/ ExecuteFails
  \/ Answer \/ Stream \/ FinishStream

Spec == Init /\ [][Next]_vars

-----------------------------------------------------------------------------
(* "run validated SQL on DuckDB": whatever reached the engine had passed both
   guards, and its row, if it could be written, says that it was valid. *)
RunOnRecord ==
  executed.kind = "rows" =>
    /\ Validated(sql) /\ Accepted(sql)
    /\ row # NoRow => row = [status |-> "succeeded", sha |-> TRUE, score |-> 1]

(* What the user is told is what was executed, and the stream brings all of it,
   an incomplete last chunk included. A number of rows below the client's limit
   is all there were, and rows that are not shown are in the number: the only cut
   that cannot be seen is the client's own, at exactly its limit. *)
AnswerTellsTheRows ==
  pc = "done" /\ response = 200 =>
    /\ sent = content /\ told.kind = executed.kind
    /\ told.kind = "rows" =>
         /\ told.said = matching \/ (told.said = MaxRows /\ MaxRows < matching)
         /\ told.shown = told.said \/ (told.shown = ShownRows /\ ShownRows < told.said)
         /\ told.shown < content

(* The guards differ only over comments and the keywords of the client's own list
   in what only validate_sql lets pass, and only over the client's own starters and
   what it leaves to the engine, parentheses and length, in what only it does. *)
GuardsAgree ==
  pc = "log_decision" =>
    /\ sql_valid /\ ~Accepted(sql) => {"comment", "prepare"} \cap ToSet(sql) # {}
    /\ ~sql_valid /\ Accepted(sql) =>
         \/ Opens(sql, Words(sql), ClientStarters \ Starters)
         \/ Count(sql, "(") # Count(sql, ")")
         \/ Len(sql) > MaxLength

=============================================================================
