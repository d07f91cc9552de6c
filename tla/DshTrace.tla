------------------------------ MODULE DshTrace ------------------------------
(***************************************************************************)
(* parse_deepseek_sessions (integrations/harness/deepseek.py): the usage   *)
(* of one DeepSeek Harness session is recovered from its durable log.  The *)
(* writer of the log is external; its steps below are the ones the parser  *)
(* is written for: partial usage while a call streams, a final message, a  *)
(* retry boundary, rows repeated by a replay, and a malformed row.         *)
(***************************************************************************)
EXTENDS Naturals, Sequences, FiniteSets, SequencesExt, FiniteSetsExt

CONSTANTS Tokens, Tools, MaxSteps, MaxRetries, MaxRows

VARIABLES
  log,      \* rows of the session file, in order
  step,     \* the step the writer is in (turns are not told apart)
  tries,    \* provider calls made in that step
  retrying, \* a retry row was written, the new call has not started
  calls,    \* what was really used: <<step, call>> -> tokens, once evidenced
  used      \* the tool calls really made

vars == <<log, step, tries, retrying, calls, used>>

NoRow == [type |-> "torn", step |-> 0, tokens |-> 0, id |-> 0]
Row(type, tokens, id) == [type |-> type, step |-> step, tokens |-> tokens, id |-> id]

Torn == \E i \in DOMAIN log : log[i].type = "torn"
Open == step <= MaxSteps /\ Len(log) < MaxRows

Init ==
  /\ log = <<>> /\ step = 1 /\ tries = 0 /\ retrying = FALSE
  /\ calls = <<>> /\ used = {}

Evidence(tokens) == (<<step, tries>> :> tokens) @@ calls

Chunk(tokens) ==
  /\ Open /\ ~retrying
  /\ log' = Append(log, Row("assistant/chunk", tokens, 0))
  /\ calls' = Evidence(tokens)
  /\ UNCHANGED <<step, tries, retrying, used>>

Message(tokens) ==
  /\ Open /\ ~retrying
  /\ log' = Append(log, Row("assistant/message", tokens, 0))
  /\ calls' = Evidence(tokens)
  /\ step' = step + 1 /\ tries' = 0
  /\ UNCHANGED <<retrying, used>>

\* The boundary row proves the failed call even when it reported no usage.
Retry ==
  /\ Open /\ ~retrying /\ tries < MaxRetries
  /\ log' = Append(log, Row("llm/retry", 0, tries))
  /\ calls' = IF <<step, tries>> \in DOMAIN calls THEN calls ELSE Evidence(0)
  /\ retrying' = TRUE
  /\ UNCHANGED <<step, tries, used>>

RetryStarted ==
  /\ Open /\ retrying
  /\ log' = Append(log, Row("llm/retry-started", 0, tries))
  /\ retrying' = FALSE /\ tries' = tries + 1
  /\ UNCHANGED <<step, calls, used>>

Tool(id) ==
  /\ Open /\ id \notin used
  /\ log' = Append(log, Row("tool/call", 0, id))
  /\ used' = used \cup {id}
  /\ UNCHANGED <<step, tries, retrying, calls>>

\* A replay writes an earlier row again; partial usage rows are not replayed.
Replay(i) ==
  /\ Open
  /\ log[i].type \notin {"assistant/chunk", "torn"}
  /\ log' = Append(log, log[i])
  /\ UNCHANGED <<step, tries, retrying, calls, used>>

\* A row that does not parse: torn at the end, or malformed with others behind
\* it.  It stands for no event of the session.
Tear ==
  /\ Open /\ ~Torn
  /\ log' = Append(log, NoRow)
  /\ UNCHANGED <<step, tries, retrying, calls, used>>

Next ==
  \/ \E n \in Tokens : Chunk(n) \/ Message(n)
  \/ Retry \/ RetryStarted \/ Tear
  \/ \E id \in Tools : Tool(id)
  \/ \E i \in DOMAIN log : Replay(i)

Spec == Init /\ [][Next]_vars

-----------------------------------------------------------------------------
(* The parser. *)

\* Its tables: usage by logical call, from final messages and from partial
\* rows, the retry generation of each step, and the rows already seen.
Tables == [final |-> <<>>, chunk |-> <<>>, gen |-> [s \in 1 .. MaxSteps + 1 |-> 0],
           retries |-> {}, starts |-> {}, tools |-> <<>>, malformed |-> 0, at |-> 0]

\* The logical call a row belongs to.
Key(p, row) == <<row.step, p.gen[row.step]>>
\* A table entry keeps the row's position beside its usage.
Entry(p, key, tokens) == key :> [at |-> p.at, tokens |-> tokens]

\* A mutant: replayed boundary rows count again.
ReadRetryStarted_Again(p, row) == [p EXCEPT !.gen[row.step] = @ + 1]

ReadRetry(p, row) ==
  IF <<row.step, row.id>> \in p.retries THEN p
  ELSE [p EXCEPT !.retries = @ \cup {<<row.step, row.id>>},
                 !.chunk = IF Key(p, row) \in DOMAIN p.final \cup DOMAIN p.chunk THEN @
                           ELSE Entry(p, Key(p, row), 0) @@ @]

ReadRetryStarted(p, row) ==
  IF <<row.step, row.id>> \in p.starts THEN p
  ELSE [p EXCEPT !.starts = @ \cup {<<row.step, row.id>>}, !.gen[row.step] = @ + 1]

ReadTool(p, row) == [p EXCEPT !.tools = @ @@ (row.id :> p.at)]

Read(q, row) ==
  LET p == [q EXCEPT !.at = @ + 1] IN
  CASE row.type = "torn" -> [p EXCEPT !.malformed = @ + 1]
    [] row.type = "assistant/message" -> [p EXCEPT !.final = Entry(p, Key(p, row), row.tokens) @@ @]
    [] row.type = "assistant/chunk" -> [p EXCEPT !.chunk = Entry(p, Key(p, row), row.tokens) @@ @]
    [] row.type = "llm/retry" -> ReadRetry(p, row)
    [] row.type = "llm/retry-started" -> ReadRetryStarted(p, row)
    [] row.type = "tool/call" -> ReadTool(p, row)

Parsed == FoldLeft(Read, Tables, log)

\* A call's final usage supersedes its partial usage.
UsageByStep(p) == p.final @@ p.chunk

Total(p) == MapThenSumSet(LAMBDA k : UsageByStep(p)[k].tokens, DOMAIN UsageByStep(p))

\* The telemetry rows, in log order, with the running total each carries.
Events(p) ==
  LET models == {[at |-> UsageByStep(p)[k].at, tokens |-> UsageByStep(p)[k].tokens, kind |-> "model_call"] :
                    k \in DOMAIN UsageByStep(p)}
      tools == {[at |-> p.tools[id], tokens |-> 0, kind |-> "tool_call"] : id \in DOMAIN p.tools}
  IN SetToSortSeq(models \cup tools, LAMBDA a, b : a.at < b.at)

Cumulative(events, n) ==
  FoldLeft(LAMBDA sum, e : sum + e.tokens, 0, SubSeq(events, 1, n))

-----------------------------------------------------------------------------
\* The parsed usage is what the session used: each provider call the log
\* proves is counted once with its latest figure, however rows are repeated,
\* retried or malformed; each tool call once; a malformed row makes the accesses
\* unknown and nothing else; and the telemetry rows, numbered in log order,
\* add up to the same total (parse_deepseek_sessions).
UsageIsExact ==
  LET p == Parsed
      events == Events(p)
  IN
  /\ Cardinality(DOMAIN UsageByStep(p)) = Cardinality(DOMAIN calls)
  /\ \A k \in DOMAIN calls : k \in DOMAIN UsageByStep(p) /\ UsageByStep(p)[k].tokens = calls[k]
  /\ DOMAIN p.tools = used
  /\ (p.malformed > 0) = Torn
  /\ Len(events) = Cardinality(DOMAIN calls) + Cardinality(used)
  /\ Cumulative(events, Len(events)) = Total(p)
=============================================================================
