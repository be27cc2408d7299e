--------------------------------- MODULE Llm ---------------------------------
(***************************************************************************)
(* One completion of the language model (src/llm/openrouter.py): what is   *)
(* marked in the request for the provider's cache, how the chunks of the   *)
(* stream become text, tool calls and usage, and the cost that is asked    *)
(* for afterwards.                                                         *)
(*                                                                         *)
(* A text is a sequence of fragments, an id or a name is a sequence that   *)
(* is empty when the provider sent none, and so is a missing number 0.     *)
(* Each chunk has one choice.  What raises gives no result: an error in a  *)
(* chunk, or no chunk for stream_idle_s.                                   *)
(***************************************************************************)
EXTENDS Integers, Sequences, SequencesExt

Or(a, b) == IF a = 0 THEN b ELSE a
Given(a, b) == IF a = <<>> THEN b ELSE a

-----------------------------------------------------------------------------
(* Usage.                                                                  *)

Counts == {"prompt", "completion", "total", "reasoning", "cached"}
NoUsage == [tokens |-> [c \in Counts |-> 0], cost |-> 0, requests |-> 0]

\* _cost_from: what the provider charged, else what lies upstream of it.
CostFrom(raw) ==
  Or(raw.cost, Or(raw.upstream, raw.upstream_prompt + raw.upstream_completions))

UsageFrom(raw) == [tokens |-> raw.tokens, cost |-> CostFrom(raw), requests |-> 1]

\* _prefer_usage: chunks report totals, not increments; a later one that leaves
\* a number out keeps the earlier.
PreferUsage(current, incoming) ==
  [tokens   |-> [c \in Counts |-> Or(incoming.tokens[c], current.tokens[c])],
   cost     |-> Or(incoming.cost, current.cost),
   requests |-> Or(Or(incoming.requests, current.requests), 1)]

\* _fill_missing_cost: the provider's own record of the generation is asked for
\* the cost, unless a broker does the billing; 0 when it cannot be had.
FillMissingCost(result, broker, recorded) ==
  LET usage == result.usage
  IN  IF broker \/ usage.cost # 0 \/ result.id = <<>>
         \/ (usage.tokens["total"] = 0 /\ usage.tokens["prompt"] = 0)
        THEN result
        ELSE [result EXCEPT !.usage.cost = Or(CostFrom(recorded), recorded.total)]

-----------------------------------------------------------------------------
(* The stream.                                                             *)

Nothing == [text |-> <<>>, told |-> <<>>, details |-> <<>>, calls |-> <<>>,
            usage |-> NoUsage, finish |-> <<>>, model |-> <<>>, id |-> <<>>]

NoCall == [id |-> <<>>, name |-> <<>>, arguments |-> <<>>]

\* A fragment of the call at an index: id and name replace, arguments add up.
TakeFragment(calls, part) ==
  LET old == IF part.index \in DOMAIN calls THEN calls[part.index] ELSE NoCall
      new == [id |-> Given(part.id, old.id), name |-> Given(part.name, old.name),
              arguments |-> old.arguments \o part.arguments]
  IN  [i \in DOMAIN calls \cup {part.index} |-> IF i = part.index THEN new ELSE calls[i]]

\* What on_delta is told of a chunk: the text, then the reasoning.
Deltas(chunk) ==
  SelectSeq(<<[kind |-> "text", of |-> chunk.text],
              [kind |-> "reasoning", of |-> chunk.reasoning]>>, LAMBDA d : d.of # <<>>)

TakeChunk(result, chunk) ==
  [text    |-> result.text \o chunk.text,
   told    |-> result.told \o Deltas(chunk),
   details |-> result.details \o chunk.details,
   calls   |-> FoldLeft(TakeFragment, result.calls, chunk.calls),
   usage   |-> IF chunk.usage = NoUsage THEN result.usage
               ELSE PreferUsage(result.usage, chunk.usage),
   finish  |-> Given(chunk.finish, result.finish),
   model   |-> Given(chunk.model, result.model),
   id      |-> Given(chunk.id, result.id)]

\* A call without a name is dropped; one without an id gets that of its index.
Assembled(calls) ==
  LET named == SetToSortSeq({i \in DOMAIN calls : calls[i].name # <<>>}, <)
  IN  [k \in DOMAIN named |->
         [calls[named[k]] EXCEPT !.id = Given(@, <<"call", named[k]>>)]]

Streamed(chunks) == FoldLeft(TakeChunk, Nothing, chunks)

ResultFromStream(chunks) ==
  [Streamed(chunks) EXCEPT !.calls = Assembled(Streamed(chunks).calls)]

\* _result_from, without streaming: the message is whole, and a call without an
\* id goes by its name.  on_delta is told the text at once.
ResultFrom(message) ==
  LET calls == SelectSeq(message.calls, LAMBDA c : c.name # <<>>)
  IN  [text |-> message.text, details |-> message.details,
       told |-> SelectSeq(<<[kind |-> "text", of |-> message.text]>>, LAMBDA d : d.of # <<>>),
       calls |-> [k \in DOMAIN calls |-> [calls[k] EXCEPT !.id = Given(@, calls[k].name)]],
       usage |-> message.usage, finish |-> message.finish, model |-> message.model,
       id |-> message.id]

-----------------------------------------------------------------------------
(* The request.                                                            *)

\* An assistant's message that only calls tools.
Stub(message) == message.role = "assistant" /\ message.calls /\ ~message.text

\* with_cache_breakpoints: the system prompt, and the last message of the
\* history that is not a stub.
Breakpoints(messages) ==
  LET stable == {i \in 2 .. Len(messages) :
                   messages[i].role \in {"tool", "user", "assistant"} /\ ~Stub(messages[i])}
  IN  {i \in DOMAIN messages : i = 1 /\ messages[i].role = "system"}
        \cup {i \in stable : \A j \in stable : j <= i}

\* _mark_message, of the parts of a content: the last that is no image; 0 stands
\* for the message itself.
MarkedPart(parts) ==
  LET others == {i \in DOMAIN parts : parts[i] # "image"}
  IN  IF others = {} THEN 0 ELSE CHOOSE i \in others : \A j \in others : j <= i
=============================================================================
