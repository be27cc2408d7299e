-------------------------------- MODULE MCLlm --------------------------------
(* What the assembly of a completion promises, for every stream of a few    *)
(* chunks.  TLC evaluates the assumptions before it runs AgentLoop.         *)
EXTENDS Llm

Quiet == [text |-> <<>>, reasoning |-> <<>>, details |-> <<>>, calls |-> <<>>,
          usage |-> NoUsage, finish |-> <<>>, model |-> <<>>, id |-> <<>>]

\* Two parallel calls in fragments: the first names its call and may carry its
\* id, the others carry arguments.
CallFragments(index, id) ==
  <<[index |-> index, id |-> id, name |-> <<"tool", index>>, arguments |-> <<>>],
    [index |-> index, id |-> <<>>, name |-> <<>>, arguments |-> <<index, "a">>],
    [index |-> index, id |-> <<>>, name |-> <<>>, arguments |-> <<index, "b">>]>>

CallChunk(fragment) == [Quiet EXCEPT !.calls = <<fragment>>]

\* Every way the six fragments may be interleaved: at which places the first
\* call's stand.
InterleavedAt(S, a, b) ==
  [k \in 1 .. 6 |-> LET before == Cardinality({i \in S : i < k})
                    IN  IF k \in S THEN CallChunk(a[before + 1])
                        ELSE CallChunk(b[k - before])]

\* Parallel calls come out whole and in the order of their indices, each under
\* an id of its own, whatever the order in which their fragments arrive: the
\* results that answer them can be paired with them.
CallsKeptApart ==
  \A ida \in {<<>>, <<"x">>}, idb \in {<<>>, <<"y">>} :
    LET a == CallFragments(0, ida)  b == CallFragments(1, idb)
    IN  \A S \in {T \in SUBSET (1 .. 6) : Cardinality(T) = 3} :
          LET calls == ResultFromStream(InterleavedAt(S, a, b)).calls
          IN  /\ calls = ResultFromStream(InterleavedAt(1 .. 3, a, b)).calls
              /\ Len(calls) = 2 /\ calls[1].id # calls[2].id
              /\ calls[1].arguments = <<0, "a", 0, "b">>

\* Chunks of text and reasoning, of usage, and of neither.
Speech == {[Quiet EXCEPT !.text = t, !.reasoning = r] : t, r \in {<<>>, <<"s">>, <<"t">>}}
Reports == {[Quiet EXCEPT !.usage = [NoUsage EXCEPT !.tokens["total"] = n, !.cost = c,
                                                    !.requests = 1]] : n, c \in 0 .. 2}

\* What the clients were shown while the answer streamed in is the answer that
\* goes into the history.
ShownIsKept ==
  \A chunks \in BoundedSeq(Speech, 3) :
    LET result == ResultFromStream(chunks)
        said   == SelectSeq(result.told, LAMBDA d : d.kind = "text")
    IN  result.text = FlattenSeq([k \in DOMAIN said |-> said[k].of])

\* A request is counted once however many chunks report on it, and no number is
\* lost that a chunk has reported.
UsageCountedOnce ==
  \A chunks \in BoundedSeq(Reports, 3) :
    LET usage == ResultFromStream(chunks).usage
    IN  /\ chunks # <<>> => usage.requests = 1
        /\ \A k \in DOMAIN chunks : chunks[k].usage.cost # 0 =>
             \E j \in k .. Len(chunks) : usage.cost = chunks[j].usage.cost /\ usage.cost # 0

\* Nothing the model could be shown again lies behind the breakpoint but stubs,
\* and as the history grows the breakpoint never moves back.
History == BoundedSeq([role : {"assistant", "tool", "user"}, calls : BOOLEAN, text : BOOLEAN], 2)
Prompted(h) == <<[role |-> "system", calls |-> FALSE, text |-> TRUE]>> \o h
BreakpointsAdvance ==
  \A h, more \in History :
    LET marks == Breakpoints(Prompted(h))
    IN  /\ 1 \in marks
        /\ \A i \in 2 .. Len(h) + 1 :
             (\A m \in marks : m < i) => Stub(Prompted(h)[i])
        /\ \A m \in marks : \E n \in Breakpoints(Prompted(h \o more)) : m <= n

\* Only images follow the part that is marked.
ImagesFollow ==
  \A parts \in BoundedSeq({"text", "image"}, 3) :
    \A i \in DOMAIN parts : i > MarkedPart(parts) => parts[i] = "image"

\* The cost is asked for once, when there is usage without one; a broker's
\* usage stays as it is.
CostFilledOnce ==
  LET raw == [cost : {0, 2}, upstream : {0, 3}, upstream_prompt : {0, 1},
              upstream_completions : {0, 1}, total : {0, 4}]
  IN  \A recorded, other \in raw : \A broker \in BOOLEAN : \A chunk \in Reports :
        LET result == [ResultFromStream(<<chunk>>) EXCEPT !.id = <<"g">>]
            once   == FillMissingCost(result, broker, recorded)
        IN  /\ broker => once = result
            /\ once.usage.cost # 0 => FillMissingCost(once, broker, other) = once

ASSUME LlmChecked ==
  /\ CallsKeptApart
  /\ ShownIsKept
  /\ UsageCountedOnce
  /\ BreakpointsAdvance
  /\ ImagesFollow
  /\ CostFilledOnce
=============================================================================
