---------------------------- MODULE StreamWriters ----------------------------
(***************************************************************************)
(* write_response_event of the six protocols, with the framing each adds   *)
(* to its stream: one IR event and the writer's state in, wire chunks and  *)
(* the next state out.  Wire chunks have the shape the readers take.       *)
(***************************************************************************)
EXTENDS StreamIR, SequencesExt

(* Per-stream state of a writer and its StreamFraming. *)
WriterState ==
  [ord |-> <<>>,           \* OpenAI: IR index -> ordinal of the tool call
   emitted |-> FALSE,      \* Bedrock: the metadata frame has gone out
   pending |-> FALSE,      \* Bedrock: it is owed
   tools |-> {},           \* open tool calls
   text |-> {},            \* open text blocks
   think |-> {},           \* open reasoning items
   id |-> <<>>,            \* what tells the open tool calls apart, by index
   acc |-> <<>>,           \* what each open block holds so far
   items |-> <<>>,         \* Responses: finished output items
   seq |-> 0]              \* Responses: the next sequence_number

Written(w, chunks) == [w |-> w, out |-> chunks]
Nothing(w) == Written(w, <<>>)

Without(f, i) == [j \in DOMAIN f \ {i} |-> f[j]]
AccOf(w, i)   == IF i \in DOMAIN w.acc THEN w.acc[i] ELSE <<>>
Gather(w, i, pieces) == [w EXCEPT !.acc = (i :> (AccOf(w, i) \o pieces)) @@ w.acc]

-----------------------------------------------------------------------------
(* OpenAI Chat Completions. *)

OpenaiWriteBlock(e) ==
  CASE e.t = "MessageStart" -> <<OpenaiChunk>>
    [] e.t = "BlockStart" /\ e.k = "ToolUse" ->
         <<[OpenaiChunk EXCEPT !.tools = <<[i |-> e.i, id |-> e.d.id, name |-> e.d.name, args |-> <<>>]>>]>>
    [] e.t = "BlockDelta" /\ e.k = "Text" -> <<[OpenaiChunk EXCEPT !.text = e.d]>>
    [] e.t = "BlockDelta" /\ e.k = "InputJson" ->
         <<[OpenaiChunk EXCEPT !.tools = <<[i |-> e.i, id |-> 0, name |-> 0, args |-> e.d]>>]>>
    [] e.t = "BlockDelta" /\ e.k = "Logprobs" -> <<[OpenaiChunk EXCEPT !.lp = TRUE]>>
    [] OTHER -> <<>>

OpenaiWriteEnd(e) ==
  CASE e.t = "MessageDelta" ->
         LET u == ToTotal(e.usage)
         IN  <<[OpenaiChunk EXCEPT
                  !.finish = IF e.stop = Nil THEN Nil ELSE write_openai_stop_reason(e.stop),
                  !.usage  = IF u.inp # 0 \/ u.outp # 0 THEN u ELSE Nil]>>
    [] e.t = "Error" -> <<[OpenaiChunk EXCEPT !.error = TRUE, !.choices = FALSE]>>
    [] OTHER -> <<>>

(* Tool calls are renumbered densely, in the order their index first shows. *)
remap_tool_call_index_Raw(w, c) == Written(w, <<c>>)
remap_tool_call_index(w, c) ==
  IF c.tools = <<>> THEN Written(w, <<c>>)
  ELSE LET raw == c.tools[1].i
           ord == IF raw \in DOMAIN w.ord THEN w.ord
                  ELSE (raw :> Cardinality(DOMAIN w.ord)) @@ w.ord
       IN  Written([w EXCEPT !.ord = ord], <<[c EXCEPT !.tools[1].i = ord[raw]]>>)

(* The usage of the finish chunk goes into a chunk of its own when the     *)
(* client asked for it and is dropped when it did not.                     *)
split_or_strip_usage(c, include) ==
  IF c.usage = Nil \/ c.finish = Nil THEN <<c>>
  ELSE <<[c EXCEPT !.usage = Nil]>>
       \o (IF include THEN <<[OpenaiChunk EXCEPT !.usage = c.usage, !.choices = FALSE]>> ELSE <<>>)

OpenaiWriter(w, e, include) ==
  LET raw == IF e.t \in {"MessageDelta", "MessageStop", "Error"}
             THEN OpenaiWriteEnd(e) ELSE OpenaiWriteBlock(e)
  IN  IF raw = <<>> THEN Nothing(w)
      ELSE LET r == remap_tool_call_index(w, raw[1])
           IN  Written(r.w, split_or_strip_usage(r.out[1], include))

-----------------------------------------------------------------------------
(* Anthropic: one IR event, one frame; nothing is remembered. *)

AnthropicWriteStart(w, e) ==
  Written(w, <<[t |-> "message_start", usage |-> IF e.usage = Nil THEN NoUsage ELSE e.usage]>>)

AnthropicWriteBlock(w, e) ==
  CASE e.t = "BlockStart" ->
         Written(w, <<[t |-> "content_block_start", i |-> e.i, k |-> e.k, d |-> e.d]>>)
    [] e.t = "BlockDelta" /\ e.k \notin {"Redacted", "Logprobs"} ->
         Written(w, <<[t |-> "content_block_delta", i |-> e.i, k |-> e.k, d |-> e.d]>>)
    [] e.t = "BlockStop" -> Written(w, <<[t |-> "content_block_stop", i |-> e.i]>>)
    [] OTHER -> Nothing(w)

AnthropicWriteEnd(w, e) ==
  CASE e.t = "MessageDelta" ->
         Written(w, <<[t |-> "message_delta", usage |-> e.usage,
                       stop |-> IF e.stop = Nil THEN Nil ELSE write_anthropic_stop_reason(e.stop)]>>)
    [] e.t = "MessageStop" -> Written(w, <<[t |-> "message_stop"]>>)
    [] e.t = "Error" -> Written(w, <<[t |-> "error"]>>)

AnthropicWriter(w, e) ==
  CASE e.t = "MessageStart" -> AnthropicWriteStart(w, e)
    [] e.t \in {"BlockStart", "BlockDelta", "BlockStop"} -> AnthropicWriteBlock(w, e)
    [] OTHER -> AnthropicWriteEnd(w, e)

-----------------------------------------------------------------------------
(* Bedrock ConverseStream.  A delta with a stop reason is the messageStop  *)
(* frame, one without is the metadata frame.                               *)

BedrockWriter(w, e) ==
  CASE e.t = "MessageStart" -> Written(w, <<[t |-> "messageStart"]>>)
    [] e.t = "BlockStart" ->
         Written(w, <<[t |-> "contentBlockStart", i |-> e.i, k |-> e.k, d |-> e.d]>>)
    [] e.t = "BlockDelta" /\ e.k \notin {"Citations", "Logprobs"} ->
         Written(w, <<[t |-> "contentBlockDelta", i |-> e.i, k |-> e.k, d |-> e.d]>>)
    [] e.t = "BlockStop" -> Written(w, <<[t |-> "contentBlockStop", i |-> e.i]>>)
    [] e.t = "MessageDelta" /\ e.stop # Nil ->
         Written(w, <<[t |-> "messageStop", stop |-> stop_reason_reverse(e.stop)]>>)
    [] e.t = "MessageDelta" /\ e.stop = Nil -> Written(w, <<[t |-> "metadata", usage |-> e.usage]>>)
    [] e.t = "Error" -> Written(w, <<[t |-> "exception"]>>)
    [] OTHER -> Nothing(w)

(* BedrockStreamFraming: the metadata frame goes out exactly once, with    *)
(* the stop delta's usage, with a later usage-only delta's, or with zeros  *)
(* when the stream ends.                                                   *)
on_combined_stop_delta(w, e) ==
  LET now == ~w.emitted /\ HasUsage(e.usage)
  IN  [w  |-> [w EXCEPT !.emitted = w.emitted \/ now,
                        !.pending = IF w.emitted THEN w.pending ELSE ~now],
       ev |-> <<MessageDelta(e.stop, NoUsage)>>
              \o (IF now THEN <<MessageDelta(Nil, e.usage)>> ELSE <<>>)]

on_usage_only_delta(w, e) ==
  [w  |-> IF w.emitted THEN w ELSE [w EXCEPT !.emitted = TRUE, !.pending = FALSE],
   ev |-> IF w.emitted THEN <<>> ELSE <<e>>]

on_finish(w) ==
  LET owed == w.pending /\ ~w.emitted
  IN  [w  |-> IF owed THEN [w EXCEPT !.emitted = TRUE, !.pending = FALSE] ELSE w,
       ev |-> IF owed THEN <<MessageDelta(Nil, NoUsage)>> ELSE <<>>]

-----------------------------------------------------------------------------
(* Cohere v2.  The stop frame has a type: the writer remembers which of    *)
(* the open blocks are text and which are tool calls.                      *)

CohereWriteBlock(w, e) ==
  CASE e.t = "BlockStart" /\ e.k = "Text" ->
         Written([w EXCEPT !.text = @ \cup {e.i}], <<[t |-> "content-start", i |-> e.i]>>)
    [] e.t = "BlockStart" /\ e.k = "ToolUse" ->
         Written([w EXCEPT !.tools = @ \cup {e.i}],
                 <<[t |-> "tool-call-start", i |-> e.i, d |-> e.d, args |-> <<>>]>>)
    [] e.t = "BlockDelta" /\ e.k = "Text" ->
         Written(w, <<[t |-> "content-delta", i |-> e.i, d |-> e.d]>>)
    [] e.t = "BlockDelta" /\ e.k = "InputJson" ->
         Written(w, <<[t |-> "tool-call-delta", i |-> e.i, d |-> e.d]>>)
    [] e.t = "BlockStop" /\ e.i \in w.tools ->
         Written([w EXCEPT !.tools = @ \ {e.i}], <<[t |-> "tool-call-end", i |-> e.i]>>)
    [] e.t = "BlockStop" /\ e.i \notin w.tools /\ e.i \in w.text ->
         Written([w EXCEPT !.text = @ \ {e.i}], <<[t |-> "content-end", i |-> e.i]>>)
    [] OTHER -> Nothing(w)

CohereWriter(w, e) ==
  CASE e.t = "MessageStart" -> Written(w, <<[t |-> "message-start"]>>)
    [] e.t \in {"BlockStart", "BlockDelta", "BlockStop"} -> CohereWriteBlock(w, e)
    [] e.t = "MessageDelta" ->
         Written(w, <<[t |-> "message-end", usage |-> e.usage,
                       stop |-> write_cohere_stop_reason(IF e.stop = Nil THEN "EndTurn" ELSE e.stop)]>>)
    [] e.t = "Error" ->
         Written(w, <<[t |-> "message-end", usage |-> NoUsage, stop |-> "ERROR"]>>)
    [] OTHER -> Nothing(w)

-----------------------------------------------------------------------------
(* Gemini.  A function call is one part: its arguments are gathered until  *)
(* the block stops.  It goes out under its name; the id is dropped.        *)

GeminiText(k, d, sig) ==
  [GeminiChunk EXCEPT !.parts = <<[k |-> k, d |-> d, sig |-> sig, args |-> <<>>]>>]

GeminiWriteDelta(w, e) ==
  CASE e.k = "InputJson" ->
         Nothing(IF e.i \in w.tools THEN Gather(w, e.i, e.d) ELSE w)
    [] e.k = "Text" -> Written(w, <<GeminiText("text", e.d, 0)>>)
    [] e.k = "Thinking" -> Written(w, <<GeminiText("thought", e.d, 0)>>)
    [] e.k = "Signature" -> Written(w, <<GeminiText("thought", 0, e.d)>>)
    [] e.k = "Citations" ->
         Written(w, <<[GeminiChunk EXCEPT !.cite = e.d]>>)
    [] e.k = "Logprobs" -> Written(w, <<[GeminiChunk EXCEPT !.lp = TRUE]>>)
    [] OTHER -> Nothing(w)

GeminiWriteBlock(w, e) ==
  CASE e.t = "BlockStart" /\ e.k = "ToolUse" ->
         Nothing([w EXCEPT !.tools = @ \cup {e.i}, !.id = (e.i :> e.d.name) @@ w.id,
                           !.acc = (e.i :> <<>>) @@ w.acc])
    [] e.t = "BlockDelta" -> GeminiWriteDelta(w, e)
    [] e.t = "BlockStop" /\ e.i \in w.tools ->
         Written([w EXCEPT !.tools = @ \ {e.i}],
                 <<[GeminiChunk EXCEPT !.parts =
                      <<[k |-> "call", d |-> w.id[e.i], sig |-> 0, args |-> AccOf(w, e.i)]>>]>>)
    [] OTHER -> Nothing(w)

GeminiWriter(w, e) ==
  CASE e.t = "MessageStart" -> Written(w, <<GeminiChunk>>)
    [] e.t \in {"BlockStart", "BlockDelta", "BlockStop"} -> GeminiWriteBlock(w, e)
    [] e.t = "MessageDelta" ->
         Written(w, <<[GeminiChunk EXCEPT !.usage = ToTotal(e.usage),
                        !.finish = write_gemini_stop_reason(IF e.stop = Nil THEN "EndTurn"
                                                            ELSE e.stop)]>>)
    [] e.t = "Error" -> Written(w, <<[GeminiChunk EXCEPT !.error = TRUE]>>)
    [] OTHER -> Nothing(w)
-----------------------------------------------------------------------------
(* OpenAI Responses.  Every item is announced, filled and finished; the    *)
(* terminal event lists the finished items; every event is numbered.       *)

Numbered(w, c) == Written([w EXCEPT !.seq = w.seq + 1], <<[c EXCEPT !.n = w.seq]>>)
ItemEvent(t, e, k, d) == [t |-> t, i |-> e.i, k |-> k, d |-> d, n |-> 0]

ResponsesBlockStart(w, e) ==
  CASE e.k = "Text" ->
         IF e.i \in w.text \/ Cardinality(w.text) >= MaxOpenTools THEN Nothing(w)
         ELSE Numbered([w EXCEPT !.text = @ \cup {e.i}],
                       ItemEvent("output_item.added", e, "Text", 0))
    [] e.k = "Thinking" ->
         IF e.i \in w.think \/ Cardinality(w.think) >= MaxOpenTools THEN Nothing(w)
         ELSE Numbered([w EXCEPT !.think = @ \cup {e.i}],
                       ItemEvent("output_item.added", e, "Thinking", 0))
    [] e.k = "ToolUse" ->
         Numbered([w EXCEPT !.tools = IF Cardinality(@) < MaxOpenTools THEN @ \cup {e.i} ELSE @,
                            !.id = (e.i :> e.d) @@ w.id],
                  ItemEvent("output_item.added", e, "ToolUse", e.d))

ResponsesBlockDelta(w, e) ==
  CASE e.k \in {"Text", "Thinking"} ->
         IF e.d = 0 THEN Nothing(w)
         ELSE Numbered(Gather(w, e.i, <<e.d>>), ItemEvent("delta", e, e.k, e.d))
    [] e.k = "InputJson" -> Numbered(Gather(w, e.i, e.d), ItemEvent("delta", e, e.k, e.d))
    [] OTHER -> Nothing(w)

ResponsesBlockStop(w, e) ==
  LET k    == CASE e.i \in w.think -> "Thinking"
                [] e.i \notin w.think /\ e.i \in w.tools -> "ToolUse"
                [] OTHER -> "Text"
      item == [i |-> e.i, k |-> k, pieces |-> AccOf(w, e.i),
               d |-> IF k = "ToolUse" THEN w.id[e.i] ELSE 0]
  IN  IF e.i \notin w.think \cup w.tools \cup w.text THEN Nothing(w)
      ELSE Numbered([w EXCEPT !.think = IF k = "Thinking" THEN @ \ {e.i} ELSE @,
                              !.tools = IF k = "ToolUse" THEN @ \ {e.i} ELSE @,
                              !.text  = IF k = "Text" THEN @ \ {e.i} ELSE @,
                              !.acc   = Without(w.acc, e.i),
                              !.items = (e.i :> item) @@ w.items],
                    ItemEvent("output_item.done", e, k, item.d))

ResponsesTerminalEvent(w, status, e, output) ==
  Numbered([w EXCEPT !.items = IF status = "failed" THEN @ ELSE <<>>],
           [t |-> "terminal", status |-> status, n |-> 0, i |-> 0, refusal |-> 0,
            reason |-> IF status = "incomplete" THEN write_responses_incomplete_reason(e.stop) ELSE Nil,
            calls |-> \E x \in Range(output) : x.k = "ToolUse",
            usage |-> IF status = "failed" THEN NoUsage ELSE ToTotal(e.usage),
            output |-> output])

ResponsesWriter(w, e) ==
  LET order == SetToSortSeq(DOMAIN w.items, LAMBDA a, b : a < b)
  IN  CASE e.t = "MessageStart" -> Numbered(WriterState, [t |-> "response.created", n |-> 0])
        [] e.t = "BlockStart" -> ResponsesBlockStart(w, e)
        [] e.t = "BlockDelta" -> ResponsesBlockDelta(w, e)
        [] e.t = "BlockStop" -> ResponsesBlockStop(w, e)
        [] e.t = "MessageDelta" ->
             ResponsesTerminalEvent(w, write_responses_status(e.stop), e,
                                    [n \in 1..Len(order) |-> w.items[order[n]]])
        [] e.t = "Error" -> ResponsesTerminalEvent(w, "failed", e, <<>>)
        [] OTHER -> Nothing(w)

-----------------------------------------------------------------------------
write_response_event(p, w, e, include) ==
  CASE p = "openai"    -> OpenaiWriter(w, e, include)
    [] p = "anthropic" -> AnthropicWriter(w, e)
    [] p = "bedrock"   -> BedrockWriter(w, e)
    [] p = "cohere"    -> CohereWriter(w, e)
    [] p = "gemini"    -> GeminiWriter(w, e)
    [] p = "responses" -> ResponsesWriter(w, e)
=============================================================================
