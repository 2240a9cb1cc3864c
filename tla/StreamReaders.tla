---------------------------- MODULE StreamReaders ----------------------------
(***************************************************************************)
(* read_response_events of the six protocols: one wire chunk of the        *)
(* upstream and the reader's state in, IR events and the next state out.   *)
(* A reader whose protocol has no block boundaries (OpenAI Chat, Gemini)   *)
(* makes them up: it decides when a block opens, which index it gets and   *)
(* when it closes.                                                         *)
(***************************************************************************)
EXTENDS StreamIR, SequencesExt

Offset(s)    == IF s.reasoning THEN 1 ELSE 0
TextBase(s)  == IF s.textIndex # Nil THEN 1 ELSE 0
OpenCount(s) == Cardinality(DOMAIN s.tools)
TextSlot(s)  == IF s.textIndex # Nil THEN s.textIndex ELSE Offset(s) + OpenCount(s)

Track(s, key, i) == [s EXCEPT !.tools = (key :> i) @@ s.tools]

CloseThinking(r) ==
  IF r.s.thinkingOpen
  THEN Emit([r EXCEPT !.s.thinkingOpen = FALSE], BlockStop(0)) ELSE r

(* Open the text block, closing the reasoning block that precedes it. *)
OpenText(r, i) ==
  IF r.s.textOpen THEN r
  ELSE Emit([r EXCEPT !.s.textOpen = TRUE, !.s.textIndex = i], BlockStart(i, "Text", 0))
IntoText(r) == OpenText(CloseThinking(r), TextSlot(r.s))

(* A delta of the text block, which opens it if need be. *)
InText(r, k, d) == Emit(r, BlockDelta(r.s.textIndex, k, d))
TextDelta(r, k, d) == InText(IntoText(r), k, d)

(* Reasoning counts only before the answer begins: it owns index 0. *)
IntoThinking(r) ==
  LET c == [r EXCEPT !.s.reasoning = TRUE]
  IN  IF c.s.thinkingOpen THEN c
      ELSE Emit([c EXCEPT !.s.thinkingOpen = TRUE], BlockStart(0, "Thinking", 0))
BeforeAnswer(s) == ~s.textOpen /\ s.tools = <<>>

(* Close every tracked tool block, in the order of its key. *)
CloseTools(r) ==
  LET order == SetToSortSeq(DOMAIN r.s.tools, LAMBDA a, b : a < b)
  IN  [s  |-> [r.s EXCEPT !.tools = <<>>],
       ev |-> r.ev \o [n \in 1..Len(order) |-> BlockStop(r.s.tools[order[n]])]]

StartOnce(r, u) ==
  IF r.s.started THEN r
  ELSE Emit([r EXCEPT !.s.started = TRUE], MessageStart(u))

-----------------------------------------------------------------------------
(* OpenAI Chat Completions.  A chunk carries any of: a piece of reasoning, *)
(* of text, log probabilities, tool-call fragments, the finish reason and  *)
(* a usage object; the trailing usage chunk has no choices.                *)

OpenaiReasoning(r, c) ==
  IF c.reason = 0 \/ ~BeforeAnswer(r.s) THEN r
  ELSE Emit(IntoThinking(r), BlockDelta(0, "Thinking", c.reason))

LogprobsIn(r, c) == IF c.lp THEN TextDelta(r, "Logprobs", 0) ELSE r
OpenaiText(r, c) ==
  LogprobsIn(IF c.text = 0 THEN r ELSE TextDelta(r, "Text", c.text), c)

OpenaiArguments(r, tc) ==
  IF tc.args # <<>> /\ tc.i \in DOMAIN r.s.tools
  THEN Emit(r, BlockDelta(r.s.tools[tc.i], "InputJson", tc.args)) ELSE r

OpenaiToolCall(r, tc) ==
  LET i     == tc.i + TextBase(r.s) + Offset(r.s)
      fresh == tc.name # 0 /\ tc.i \notin DOMAIN r.s.tools /\ OpenCount(r.s) < MaxOpenTools
  IN  OpenaiArguments(
        IF fresh THEN Emit([r EXCEPT !.s = Track(r.s, tc.i, i)], BlockStart(i, "ToolUse", Call(tc.id, tc.name)))
        ELSE r, tc)

OpenaiTools(r, c) ==
  IF c.tools = <<>> THEN r
  ELSE FoldLeft(OpenaiToolCall, CloseThinking(r), c.tools)

(* The index the text block closes with is the one pinned when it opened. *)
CloseText(r, keepIndex) ==
  IF ~r.s.textOpen THEN r
  ELSE Emit([r EXCEPT !.s.textOpen = FALSE,
                      !.s.textIndex = IF keepIndex THEN r.s.textIndex ELSE Nil],
            BlockStop(r.s.textIndex))

OpenaiFinish(r, c) ==
  LET u == IF c.usage = Nil THEN NoUsage ELSE FromTotal(c.usage)
      z == CloseTools(CloseText(CloseThinking(r), TRUE))
  IN  CASE c.finish # Nil ->
             Emit(Emit(z, MessageDelta(read_openai_stop_reason(c.finish), u)), MessageStop)
        [] c.finish = Nil /\ c.usage # Nil /\ ~c.choices -> Emit(r, MessageDelta(Nil, u))
        [] OTHER -> r

OpenaiReader(s, c) ==
  OpenaiFinish(OpenaiTools(OpenaiText(OpenaiReasoning(
    StartOnce(Reading(s), Nil), c), c), c), c)

-----------------------------------------------------------------------------
(* Anthropic: one event, one IR event; nothing is remembered.              *)

AnthropicReader(s, c) ==
  LET r == Reading(s)
  IN  CASE c.t = "message_start" -> Emit(r, MessageStart(c.usage))
        [] c.t = "content_block_start" /\ c.k = "Redacted" ->
             Emit(Emit(r, BlockStart(c.i, "Thinking", 0)), BlockDelta(c.i, "Redacted", c.d))
        [] c.t = "content_block_start" /\ c.k \in {"Text", "Thinking", "ToolUse"} ->
             Emit(r, BlockStart(c.i, c.k, c.d))
        [] c.t = "content_block_delta" -> Emit(r, BlockDelta(c.i, c.k, c.d))
        [] c.t = "content_block_stop" -> Emit(r, BlockStop(c.i))
        [] c.t = "message_delta" ->
             Emit(r, MessageDelta(IF c.stop = Nil THEN Nil
                                  ELSE read_anthropic_stop_reason(c.stop), c.usage))
        [] c.t = "message_stop" -> Emit(r, MessageStop)
        [] c.t = "error" -> Emit(r, Error)
        [] OTHER -> r

-----------------------------------------------------------------------------
(* Bedrock ConverseStream.  A start frame is optional for text and         *)
(* reasoning; the stop reason waits for the usage in the metadata frame.   *)

BedrockOpen(r, c, k, flag) ==
  IF ~r.s.started \/ r.s[flag] THEN r
  ELSE Emit([r EXCEPT !.s[flag] = TRUE], BlockStart(c.i, k, 0))

BedrockBlockStart(r, c) ==
  CASE c.k = "ToolUse"  -> IF r.s.started THEN Emit(r, BlockStart(c.i, "ToolUse", c.d)) ELSE r
    [] c.k = "Thinking" -> BedrockOpen(r, c, "Thinking", "thinkingOpen")
    [] c.k = "Text"     -> BedrockOpen(r, c, "Text", "textOpen")

BedrockBlockDelta(r, c) ==
  CASE c.k = "Text" ->
         Emit(BedrockOpen(r, c, "Text", "textOpen"), BlockDelta(c.i, "Text", c.d))
    [] c.k = "InputJson" -> Emit(r, BlockDelta(c.i, "InputJson", c.d))
    [] c.k \in {"Thinking", "Signature", "Redacted"} ->
         LET o == BedrockOpen(r, c, "Thinking", "thinkingOpen")
         IN  IF o.s.thinkingOpen THEN Emit(o, BlockDelta(c.i, c.k, c.d)) ELSE o

BedrockReader(s, c) ==
  LET r == Reading(s)
  IN  CASE c.t = "messageStart" -> StartOnce(r, Nil)
        [] c.t = "contentBlockStart" -> BedrockBlockStart(r, c)
        [] c.t = "contentBlockDelta" -> BedrockBlockDelta(r, c)
        [] c.t = "contentBlockStop" ->
             Emit([r EXCEPT !.s.textOpen = FALSE, !.s.thinkingOpen = FALSE], BlockStop(c.i))
        [] c.t = "messageStop" ->
             [r EXCEPT !.s.pendingStop = IF c.stop = Nil THEN Nil ELSE stop_reason_map(c.stop)]
        [] c.t = "metadata" ->
             Emit(Emit([r EXCEPT !.s.pendingStop = Nil],
                       MessageDelta(s.pendingStop, c.usage)), MessageStop)
        [] c.t = "exception" -> Emit(r, Error)
        [] OTHER -> r

-----------------------------------------------------------------------------
(* Cohere v2.  The text block may open once; a tool call closes it.  Tool  *)
(* frames carry an index of their own, which is mapped to an IR index the  *)
(* first time it is seen.                                                  *)

CohereOpenText(r) ==
  LET ti == IF r.s.textIndex # Nil THEN r.s.textIndex ELSE OpenCount(r.s)
      c  == [r EXCEPT !.s.textIndex = ti]
  IN  IF r.s.textOpen THEN c
      ELSE Emit([c EXCEPT !.s.textOpen = TRUE], BlockStart(ti, "Text", 0))

CohereCloseText(r) ==
  IF ~r.s.textOpen THEN r
  ELSE Emit([r EXCEPT !.s.textOpen = FALSE, !.s.textClosed = TRUE],
            BlockStop(r.s.textIndex))

CohereTextPiece(r, c) ==
  LET o == CohereOpenText(r)
  IN  IF c.d = 0 THEN o ELSE Emit(o, BlockDelta(o.s.textIndex, "Text", c.d))

cohere_assign_tool_ir_index(r, c) ==
  LET i == TextBase(r.s) + OpenCount(r.s)
  IN  IF c.i \in DOMAIN r.s.tools \/ OpenCount(r.s) >= MaxOpenTools THEN r
      ELSE LET o == Emit([r EXCEPT !.s = Track(r.s, c.i, i)], BlockStart(i, "ToolUse", c.d))
           IN  IF c.args = <<>> THEN o ELSE Emit(o, BlockDelta(i, "InputJson", c.args))

CohereReader(s, c) ==
  LET r     == Reading(s)
      known == c.t \in {"tool-call-delta", "tool-call-end"} /\ c.i \in DOMAIN s.tools
  IN  CASE c.t = "message-start" -> StartOnce(r, Nil)
        [] c.t = "content-start" /\ ~s.textClosed -> CohereOpenText(r)
        [] c.t \in {"content-delta", "tool-plan-delta"} /\ ~s.textClosed -> CohereTextPiece(r, c)
        [] c.t = "content-end" -> CohereCloseText(r)
        [] c.t = "tool-call-start" -> cohere_assign_tool_ir_index(CohereCloseText(r), c)
        [] c.t = "tool-call-delta" /\ known -> Emit(r, BlockDelta(s.tools[c.i], "InputJson", c.d))
        [] c.t = "tool-call-end" /\ known -> Emit(r, BlockStop(s.tools[c.i]))
        [] c.t = "message-end" ->
             Emit(Emit(CohereCloseText(r),
                       MessageDelta(IF c.stop = Nil THEN Nil ELSE read_cohere_stop_reason(c.stop),
                                    Usage(c.usage.inp, Nil, c.usage.outp))), MessageStop)
        [] OTHER -> r

-----------------------------------------------------------------------------
(* Gemini.  A chunk is an error, a blocked prompt, or a candidate with     *)
(* parts, citations, log probabilities and perhaps the finish reason.  A   *)
(* call has a name and no id: one is made of its position and its name.    *)

synth_tool_call_id(pos, name) == 100 * (pos + 1) + name

GeminiPart(r, part) ==
  CASE part.k = "thought" ->
         IF part.d = 0 \/ ~BeforeAnswer(r.s) THEN r
         ELSE LET o == Emit(IntoThinking(r), BlockDelta(0, "Thinking", part.d))
              IN  IF part.sig = 0 THEN o ELSE Emit(o, BlockDelta(0, "Signature", part.sig))
    [] part.k = "text" ->
         IF part.d = 0 THEN r
         ELSE TextDelta(r, "Text", part.d)
    [] part.k = "call" ->
         LET i == Offset(r.s) + TextBase(r.s) + OpenCount(r.s)
         IN  IF OpenCount(r.s) >= MaxOpenTools THEN r
             ELSE Emit(Emit([r EXCEPT !.s = Track(r.s, i, i)],
                            BlockStart(i, "ToolUse",
                                       Call(synth_tool_call_id(i - TextBase(r.s), part.d), part.d))),
                       BlockDelta(i, "InputJson", part.args))

GeminiSide(r, c) ==
  LogprobsIn(IF c.cite = 0 THEN r ELSE TextDelta(r, "Citations", c.cite), c)

GeminiTerminal(r, stop, c) ==
  Emit(Emit(CloseTools(CloseText(CloseThinking(r), FALSE)),
            MessageDelta(stop, FromTotal(c.usage))), MessageStop)

GeminiFinish(r, c) ==
  LET stop == map_gemini_finish_reason(c.finish)
  IN  IF c.finish = Nil THEN r
      ELSE GeminiTerminal(r, IF stop = "EndTurn" /\ r.s.tools # <<>> THEN "ToolUse" ELSE stop, c)

GeminiReader(s, c) ==
  LET r == StartOnce(Reading(s), Nil)
  IN  CASE c.error -> Emit(Reading(s), Error)
        [] ~c.error /\ c.blocked # Nil -> GeminiTerminal(r, c.blocked, c)
        [] OTHER -> GeminiFinish(GeminiSide(FoldLeft(GeminiPart, r, c.parts), c), c)

-----------------------------------------------------------------------------
(* OpenAI Responses.  Items are named by their output index; one set holds *)
(* the open items, text under a key of its own.                            *)

ItemKey(i) == 2 * i
TextKey(i) == 2 * i + 1
ItemOpen(s, i) == {ItemKey(i), TextKey(i)} \cap DOMAIN s.tools # {}
Room(s) == OpenCount(s) < MaxOpenTools

ResponsesItemAdded(r, c) ==
  IF c.k = "Text" \/ ItemOpen(r.s, c.i) \/ ~Room(r.s) THEN r
  ELSE Emit([r EXCEPT !.s = Track(r.s, ItemKey(c.i), c.i)], BlockStart(c.i, c.k, c.d))

ResponsesDelta(r, c) ==
  CASE c.k = "Thinking" ->
         IF ~ItemOpen(r.s, c.i) /\ ~Room(r.s) THEN r
         ELSE LET o == IF ItemOpen(r.s, c.i) THEN r
                       ELSE Emit([r EXCEPT !.s = Track(r.s, ItemKey(c.i), c.i)],
                                 BlockStart(c.i, "Thinking", 0))
              IN  Emit(o, BlockDelta(c.i, "Thinking", c.d))
    [] c.k = "Text" ->
         IF \/ ItemKey(c.i) \in DOMAIN r.s.tools
            \/ TextKey(c.i) \notin DOMAIN r.s.tools /\ ~Room(r.s) THEN r
         ELSE LET o == IF TextKey(c.i) \in DOMAIN r.s.tools THEN r
                       ELSE Emit([r EXCEPT !.s = Track(r.s, TextKey(c.i), c.i)],
                                 BlockStart(c.i, "Text", 0))
              IN  Emit(o, BlockDelta(c.i, "Text", c.d))
    [] c.k = "InputJson" ->
         IF ItemKey(c.i) \in DOMAIN r.s.tools
         THEN Emit(r, BlockDelta(c.i, "InputJson", c.d)) ELSE r

ResponsesItemDone(r, c) ==
  LET key == IF ItemKey(c.i) \in DOMAIN r.s.tools THEN ItemKey(c.i) ELSE TextKey(c.i)
  IN  IF ~ItemOpen(r.s, c.i) THEN r
      ELSE Emit([r EXCEPT !.s.tools = [k \in DOMAIN r.s.tools \ {key} |-> r.s.tools[k]]],
                BlockStop(c.i))

(* A refusal is only in the terminal event's output: it is read there. *)
ResponsesRefusal(r, c) ==
  IF c.refusal = 0 \/ ItemOpen(r.s, c.i) \/ ~Room(r.s) THEN r
  ELSE Emit(Emit([r EXCEPT !.s = Track(r.s, TextKey(c.i), c.i)],
                 BlockStart(c.i, "Text", 0)), BlockDelta(c.i, "Text", c.refusal))

ResponsesTerminal(r, c) ==
  LET first == IF c.status = "incomplete"
               THEN (IF c.reason = Nil THEN Nil ELSE read_responses_incomplete_reason(c.reason))
               ELSE "EndTurn"
      stop  == CASE first = "EndTurn" /\ c.calls -> "ToolUse"
                 [] first = "EndTurn" /\ ~c.calls /\ c.refusal # 0 -> "Refusal"
                 [] OTHER -> first
  IN  IF c.status = "failed"
      THEN Emit(CloseTools(Emit(r, Error)), MessageStop)
      ELSE Emit(Emit(CloseTools(ResponsesRefusal(r, c)),
                     MessageDelta(stop, FromTotal(c.usage))), MessageStop)

ResponsesReader(s, c) ==
  LET r == Reading(s)
  IN  CASE c.t \in {"response.created", "response.in_progress"} -> StartOnce(r, Nil)
        [] c.t = "output_item.added" -> ResponsesItemAdded(r, c)
        [] c.t = "delta" -> ResponsesDelta(r, c)
        [] c.t \in {"output_item.done", "content_part.done"} -> ResponsesItemDone(r, c)
        [] c.t = "terminal" -> ResponsesTerminal(r, c)
        [] OTHER -> r

-----------------------------------------------------------------------------
read_response_events(p, s, c) ==
  CASE p = "openai"    -> OpenaiReader(s, c)
    [] p = "anthropic" -> AnthropicReader(s, c)
    [] p = "bedrock"   -> BedrockReader(s, c)
    [] p = "cohere"    -> CohereReader(s, c)
    [] p = "gemini"    -> GeminiReader(s, c)
    [] p = "responses" -> ResponsesReader(s, c)
=============================================================================
