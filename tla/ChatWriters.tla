----------------------------- MODULE ChatWriters -----------------------------
(***************************************************************************)
(* The six writers: the intermediate representation of a request into the  *)
(* dialect of an upstream, and of a whole answer into the dialect of the   *)
(* client.                                                                 *)
(***************************************************************************)
EXTENDS ChatReaders

-----------------------------------------------------------------------------
(* Messages.  Where a dialect keeps the system prompt apart the writer     *)
(* yields it in system, otherwise it leads the messages.                   *)

(* The image references a dialect can carry. *)
Carries(q) ==
  CASE q = "bedrock" -> {"base64", "s3"}
    [] q = "responses" -> {"url", "base64", "file"}
    [] OTHER -> {"url", "base64"}

Carried(q, blocks) == SelectSeq(blocks, LAMBDA b : Is({"image"}, b) => b.src \in Carries(q))

(* Text and images, without the cache marks these dialects do not have. *)
TextAndImages(q, m) == Each(Carried(q, Only(m.content, {"text", "image"})), Uncached)

Or(blocks, default) == IF blocks = <<>> THEN default ELSE blocks
EmptyText == <<Plain(<<>>)>>

(* A tool result in a dialect that only takes its text. *)
ToolMessage(b) == Wire("tool", <<Plain(Joined(b.content))>>, <<>>, b.id)

(* A message that carries tool results becomes one tool message for each,  *)
(* which must follow the calls directly, and then what else it says.       *)
WriteOpenaiMessage_ResultsLast(m) ==
  LET rest == Without(m.content, {"result"})
  IN  (IF rest = <<>> THEN <<>>
       ELSE <<Wire(m.role, TextAndImages("openai", m), Only(rest, {"use"}), Nil)>>)
        \o Each(Only(m.content, {"result"}), ToolMessage)

WriteOpenaiMessage(m) ==
  LET content == IF m.content = <<>> THEN EmptyText ELSE TextAndImages("openai", m)
      calls == Only(m.content, {"use"})
      results == Only(m.content, {"result"})
  IN  Each(results, ToolMessage)
        \o (IF results = <<>> \/ content # <<>> \/ calls # <<>>
            THEN <<Wire(m.role, content, calls, Nil)>> ELSE <<>>)

WriteOpenai(ir) ==
  Dialogue(<<>>,
    Each(ir.system, LAMBDA b : Wire("system", <<Plain(b.d)>>, <<>>, Nil))
      \o EachFlat(ir.messages, WriteOpenaiMessage))

(* Cohere puts the texts of a tool message that also has texts before the  *)
(* text of its first result.                                               *)
WriteCohereResults_ResultsOnly(m) == Each(Only(m.content, {"result"}), ToolMessage)

WriteCohereResults(m) ==
  LET content == TextAndImages("cohere", m)
      texts == Joined(m.content)
      results == Only(m.content, {"result"})
      Folded(i) == (IF i = 1 /\ m.role # "user" THEN texts ELSE <<>>) \o Joined(results[i].content)
  IN  [i \in DOMAIN results |-> Wire("tool", <<Plain(Folded(i))>>, <<>>, results[i].id)]
        \o (IF m.role = "user"
            THEN IF content = <<>> THEN <<>> ELSE <<Wire("user", content, <<>>, Nil)>>
            ELSE IF results = <<>> /\ Only(m.content, {"text"}) # <<>>
                 THEN <<Wire("tool", <<Plain(texts)>>, <<>>, Nil)>> ELSE <<>>)

WriteCohereMessage(m) ==
  IF m.role = "tool" \/ Only(m.content, {"result"}) # <<>> THEN WriteCohereResults(m)
  ELSE LET c == TextAndImages("cohere", m)
       IN  <<Wire(m.role, Only(c, {"text"}) \o Only(c, {"image"}),
                  IF m.role = "assistant" THEN Only(m.content, {"use"}) ELSE <<>>, Nil)>>

WriteCohere(ir) ==
  LET prompt == Joined(ir.system)
  IN  Dialogue(<<>>,
        (IF prompt = <<>> THEN <<>> ELSE <<Wire("system", <<Plain(prompt)>>, <<>>, Nil)>>)
          \o EachFlat(ir.messages, WriteCohereMessage))

(* Anthropic refuses thinking that carries no signature. *)
Sendable(b) == Is({"thinking"}, b) => (b.sig # Nil \/ b.redacted)

WriteAnthropicResult(b) ==
  IF Is({"result"}, b) THEN [b EXCEPT !.content = Without(b.content, {"json"})] ELSE b

write_message(m) ==
  Wire(IF m.role = "assistant" THEN "assistant" ELSE "user",
       Each(SelectSeq(Carried("anthropic", m.content), Sendable), WriteAnthropicResult), <<>>, Nil)

WriteAnthropic(ir) == Dialogue(ir.system, Each(ir.messages, write_message))

(* Bedrock marks a cache boundary with a block of its own. *)
WithCachePoint(b) ==
  IF Is({"text"}, b) /\ b.cc THEN <<Uncached(b), CachePoint>> ELSE <<b>>

WriteBedrockBlock(b) ==
  CASE b.k = "result" -> <<[b EXCEPT !.content = Each(Carried("bedrock", @), Uncached)]>>
    [] b.k = "json" -> <<>>
    [] OTHER -> WithCachePoint(b)

(* Converse wants the roles to alternate and every message to say something. *)
AppendMerged(out, w) ==
  IF out # <<>> /\ Last(out).role = w.role
  THEN [out EXCEPT ![Len(out)].content = @ \o w.content]
  ELSE Append(out, [w EXCEPT !.content = Or(@, EmptyText)])

WriteBedrock(ir) ==
  LET W(m) == Wire(IF m.role = "assistant" THEN "assistant" ELSE "user",
                   EachFlat(Carried("bedrock", m.content), WriteBedrockBlock), <<>>, Nil)
  IN  Dialogue(EachFlat(Only(ir.system, {"text"}), WithCachePoint),
                   FoldLeft(AppendMerged, <<>>, Each(ir.messages, W)))

(* Gemini names the function a result belongs to: the name is the one of   *)
(* the call with that id, wherever in the request it is.                   *)
UsesOf(messages) == Only(EachFlat(messages, LAMBDA m : m.content), {"use"})

tool_name_by_id(uses, id) ==
  IF \E i \in DOMAIN uses : uses[i].id = id
  THEN uses[CHOOSE i \in DOMAIN uses :
              uses[i].id = id /\ \A j \in DOMAIN uses : uses[j].id = id => j <= i].name
  ELSE IF id.t = "name" THEN id.name ELSE id

WriteGeminiPart(uses, b) ==
  CASE b.k = "use" -> <<FunctionCall(b.name, b.d)>>
    [] b.k = "result" ->
         <<FunctionResponse(tool_name_by_id(uses, b.id), <<Plain(Joined(b.content))>>)>>
    [] b.k = "thinking" -> IF b.redacted THEN <<>> ELSE <<b>>
    [] b.k = "json" -> <<>>
    [] OTHER -> <<Uncached(b)>>

WriteGemini(ir) ==
  LET uses == UsesOf(ir.messages)
      W(m) == Wire(IF m.role = "assistant" THEN "model" ELSE "user",
                   Or(EachFlat(Carried("gemini", m.content), LAMBDA b : WriteGeminiPart(uses, b)),
                      EmptyText), <<>>, Nil)
  IN  Dialogue(Each(Only(ir.system, {"text"}), Uncached), Each(ir.messages, W))

(* Responses: the reasoning of a message, what it says, its calls and      *)
(* results, each an item of its own.                                       *)
Told(b) == ~b.redacted /\ (b.d # <<>> \/ b.sig # Nil)

ToolItem(b) ==
  IF Is({"use"}, b) THEN Wire("function_call", <<>>, <<b>>, Nil)
  ELSE Wire("function_call_output", <<Plain(Joined(b.content))>>, <<>>, b.id)

ReasoningItem(b) == Wire("reasoning", <<b>>, <<>>, Nil)

ResponsesContent(m) == TextAndImages("responses", m)

WriteItems(m) ==
  LET content == ResponsesContent(m)
  IN  IF m.role = "tool" THEN Each(Only(m.content, {"result"}), ToolItem)
      ELSE Each(SelectSeq(Only(m.content, {"thinking"}), Told), ReasoningItem)
             \o (IF content = <<>> THEN <<>> ELSE <<Wire(m.role, content, <<>>, Nil)>>)
             \o Each(Only(m.content, {"use", "result"}), ToolItem)

WriteResponses(ir) ==
  LET prompt == Joined(ir.system)
  IN  Dialogue(IF prompt = <<>> THEN <<>> ELSE <<Plain(prompt)>>, EachFlat(ir.messages, WriteItems))

-----------------------------------------------------------------------------
(* Settings. *)

AtMost(n, cap) == IF n # Nil /\ n > cap THEN cap ELSE n

Written(talk, ir, settings) ==
  [system |-> talk.system, messages |-> talk.messages, max |-> ir.max, temp |-> ir.temp,
   n |-> Nil, tools |-> ir.tools, choice |-> ir.choice, reasoning |-> Nil,
   plain |-> ir.plain \cap settings]

(* The temperature, in units of 1.0, of the dialects that stop at one. *)
Clamped(t) == AtMost(t, 1)

(* A switch for the tools makes no sense without them. *)
WithTools(ir, settings) ==
  IF ir.tools = <<>> THEN settings \ {"parallel_tool_calls"} ELSE settings

WriteEffort(ask) ==
  IF ask = Nil THEN Nil ELSE Effort(as_openai_reasoning_effort(to_effort(ask)))

WriteOpenaiRequest(ir) ==
  [Written(WriteOpenai(ir), ir, WithTools(ir, OpenaiSettings)) EXCEPT
     !.n = ir.n, !.reasoning = WriteEffort(ir.reasoning)]

(* Anthropic's thinking budget has to leave one unit below max_tokens and  *)
(* be one unit at least, or the ask is dropped.                            *)
ThinkingBudget(ask, max) ==
  LET want == to_budget(ask)
      budget == IF max = Nil THEN want ELSE AtMost(want, IF max = 0 THEN 0 ELSE max - 1)
  IN  IF budget >= 1 THEN Budget(budget) ELSE Nil

AnthropicChoice(ir) ==
  IF ir.choice # Nil THEN ir.choice
  ELSE IF "parallel_tool_calls" \in ir.plain /\ ir.tools # <<>> THEN "auto"
  ELSE Nil

WriteAnthropicRequest(ir) ==
  LET think == IF ir.reasoning = Nil THEN Nil ELSE ThinkingBudget(ir.reasoning, ir.max)
      choice == AnthropicChoice(ir)
      out == [Written(WriteAnthropic(ir), ir, WithTools(ir, AnthropicSettings)) EXCEPT
                !.choice = choice, !.temp = Clamped(@)]
  IN  IF think = Nil THEN out
      ELSE [out EXCEPT !.reasoning = think, !.temp = Nil, !.plain = @ \ {"top_p", "top_k"},
                       !.choice = IF @ \in {"required", "tool"} THEN "auto" ELSE @]

write_bedrock_tool_choice(c) == IF c = "none" THEN Nil ELSE c

WriteBedrockRequest(ir) ==
  [Written(WriteBedrock(ir), ir, BedrockSettings) EXCEPT
     !.temp = Clamped(@),
     !.choice = IF ir.tools = <<>> THEN Nil ELSE write_bedrock_tool_choice(@)]

WriteCohereRequest(ir) ==
  [Written(WriteCohere(ir), ir, CohereSettings) EXCEPT
     !.temp = Clamped(@),
     !.choice = IF @ = "tool" THEN "required" ELSE IF @ = "auto" THEN Nil ELSE @]

WriteGeminiRequest(ir) ==
  [Written(WriteGemini(ir), ir, GeminiSettings) EXCEPT
     !.n = ir.n,
     !.reasoning = IF ir.reasoning \in {Nil, Dynamic} THEN ir.reasoning
                   ELSE Budget(to_budget(ir.reasoning))]

WriteResponsesRequest(ir) ==
  [Written(WriteResponses(ir), ir, ResponsesSettings) EXCEPT
     !.reasoning = WriteEffort(ir.reasoning)]

write_request(q, ir) ==
  CASE q = "openai" -> WriteOpenaiRequest(ir)       [] q = "anthropic" -> WriteAnthropicRequest(ir)
    [] q = "bedrock" -> WriteBedrockRequest(ir)     [] q = "cohere" -> WriteCohereRequest(ir)
    [] q = "gemini" -> WriteGeminiRequest(ir)       [] q = "responses" -> WriteResponsesRequest(ir)

-----------------------------------------------------------------------------
(* Whole answers, in the dialect of the client. *)

WireAnswer(content, calls, stop, usage) ==
  [content |-> content, calls |-> calls, stop |-> stop, usage |-> usage]

Texts(a) == Only(a.content, {"text"})
Calls(a) == Only(a.content, {"use"})

WriteOpenaiAnswer(a) ==
  WireAnswer(IF Texts(a) = <<>> THEN <<>> ELSE <<Plain(Joined(Texts(a)))>>, Calls(a),
             write_openai_stop_reason(a.stop), ToTotal(a.usage))

WriteAnthropicAnswer(a) ==
  WireAnswer(a.content, <<>>, write_anthropic_stop_reason(a.stop), a.usage)

WriteBedrockAnswer(a) ==
  WireAnswer(Or(SelectSeq(a.content, NonEmpty), EmptyText), <<>>,
             stop_reason_reverse(a.stop), a.usage)

WriteCohereAnswer(a) ==
  WireAnswer(Texts(a), Calls(a), write_cohere_stop_reason(a.stop), [a.usage EXCEPT !.cached = Nil])

WriteGeminiAnswer(a) ==
  WireAnswer(EachFlat(SelectSeq(a.content, NonEmpty), LAMBDA b : WriteGeminiPart(<<>>, b)), <<>>,
             write_gemini_stop_reason(a.stop), ToTotal(a.usage))

WriteResponsesAnswer(a) ==
  WireAnswer(SelectSeq(a.content, LAMBDA b : NonEmpty(b) /\ (Is({"thinking"}, b) => Told(b))), <<>>,
             IF write_responses_status(a.stop) = "completed" THEN "completed"
             ELSE write_responses_incomplete_reason(a.stop), ToTotal(a.usage))

write_response(p, a) ==
  CASE p = "openai" -> WriteOpenaiAnswer(a)       [] p = "anthropic" -> WriteAnthropicAnswer(a)
    [] p = "bedrock" -> WriteBedrockAnswer(a)     [] p = "cohere" -> WriteCohereAnswer(a)
    [] p = "gemini" -> WriteGeminiAnswer(a)       [] p = "responses" -> WriteResponsesAnswer(a)

-----------------------------------------------------------------------------
(* Both ways through the gateway.  A request to an upstream that speaks    *)
(* the client's dialect, and its answer, are relayed as they are.          *)

translate_request(p, q, lane, w) ==
  IF p = q THEN w ELSE write_request(q, prepare_for_egress(p, q, lane, read_request(p, w)))

translate_response(p, q, a) ==
  IF p = q THEN a
  ELSE LET ir == read_response(q, a)
       IN  write_response(p, [ir EXCEPT !.content = prepare_for_ingress(p, @)])
=============================================================================
