----------------------------- MODULE StreamPeers -----------------------------
(***************************************************************************)
(* The two peers of a relayed stream, which are not part of busbar: the    *)
(* upstream, which encodes one answer as the frames of its protocol, and   *)
(* the client, which decodes the frames of its own protocol back into an   *)
(* answer.  An answer is a sequence of blocks, a stop reason and a usage.  *)
(***************************************************************************)
EXTENDS StreamIR, SequencesExt

CONSTANT MaxBlocks      \* bound: blocks of an answer

Kinds == {"Thinking", "Text", "ToolUse"}

(* The answers a protocol can stream: Cohere has no reasoning and one text *)
(* block; OpenAI Chat and Gemini have one text field, reasoning first.     *)
Count(bs, k) == Cardinality({n \in DOMAIN bs : bs[n] = k})
Speaks(p, bs) ==
  CASE p = "cohere" -> Count(bs, "Thinking") = 0 /\ Count(bs, "Text") <= 1
    [] p \in {"openai", "gemini"} ->
         /\ \A n \in DOMAIN bs : bs[n] = "Thinking" => n = 1
         /\ Count(bs, "Text") <= 1
    [] OTHER -> TRUE

Answers(p) ==
  {[blocks |-> bs, stop |-> s] :
     bs \in {b \in UNION {[1..n -> Kinds] : n \in 0..MaxBlocks} : Speaks(p, b)},
     s \in {"EndTurn", "ToolUse", "MaxTokens"}}
HonestStop(a) == (a.stop = "ToolUse") => Count(a.blocks, "ToolUse") > 0
PlainStop(a)  == (a.stop = "EndTurn") => Count(a.blocks, "ToolUse") = 0

(* Every piece of an answer has a name of its own. *)
Piece(n, m) == 10 * n + m
CallId(n)   == n
(* Two calls of an answer may be of one function. *)
CallName(n) == 50 + (n % 2)
Args(n)     == <<Piece(n, 1), Piece(n, 2)>>
Reported    == Usage(5, 2, 3)
CallsBefore(bs, n) == Cardinality({m \in DOMAIN bs : m < n /\ bs[m] = "ToolUse"})

-----------------------------------------------------------------------------
(* The upstream: the frames of block n. *)

Tool(i, call, args) ==
  [OpenaiChunk EXCEPT !.tools = <<[i |-> i, id |-> call.id, name |-> call.name, args |-> args]>>]
Part(k, d, args)  == [GeminiChunk EXCEPT !.parts =
                        <<[k |-> k, d |-> d, sig |-> 0, args |-> args]>>]
Framed(t, i, k, d) == [t |-> t, i |-> i, k |-> k, d |-> d, n |-> 0]

BlockFrames(p, bs, n) ==
  LET k   == bs[n]
      i   == n - 1
      ord == CallsBefore(bs, n)
      pieces == IF k = "ToolUse" THEN << <<Piece(n, 1)>>, <<Piece(n, 2)>> >>
                ELSE IF k = "Text" THEN <<Piece(n, 1), Piece(n, 2)>> ELSE <<Piece(n, 1)>>
      dk  == IF k = "ToolUse" THEN "InputJson" ELSE k
      id  == IF k = "ToolUse" THEN Call(CallId(n), CallName(n)) ELSE 0
      deltas(t) == [m \in 1..Len(pieces) |-> Framed(t, i, dk, pieces[m])]
  IN  CASE p = "openai" /\ k = "Thinking" -> <<[OpenaiChunk EXCEPT !.reason = pieces[1]]>>
        [] p = "openai" /\ k = "Text" ->
             <<[OpenaiChunk EXCEPT !.text = pieces[1]],
               [OpenaiChunk EXCEPT !.text = pieces[2], !.lp = TRUE]>>
        [] p = "openai" /\ k = "ToolUse" ->
             <<Tool(ord, id, pieces[1]), Tool(ord, Call(0, 0), pieces[2])>>
        [] p = "anthropic" ->
             <<Framed("content_block_start", i, k, id)>> \o deltas("content_block_delta")
             \o <<[t |-> "content_block_stop", i |-> i]>>
        [] p = "bedrock" ->
             (IF k = "ToolUse" THEN <<Framed("contentBlockStart", i, k, id)>> ELSE <<>>)
             \o deltas("contentBlockDelta") \o <<[t |-> "contentBlockStop", i |-> i]>>
        [] p = "cohere" /\ k = "Text" ->
             <<[t |-> "content-start", i |-> i]>>
             \o [m \in 1..2 |-> [t |-> "content-delta", i |-> i, d |-> pieces[m]]]
             \o <<[t |-> "content-end", i |-> i]>>
        [] p = "cohere" /\ k = "ToolUse" ->
             <<[t |-> "tool-call-start", i |-> ord, d |-> id, args |-> pieces[1]],
               [t |-> "tool-call-delta", i |-> ord, d |-> pieces[2]],
               [t |-> "tool-call-end", i |-> ord]>>
        [] p = "gemini" ->
             IF k = "ToolUse" THEN <<Part("call", CallName(n), Args(n))>>
             ELSE [m \in 1..Len(pieces) |->
                     Part(IF k = "Text" THEN "text" ELSE "thought", pieces[m], <<>>)]
        [] p = "responses" ->
             <<Framed("output_item.added", i, k, id)>> \o deltas("delta")
             \o (IF k = "Text" THEN <<Framed("content_part.done", i, k, id)>> ELSE <<>>)
             \o <<Framed("output_item.done", i, k, id)>>

(* Block n, complete. *)
Whole(bs, n) ==
  [i |-> n - 1, k |-> bs[n], d |-> IF bs[n] = "ToolUse" THEN Call(CallId(n), CallName(n)) ELSE 0,
   pieces |-> IF bs[n] = "Thinking" THEN <<Piece(n, 1)>> ELSE Args(n)]

HeadFrames(p) ==
  CASE p = "openai"    -> <<OpenaiChunk>>
    [] p = "anthropic" -> <<[t |-> "message_start", usage |-> Usage(Reported.inp, Reported.cached, 1)]>>
    [] p = "bedrock"   -> <<[t |-> "messageStart"]>>
    [] p = "cohere"    -> <<[t |-> "message-start"]>>
    [] p = "gemini"    -> <<>>
    [] p = "responses" -> <<[t |-> "response.created", n |-> 0], [t |-> "response.in_progress", n |-> 0]>>

(* How OpenAI reports usage: on the finish chunk, on a chunk of its own    *)
(* after it, or not at all.                                                *)
UsageStyles(p) == IF p = "openai" THEN {"inline", "late", "none"} ELSE {"inline"}

TailFrames(p, a, style) ==
  LET total == ToTotal(Reported)
  IN  CASE p = "openai" ->
             <<[OpenaiChunk EXCEPT !.finish = write_openai_stop_reason(a.stop),
                                   !.usage = IF style = "inline" THEN total ELSE Nil]>>
             \o (IF style = "late" THEN <<[OpenaiChunk EXCEPT !.choices = FALSE, !.usage = total]>>
                 ELSE <<>>)
             \o <<[OpenaiChunk EXCEPT !.done = TRUE]>>
        [] p = "anthropic" ->
             <<[t |-> "message_delta", stop |-> write_anthropic_stop_reason(a.stop),
                usage |-> Usage(0, Nil, Reported.outp)], [t |-> "message_stop"]>>
        [] p = "bedrock" ->
             <<[t |-> "messageStop", stop |-> stop_reason_reverse(a.stop)],
               [t |-> "metadata", usage |-> Reported]>>
        [] p = "cohere" ->
             <<[t |-> "message-end", stop |-> write_cohere_stop_reason(a.stop), usage |-> Reported]>>
        [] p = "gemini" ->
             <<[GeminiChunk EXCEPT !.finish = write_gemini_stop_reason(a.stop), !.usage = total]>>
        [] p = "responses" ->
             <<[t |-> "terminal", status |-> write_responses_status(a.stop), i |-> 0, refusal |-> 0,
                reason |-> IF write_responses_status(a.stop) = "incomplete"
                           THEN write_responses_incomplete_reason(a.stop) ELSE Nil,
                calls |-> Count(a.blocks, "ToolUse") > 0, usage |-> total, n |-> 0,
                output |-> [m \in DOMAIN a.blocks |-> Whole(a.blocks, m)]]>>

ErrorFrame(p) ==
  CASE p = "openai"    -> [OpenaiChunk EXCEPT !.error = TRUE, !.choices = FALSE]
    [] p = "anthropic" -> [t |-> "error"]
    [] p = "bedrock"   -> [t |-> "exception"]
    [] p = "cohere"    -> [t |-> "message-end", stop |-> "ERROR", usage |-> NoUsage]
    [] p = "gemini"    -> [GeminiChunk EXCEPT !.error = TRUE]
    [] p = "responses" -> [t |-> "terminal", status |-> "failed", i |-> 0, refusal |-> 0,
                           reason |-> Nil, calls |-> FALSE, usage |-> NoUsage, n |-> 0,
                           output |-> <<>>]

(* What the upstream says of its usage, in the IR's terms. *)
ReportedBy(p, style) ==
  CASE p = "cohere" -> Usage(Reported.inp, Nil, Reported.outp)
    [] p = "openai" /\ style = "none" -> NoUsage
    [] OTHER -> Reported

-----------------------------------------------------------------------------
(* The client.  blk holds the blocks by index in the order they opened;    *)
(* ok becomes FALSE at the first frame the protocol does not allow there;  *)
(* beside holds, for every block that opened while another was open, the   *)
(* kinds of the two.                                                       *)

EmptyView == [blk |-> <<>>, order |-> <<>>, stop |-> Nil, usage |-> Nil,
              started |-> FALSE, ends |-> 0, errs |-> 0, seq |-> 0,
              numbered |-> TRUE, beside |-> {}, ok |-> TRUE]

Check(v, cond) == [v EXCEPT !.ok = v.ok /\ cond]

Begin(v) == [Check(v, ~v.started) EXCEPT !.started = TRUE]
Open(v, i, k, d) ==
  [Check(v, v.started /\ i \notin DOMAIN v.blk /\ v.stop = Nil /\ v.ends = 0) EXCEPT
     !.blk = (i :> [k |-> k, d |-> d, pieces |-> <<>>, open |-> TRUE]) @@ v.blk,
     !.order = Append(v.order, i),
     !.beside = @ \cup {<<v.blk[j].k, k>> : j \in {x \in DOMAIN v.blk : v.blk[x].open}}]
Fill(v, i, k, pieces) ==
  LET fits == i \in DOMAIN v.blk /\ v.blk[i].open /\ v.blk[i].k = k /\ v.stop = Nil
  IN  IF fits THEN [v EXCEPT !.blk[i].pieces = v.blk[i].pieces \o pieces]
      ELSE Check(v, FALSE)
Close(v, i) ==
  IF i \in DOMAIN v.blk /\ v.blk[i].open THEN [v EXCEPT !.blk[i].open = FALSE]
  ELSE Check(v, FALSE)
(* A protocol without block frames: the block is there once it has text. *)
Loose(v, i, k, pieces) ==
  Fill(IF i \in DOMAIN v.blk THEN v ELSE Open(v, i, k, 0), i, k, pieces)
AllClosed(v) == \A i \in DOMAIN v.blk : ~v.blk[i].open
Stops(v, stop, u) == [Check(v, v.started /\ v.stop = Nil) EXCEPT !.stop = stop, !.usage = u]
Ends(v) == [Check(v, v.ends = 0) EXCEPT !.ends = v.ends + 1]
Fails(v) == [Check(v, v.errs = 0) EXCEPT !.errs = v.errs + 1]

DeltaKind(k) == IF k = "InputJson" THEN "ToolUse" ELSE IF k = "Signature" THEN "Thinking" ELSE k
DeltaPieces(k, d) == IF k = "InputJson" THEN d ELSE <<d>>
HasCall(v) == \E i \in DOMAIN v.blk : v.blk[i].k = "ToolUse"

OpenaiClient(v, f) ==
  LET text == IF f.text = 0 THEN v ELSE Loose(v, 100, "Text", <<f.text>>)
      tool == IF f.tools = <<>> THEN text
              ELSE LET tc == f.tools[1]
                       o  == IF tc.name = 0 THEN text
                             ELSE Check(Open(text, tc.i, "ToolUse", Call(tc.id, tc.name)),
                                        tc.i = Cardinality(DOMAIN text.blk \ {100}))
                   IN  Fill(o, tc.i, "ToolUse", tc.args)
  IN  CASE f.done -> Ends(v)
        [] f.error -> Fails(v)
        [] ~f.done /\ ~f.error /\ ~f.choices -> [v EXCEPT !.usage = f.usage]
        [] ~f.done /\ ~f.error /\ f.finish # Nil -> Stops(v, read_openai_stop_reason(f.finish), f.usage)
        [] ~v.started /\ f = OpenaiChunk -> Begin(v)
        [] OTHER -> tool

AnthropicClient(v, f) ==
  CASE f.t = "message_start" -> Begin(v)
    [] f.t = "content_block_start" -> Open(v, f.i, f.k, f.d)
    [] f.t = "content_block_delta" -> Fill(v, f.i, DeltaKind(f.k), DeltaPieces(f.k, f.d))
    [] f.t = "content_block_stop" -> Close(v, f.i)
    [] f.t = "message_delta" ->
         Stops(Check(v, AllClosed(v)), read_anthropic_stop_reason(f.stop), f.usage)
    [] f.t = "message_stop" -> Ends(v)
    [] f.t = "error" -> Fails(v)

BedrockClient(v, f) ==
  CASE f.t = "messageStart" -> Begin(v)
    [] f.t = "contentBlockStart" -> Open(v, f.i, f.k, f.d)
    [] f.t = "contentBlockDelta" ->
         (IF f.k = "InputJson" THEN Fill(v, f.i, "ToolUse", f.d)
          ELSE Loose(v, f.i, DeltaKind(f.k), <<f.d>>))
    [] f.t = "contentBlockStop" -> Close(v, f.i)
    [] f.t = "messageStop" -> Stops(Check(v, AllClosed(v)), stop_reason_map(f.stop), Nil)
    [] f.t = "metadata" -> [Ends(Check(v, v.stop # Nil)) EXCEPT !.usage = f.usage]
    [] f.t = "exception" -> Fails(v)

CohereClient(v, f) ==
  CASE f.t = "message-start" -> Begin(v)
    [] f.t = "content-start" -> Open(v, 100 + f.i, "Text", 0)
    [] f.t = "content-delta" -> Fill(v, 100 + f.i, "Text", <<f.d>>)
    [] f.t = "content-end" -> Close(v, 100 + f.i)
    [] f.t = "tool-call-start" -> Fill(Open(v, f.i, "ToolUse", f.d), f.i, "ToolUse", f.args)
    [] f.t = "tool-call-delta" -> Fill(v, f.i, "ToolUse", f.d)
    [] f.t = "tool-call-end" -> Close(v, f.i)
    [] f.t = "message-end" ->
         IF f.stop = "ERROR" THEN Fails(v)
         ELSE Ends(Stops(Check(v, AllClosed(v)), read_cohere_stop_reason(f.stop), f.usage))

GeminiClient(v, f) ==
  LET b  == IF v.started THEN v ELSE Begin(v)
      nx == Len(v.order)
      pt == IF f.parts = <<>> THEN b
            ELSE LET x == f.parts[1]
                 IN  CASE x.k = "call" -> Close(Fill(Open(b, nx, "ToolUse", Call(0, x.d)), nx, "ToolUse", x.args), nx)
                       [] x.k = "text" -> Loose(b, 100, "Text", <<x.d>>)
                       [] x.k = "thought" -> Loose(b, 101, "Thinking", <<x.d>>)
      st == map_gemini_finish_reason(f.finish)
  IN  IF f.error THEN Fails(b)
      ELSE IF f.finish = Nil THEN pt
      ELSE Ends(Stops(b, IF st = "EndTurn" /\ HasCall(b) THEN "ToolUse" ELSE st, f.usage))

ResponsesClient(v0, f) ==
  LET v == [v0 EXCEPT !.numbered = v0.numbered /\ f.n = v0.seq, !.seq = v0.seq + 1]
      listed == [m \in 1..Len(f.output) |-> <<f.output[m].k, f.output[m].d, f.output[m].pieces>>]
      held   == LET s == SetToSortSeq(DOMAIN v.blk, LAMBDA a, b : a < b)
                IN  [m \in 1..Len(s) |-> <<v.blk[s[m]].k, v.blk[s[m]].d, v.blk[s[m]].pieces>>]
      st == IF f.status = "incomplete" THEN read_responses_incomplete_reason(f.reason) ELSE "EndTurn"
  IN  CASE f.t = "response.created" -> Begin(v)
        [] f.t \in {"response.in_progress", "content_part.done"} -> v
        [] f.t = "output_item.added" -> Open(v, f.i, f.k, f.d)
        [] f.t = "delta" -> Fill(v, f.i, DeltaKind(f.k), DeltaPieces(f.k, f.d))
        [] f.t = "output_item.done" -> Close(v, f.i)
        [] f.t = "terminal" /\ f.status = "failed" -> Fails(v)
        [] f.t = "terminal" /\ f.status # "failed" ->
             Ends(Stops(Check(v, AllClosed(v) /\ listed = held),
                        IF st = "EndTurn" /\ HasCall(v) THEN "ToolUse" ELSE st, f.usage))

ClientStep(p, v, f) ==
  CASE p = "openai"    -> OpenaiClient(v, f)
    [] p = "anthropic" -> AnthropicClient(v, f)
    [] p = "bedrock"   -> BedrockClient(v, f)
    [] p = "cohere"    -> CohereClient(v, f)
    [] p = "gemini"    -> GeminiClient(v, f)
    [] p = "responses" -> ResponsesClient(v, f)
=============================================================================
