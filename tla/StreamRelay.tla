----------------------------- MODULE StreamRelay -----------------------------
(***************************************************************************)
(* One streamed answer on its way from the upstream to the client: the     *)
(* translator (StreamTranslate) and the response body around it            *)
(* (FirstByteBody), which settles the lane's breaker, the permit, the      *)
(* budget and the bill when the stream ends, in whichever way it ends.     *)
(* Between any two frames the upstream may report an error, send bytes     *)
(* that cannot be framed, break the connection or close it early, and the  *)
(* client may go away.                                                     *)
(***************************************************************************)
EXTENDS StreamReaders, StreamWriters, StreamPeers

CONSTANT Routes     \* the (ingress, egress) pairs with their request options

VARIABLES
  route,    \* [ingress, egress, mode, include, array, spent]; fixed
  answer,   \* what the upstream is about to say, and how it reports usage; fixed
  sent,     \* the upstream's progress: frames of the head, of each block, of the tail
  fault,    \* what went wrong upstream: "none", "error", "garbage", "cut" or "early"
  tr,       \* StreamTranslate
  wr,       \* the ingress writer and its StreamFraming
  body,     \* FirstByteBody
  view      \* the answer as the client has decoded it

vars == <<route, answer, sent, fault, tr, wr, body, view>>

(* mode is "cross" (translated), "same" (relayed verbatim, tapped for      *)
(* usage) or "plain" (a body that is not a stream, relayed verbatim).      *)
RouteRecords ==
  [ingress : Protocols, egress : Protocols, mode : {"cross", "same", "plain"},
   include : BOOLEAN, array : BOOLEAN, spent : BOOLEAN]

ASSUME StreamRelayAssumption ==
  /\ Routes \subseteq RouteRecords
  /\ \A r \in Routes : (r.mode = "cross") <=> (r.ingress # r.egress)

-----------------------------------------------------------------------------
(* StreamTranslate. *)

Up == route.egress

Translator ==
  [decode |-> DecodeState, startUsage |-> Nil, lastUsage |-> Nil,
   terminalError |-> FALSE, pendingTerminal |-> Nil, pendingStop |-> FALSE,
   stopped |-> FALSE, aborted |-> FALSE]

(* Ingress protocols that hold the terminal delta back until the end. *)
folds_terminal_usage(p) == p \in {"anthropic", "gemini", "cohere", "responses"}
emits_sse_done_terminator(p) == p = "openai"
ingress_is_eventstream(p) == p = "bedrock"
native_tool_id_prefix(p) == p \in {"openai", "responses", "anthropic", "bedrock"}

(* A foreign tool id takes the native shape of the client's protocol, and  *)
(* the shape carries the original id.                                      *)
NativeMark == 1000
native_for(p, id) == IF native_tool_id_prefix(p) THEN NativeMark + id ELSE id
decode_native_tool_id(p, id) ==
  IF native_tool_id_prefix(p) /\ id > NativeMark THEN id - NativeMark ELSE id

remap_event(p, e) ==
  IF e.t = "BlockStart" /\ e.k = "ToolUse" THEN [e EXCEPT !.d.id = native_for(p, @)] ELSE e

(* A translation in progress: translator, writer and what was written. *)
Going(t, w) == [t |-> t, w |-> w, out |-> <<>>]

Wrote(g, r) == [g EXCEPT !.w = r.w, !.out = g.out \o r.out]
emit_ir_event(g, e) == Wrote(g, write_response_event(route.ingress, g.w, e, route.include))

(* The usage bookkeeping of one event, the same in both modes. *)
Backfill(t, e) ==
  IF t.startUsage = Nil THEN e.usage
  ELSE Usage(IF e.usage.inp = 0 THEN t.startUsage.inp ELSE e.usage.inp,
             IF e.usage.cached = Nil THEN t.startUsage.cached ELSE e.usage.cached,
             e.usage.outp)

Account(t, e) ==
  CASE e.t = "MessageStart" -> [t EXCEPT !.startUsage = IF e.usage = Nil THEN @ ELSE e.usage]
    [] e.t = "MessageDelta" ->
         [t EXCEPT !.lastUsage =
            MergeUsage(IF t.lastUsage = Nil THEN NoUsage ELSE t.lastUsage, Backfill(t, e))]
    [] e.t = "Error" -> [t EXCEPT !.terminalError = TRUE]
    [] OTHER -> t

merge_trailing_usage_Dropped(pending, u) == pending
merge_trailing_usage(pending, u) == [pending EXCEPT !.usage = MergeUsage(pending.usage, u)]

(* The terminal delta is kept, a later one merged into it, and its         *)
(* MessageStop kept with it.                                               *)
Folded(t, e) == folds_terminal_usage(route.ingress) /\
  \/ e.t = "MessageDelta" /\ (e.stop # Nil \/ t.pendingTerminal # Nil)
  \/ e.t = "MessageStop" /\ t.pendingTerminal # Nil

Fold(t, e) ==
  CASE e.t = "MessageStop" -> [t EXCEPT !.pendingStop = TRUE]
    [] e.t = "MessageDelta" /\ t.pendingTerminal # Nil ->
         [t EXCEPT !.pendingTerminal = merge_trailing_usage(t.pendingTerminal, e.usage)]
    [] e.t = "MessageDelta" /\ t.pendingTerminal = Nil -> [t EXCEPT !.pendingTerminal = e]

(* BedrockStreamFraming decides what a delta becomes. *)
EmitAll(g, f) == FoldLeft(emit_ir_event, [g EXCEPT !.w = f.w], f.ev)
FramedDelta(g, e) ==
  EmitAll(g, IF e.stop # Nil THEN on_combined_stop_delta(g.w, e) ELSE on_usage_only_delta(g.w, e))

(* An event that has been accounted for, its usage completed. *)
Completed(t, e) == IF e.t = "MessageDelta" THEN [e EXCEPT !.usage = Backfill(t, e)] ELSE e

Pass(g, e) ==
  CASE ingress_is_eventstream(route.ingress) /\ e.t = "MessageDelta" -> FramedDelta(g, e)
    [] Folded(g.t, e) -> [g EXCEPT !.t = Fold(g.t, e)]
    [] ~Folded(g.t, e) /\ g.t.stopped /\ e.t = "MessageDelta" -> g
    [] OTHER -> emit_ir_event([g EXCEPT !.t.stopped = g.t.stopped \/ e.t = "MessageStop"], e)

TranslateEvent(g, e) ==
  LET x == remap_event(route.ingress, e)
  IN  Pass([g EXCEPT !.t = Account(g.t, x)], Completed(g.t, x))

(* The events of a frame, translated or only tapped for their usage. *)
translate_event(g, r) == FoldLeft(TranslateEvent, [g EXCEPT !.t.decode = r.s], r.ev)

extract_usage_only(g, r) == [g EXCEPT !.t = FoldLeft(Account, [g.t EXCEPT !.decode = r.s], r.ev)]

(* Same protocol: a client that did not ask for usage does not see it. *)
suppress_same_proto_frame(f) == route.egress = "openai" /\ ~route.include /\ f.usage # Nil /\ ~f.choices
strip_same_proto_usage(f) == route.egress = "openai" /\ ~route.include /\ f.usage # Nil /\ f.choices

SameProtoOut(f) ==
  CASE suppress_same_proto_frame(f) -> <<>>
    [] strip_same_proto_usage(f) -> <<[f EXCEPT !.usage = Nil]>>
    [] OTHER -> <<f>>

IsDone(f) == route.egress = "openai" /\ f.done

NoEvents(g) == [s |-> g.t.decode, ev |-> <<>>]
FedWith(g, f, r) ==
  IF route.mode = "same"
  THEN [extract_usage_only(g, r) EXCEPT !.out = g.out \o SameProtoOut(f)]
  ELSE translate_event(g, r)

feed(g, f) ==
  IF g.t.aborted THEN g
  ELSE FedWith(g, f, IF IsDone(f) THEN NoEvents(g)
                     ELSE read_response_events(route.egress, g.t.decode, f))

abort(t) == [t EXCEPT !.aborted = TRUE]

DoneFrame == IF emits_sse_done_terminator(route.ingress)
             THEN <<[OpenaiChunk EXCEPT !.done = TRUE]>> ELSE <<>>

(* What was held back, and the terminator. *)
FlushTerminal_Synthesized(g) ==
  emit_ir_event(emit_ir_event(g, IF g.t.pendingTerminal = Nil
                                 THEN MessageDelta("EndTurn", NoUsage) ELSE g.t.pendingTerminal),
                MessageStop)
FlushTerminal(g) ==
  IF g.t.pendingTerminal = Nil THEN g
  ELSE FoldLeft(emit_ir_event, [g EXCEPT !.t.pendingTerminal = Nil],
                <<g.t.pendingTerminal>> \o (IF g.t.pendingStop THEN <<MessageStop>> ELSE <<>>))

Terminated(g) == [g EXCEPT !.out = g.out \o DoneFrame]

finish(g) ==
  CASE g.t.aborted -> Terminated(emit_ir_event(g, Error))
    [] ~g.t.aborted /\ route.mode = "same" -> g
    [] ~g.t.aborted /\ route.mode = "cross" -> Terminated(FlushTerminal(EmitAll(g, on_finish(g.w))))

-----------------------------------------------------------------------------
(* FirstByteBody.  arr is the Gemini array framer: "off", or whether the   *)
(* bracket has been opened and closed; bill is what was recorded.          *)

Body0 ==
  [ended |-> FALSE, first |-> FALSE, failed |-> FALSE, permit |-> TRUE,
   spent |-> route.spent, transients |-> 0, refunds |-> 0, sink |-> TRUE,
   bill |-> <<>>, ioError |-> FALSE, dropped |-> FALSE,
   arr |-> IF route.array THEN "fresh" ELSE "off"]

(* The elements of the array are the frames; the framer adds the brackets. *)
ArrayFed(b, out) ==
  IF b.arr = "fresh" /\ out # <<>> THEN [b EXCEPT !.arr = "open"] ELSE b
ArrayClosed(b) == IF b.arr = "off" THEN b ELSE [b EXCEPT !.arr = "closed"]

Deliver(out) == view' = FoldLeft(LAMBDA v, f : ClientStep(route.ingress, v, f), view, out)

record_transient(b) == [b EXCEPT !.transients = b.transients + 1]
drop_permit(b) == [b EXCEPT !.permit = FALSE]

StreamFailed(t) == t.terminalError \/ t.aborted

(* A plain body is parsed for its usage once it is whole. *)
UsageSeen(t) ==
  CASE route.mode = "plain" -> IF fault = "none" THEN ReportedBy(Up, answer.style) ELSE NoUsage
    [] route.mode # "plain" -> IF t.lastUsage = Nil THEN NoUsage ELSE t.lastUsage

record_usage_KeepsSink(b, t) ==
  IF StreamFailed(t) THEN b ELSE [b EXCEPT !.bill = Append(@, UsageSeen(t))]
record_usage(b, t) ==
  [b EXCEPT !.sink = FALSE,
            !.bill = IF StreamFailed(t) THEN b.bill ELSE Append(b.bill, UsageSeen(t))]

(* A frame that reports an error, by the protocol's own in-band means. *)
mid_stream_error_bytes(p) == write_response_event(p, WriterState, Error, FALSE).out

Live == ~body.ended /\ ~body.dropped

-----------------------------------------------------------------------------
(* The upstream's next frame.  Blocks come one after the other, except     *)
(* that OpenAI's deltas may alternate between blocks already begun.        *)

BlockLen(n) == Len(BlockFrames(Up, answer.blocks, n))
HeadSent == sent.head = Len(HeadFrames(Up))
Ending == TailFrames(Up, answer, answer.style)
BlocksSent == \A n \in DOMAIN answer.blocks : sent.blk[n] = BlockLen(n)
MayCome(n) ==
  /\ HeadSent
  /\ sent.blk[n] < BlockLen(n)
  /\ \A m \in 1..(n - 1) :
       IF Up = "openai" THEN sent.blk[m] > 0 ELSE sent.blk[m] = BlockLen(m)

(* The frame that carries the stop reason has been sent. *)
Concluded == HeadSent /\ BlocksSent /\ sent.tail > 0
Complete  == HeadSent /\ BlocksSent /\ sent.tail = Len(Ending)

FramesSent(s) == s.head + s.tail + FoldFunction(LAMBDA x, y : x + y, 0, s.blk)
Stamp(f) == IF Up = "responses" THEN [f EXCEPT !.n = FramesSent(sent)] ELSE f

-----------------------------------------------------------------------------
Init ==
  /\ route \in Routes
  /\ \E a \in {x \in Answers(route.egress) : HonestStop(x) /\ PlainStop(x)},
        style \in UsageStyles(route.egress) :
       answer = [blocks |-> a.blocks, stop |-> a.stop, style |-> style]
  /\ sent = [head |-> 0, blk |-> [n \in DOMAIN answer.blocks |-> 0], tail |-> 0]
  /\ fault = "none"
  /\ tr = Translator
  /\ wr = WriterState
  /\ body = Body0
  /\ view = EmptyView

(* poll_next, Ok(chunk): one frame of the upstream goes through. *)
PollChunk(f) ==
  \E g \in {IF route.mode = "plain" THEN Going(tr, wr) ELSE feed(Going(tr, wr), f)} :
    /\ tr' = g.t
    /\ wr' = g.w
    /\ body' = ArrayFed([body EXCEPT !.first = TRUE], g.out)
    /\ Deliver(g.out)

UpstreamHead ==
  /\ Live /\ fault = "none" /\ ~HeadSent
  /\ PollChunk(Stamp(HeadFrames(Up)[sent.head + 1]))
  /\ sent' = [sent EXCEPT !.head = @ + 1]
  /\ UNCHANGED <<route, answer, fault>>

UpstreamBlock(n) ==
  /\ Live /\ fault = "none" /\ MayCome(n)
  /\ PollChunk(Stamp(BlockFrames(Up, answer.blocks, n)[sent.blk[n] + 1]))
  /\ sent' = [sent EXCEPT !.blk[n] = @ + 1]
  /\ UNCHANGED <<route, answer, fault>>

UpstreamTail ==
  /\ Live /\ fault = "none" /\ HeadSent /\ BlocksSent /\ sent.tail < Len(Ending)
  /\ PollChunk(Stamp(Ending[sent.tail + 1]))
  /\ sent' = [sent EXCEPT !.tail = @ + 1]
  /\ UNCHANGED <<route, answer, fault>>

(* The upstream gives up on its answer and says so in its own protocol;    *)
(* Cohere ends the block it is in before it ends the message.              *)
UpstreamError ==
  /\ Live /\ fault = "none" /\ HeadSent /\ sent.tail = 0 /\ route.mode # "plain"
  /\ Up = "cohere" => \A n \in DOMAIN answer.blocks : sent.blk[n] \in {0, BlockLen(n)}
  /\ PollChunk(Stamp(ErrorFrame(Up)))
  /\ fault' = "error"
  /\ UNCHANGED <<route, answer, sent>>

(* Bytes that never form a frame: the buffer passes its limit, or an       *)
(* eventstream prelude is malformed.  Later bytes are ignored.             *)
UpstreamGarbage ==
  /\ Live /\ fault = "none" /\ ~Complete /\ route.mode # "plain"
  /\ tr' = abort(tr)
  /\ body' = [body EXCEPT !.first = TRUE]
  /\ fault' = "garbage"
  /\ UNCHANGED <<route, answer, sent, wr, view>>

(* The upstream ends its body before it has ended its answer. *)
UpstreamStopsShort ==
  /\ Live /\ fault = "none" /\ ~Complete
  /\ fault' = "early"
  /\ UNCHANGED <<route, answer, sent, tr, wr, body, view>>

(* poll_next, None: the close arm. *)
PollEnd ==
  LET told == IF route.mode # "plain" /\ body.first /\ StreamFailed(tr)
              THEN record_transient(body) ELSE body
  IN  /\ Live
      /\ fault \in {"error", "garbage", "early"} \/ Complete
      /\ \E g \in {IF route.mode = "plain" THEN Going(tr, wr) ELSE finish(Going(tr, wr))} :
           tr' = g.t /\ wr' = g.w /\ Deliver(g.out)
      /\ body' = record_usage([drop_permit(ArrayClosed(told)) EXCEPT !.ended = TRUE], tr)
      /\ UNCHANGED <<route, answer, sent, fault>>

(* poll_next, Err after the first byte of a stream: the error is told in   *)
(* the stream.                                                             *)
PollErrMidStream ==
  /\ Live /\ fault = "none" /\ body.first /\ route.mode # "plain"
  /\ body' = [drop_permit(ArrayClosed(record_transient(body))) EXCEPT
                !.ended = TRUE, !.failed = TRUE]
  /\ Deliver(mid_stream_error_bytes(route.ingress))
  /\ fault' = "cut"
  /\ UNCHANGED <<route, answer, sent, tr, wr>>

(* poll_next, Err before the first byte or in a plain body: the client's   *)
(* connection is broken as well, and the unit of lane budget is returned.  *)
PollErrPlain ==
  /\ Live /\ fault = "none" /\ (~body.first \/ route.mode = "plain")
  /\ body' = [drop_permit(record_transient(body)) EXCEPT
                !.ended = TRUE, !.failed = TRUE, !.ioError = TRUE,
                !.refunds = IF body.spent THEN @ + 1 ELSE @, !.spent = FALSE]
  /\ fault' = "cut"
  /\ UNCHANGED <<route, answer, sent, tr, wr, view>>

(* Drop: the response is over, or the client went away in the middle.  A   *)
(* bill that has not been recorded is recorded now, if there is anything   *)
(* to bill and nothing failed.                                             *)
Drop ==
  LET owed == /\ body.sink /\ ~body.failed /\ ~StreamFailed(tr)
              /\ tr.lastUsage # Nil /\ HasUsage(tr.lastUsage)
  IN  /\ ~body.dropped
      /\ body' = [drop_permit(body) EXCEPT
                    !.dropped = TRUE, !.sink = FALSE,
                    !.bill = IF owed THEN Append(@, tr.lastUsage) ELSE @]
      /\ UNCHANGED <<route, answer, sent, fault, tr, wr, view>>

Next ==
  \/ UpstreamHead \/ (\E n \in 1..MaxBlocks : n \in DOMAIN answer.blocks /\ UpstreamBlock(n))
  \/ UpstreamTail \/ UpstreamError \/ UpstreamGarbage \/ UpstreamStopsShort
  \/ PollEnd \/ PollErrMidStream \/ PollErrPlain \/ Drop

Spec == Init /\ [][Next]_vars
-----------------------------------------------------------------------------
(* Properties. *)

FramesBlocks(p) == p \in {"anthropic", "bedrock", "cohere", "responses"}

(* The blocks a reader that makes up boundaries keeps open together: text  *)
(* and calls, until the finish reason.  A reasoning block is to be closed  *)
(* before another opens; the Gemini reader does so for text and not for a  *)
(* call.                                                                   *)
OpenTogether(p) ==
  CASE p = "openai" -> ({"Text", "ToolUse"} \X {"Text", "ToolUse"}) \ {<<"Text", "Text">>}
    [] p = "gemini" -> ({"Text", "ToolUse", "Thinking"} \X {"Text", "ToolUse"})
                       \ {<<"Text", "Text">>, <<"Thinking", "Text">>}
    [] OTHER -> {}

(* The client's decoder never meets a frame its protocol does not allow at *)
(* that place: blocks open once, are filled while open and close once, the *)
(* stop comes after every block is closed and the end comes last.  "No two *)
(* blocks are ever open at once" (openai_chat tests, gemini reader) but    *)
(* for the pairs above; a reasoning block and one that follows it only     *)
(* where a Gemini upstream calls a function right after a thought.         *)
ClientGrammar ==
  /\ view.ok
  /\ FramesBlocks(route.ingress) => view.beside \subseteq OpenTogether(Up)

Merged(bs, k, piecesOf(_)) ==
  FlattenSeq([m \in 1..Len(bs) |-> IF bs[m] = k THEN piecesOf(m) ELSE <<>>])
ClientKind(m) == view.blk[view.order[m]].k
ClientKinds == [m \in 1..Len(view.order) |-> ClientKind(m)]
Carries(p, k) == k = "Thinking" => p \notin {"openai", "cohere"}
ToolsSaid == SelectSeq([m \in 1..Len(answer.blocks) |-> Whole(answer.blocks, m)],
                       LAMBDA x : x.k = "ToolUse")
ToolsHeard == SelectSeq([m \in 1..Len(view.order) |-> view.blk[view.order[m]]],
                        LAMBDA x : x.k = "ToolUse")
ClientId(d) == IF route.mode = "cross" THEN decode_native_tool_id(route.ingress, d) ELSE d
UsageSaid == ReportedBy(Up, answer.style)
UsageExpected ==
  CASE route.ingress = "openai" ->
         (IF ~route.include \/ ~HasUsage(UsageSaid) THEN Nil ELSE ToTotal(UsageSaid))
    [] route.ingress \in {"gemini", "responses"} -> ToTotal(UsageSaid)
    [] OTHER -> UsageSaid

OrNo(u) == IF u = Nil THEN NoUsage ELSE u
ClientComplete == view.stop # Nil /\ view.ends > 0 /\ view.errs = 0

(* The ids of the calls tell them apart and lead back to the upstream's,   *)
(* which Gemini does not have; a Gemini client is given none.              *)
IdsHeard ==
  route.ingress # "gemini" =>
    /\ Up # "gemini" =>
         \A m \in 1..Len(ToolsSaid) : ClientId(ToolsHeard[m].d.id) = ToolsSaid[m].d.id
    /\ \A m \in 1..Len(ToolsHeard) :
         /\ ToolsHeard[m].d.id # 0
         /\ \A l \in 1..(m - 1) : ToolsHeard[l].d.id # ToolsHeard[m].d.id

(* An answer the client holds as complete is the upstream's: every piece   *)
(* of text and of reasoning in order (where the client's protocol has      *)
(* reasoning), every tool call under its function's name and with its      *)
(* arguments whole, the stop reason and the usage.  Each call has an id of *)
(* its own, that decodes to the upstream's where the upstream has ids.     *)
Faithful ==
  (ClientComplete /\ Concluded /\ route.mode = "cross") =>
    /\ \A k \in {"Text", "Thinking"} : Carries(route.ingress, k) =>
         Merged(answer.blocks, k, LAMBDA m : Whole(answer.blocks, m).pieces)
           = Merged(ClientKinds, k, LAMBDA m : view.blk[view.order[m]].pieces)
    /\ Len(ToolsSaid) = Len(ToolsHeard)
    /\ \A m \in 1..Len(ToolsSaid) :
         /\ ToolsHeard[m].pieces = ToolsSaid[m].pieces
         /\ ToolsHeard[m].d.name = ToolsSaid[m].d.name
    /\ IdsHeard
    /\ view.stop = answer.stop
    /\ body.ended /\ fault = "none" => OrNo(view.usage) = OrNo(UsageExpected)

(* The upstream failed, and said so where it could: an error in its own    *)
(* protocol, bytes that are no frames, a broken connection.  Two readers   *)
(* do not see the first of these: OpenAI's, which has no clause for an     *)
(* error object, and Cohere's, for which it is a stop reason.              *)
Failed == fault \in {"error", "garbage", "cut"}
Unseen == fault = "error" /\ Up \in {"openai", "cohere"}

(* The client is told of a complete answer only if the upstream concluded  *)
(* one: a stream that failed or was cut short never looks finished, an     *)
(* error of Cohere's apart.                                                *)
NoFalseSuccess ==
  ClientComplete => Concluded \/ (fault = "error" /\ Up = "cohere")

(* A failure of the upstream is in the client's stream: an error frame, or *)
(* a broken connection, never a silent end, unless the reader that has to  *)
(* translate it does not see it.                                           *)
FailureSurfaces ==
  (body.ended /\ Failed /\ ~(Unseen /\ route.mode = "cross")) =>
    (view.errs = 1 \/ body.ioError)

(* The request is billed at most once, for what the upstream reported, and *)
(* not at all when the stream failed and the reader saw it.                *)
BilledOnce ==
  /\ Len(body.bill) <= 1
  /\ Failed /\ ~Unseen => body.bill = <<>>
  /\ (body.ended /\ Complete /\ fault = "none") => body.bill = <<UsageSaid>>

(* A permit of the lane is given back when the body ends or is dropped.    *)
PermitReturned == body.ended \/ body.dropped => ~body.permit

(* "The breaker-failure signal" (StreamTranslate.terminal_error): the      *)
(* lane's breaker hears of a failure of the upstream exactly once, unless  *)
(* the reader does not see it, and of no other end; a unit of budget is    *)
(* returned only if nothing was delivered.                                 *)
BreakerTold ==
  /\ body.ended => body.transients = (IF Failed /\ ~Unseen THEN 1 ELSE 0)
  /\ body.refunds > 0 => body.failed /\ route.spent /\ (route.mode = "plain" \/ view = EmptyView)

(* How a stream ends is known to all it concerns: the client never takes a *)
(* failure for success and sees every failure of the upstream, the breaker *)
(* is told of it once, and the permit is returned (response_body.rs        *)
(* poll_next and drop, stream.rs finish).  What the OpenAI reader drops    *)
(* and Cohere's stop reason are the exceptions.                            *)
EndsHonestly == NoFalseSuccess /\ FailureSurfaces /\ BreakerTold /\ PermitReturned
=============================================================================
