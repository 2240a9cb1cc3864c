------------------------------ MODULE StreamIR ------------------------------
(***************************************************************************)
(* The intermediate representation of a streamed answer, which every       *)
(* reader produces and every writer consumes, and the state a reader keeps *)
(* between chunks.  A piece of text or of reasoning, the id of a tool call *)
(* and the name of a function are natural numbers (0 is "absent"); tool    *)
(* arguments are a sequence of such pieces, since they are concatenated.   *)
(***************************************************************************)
EXTENDS Vocabulary

CONSTANT MaxOpenTools   \* cap on the blocks a reader or writer tracks

ASSUME StreamIRAssumption == MaxOpenTools \in Nat \ {0}

-----------------------------------------------------------------------------
(* IR events. *)

(* What the start of a ToolUse block carries as its d. *)
Call(id, name)      == [id |-> id, name |-> name]
MessageStart(u)     == [t |-> "MessageStart", usage |-> u]
BlockStart(i, k, d) == [t |-> "BlockStart", i |-> i, k |-> k, d |-> d]
BlockDelta(i, k, d) == [t |-> "BlockDelta", i |-> i, k |-> k, d |-> d]
BlockStop(i)        == [t |-> "BlockStop", i |-> i]
MessageDelta(s, u)  == [t |-> "MessageDelta", stop |-> s, usage |-> u]
MessageStop         == [t |-> "MessageStop"]
Error               == [t |-> "Error"]

-----------------------------------------------------------------------------
(* The two protocols whose chunk is one record with optional parts; a      *)
(* frame of the others has a type t and the fields of that type.           *)

OpenaiChunk == [reason |-> 0, text |-> 0, lp |-> FALSE, tools |-> <<>>,
                finish |-> Nil, usage |-> Nil, choices |-> TRUE, error |-> FALSE,
                done |-> FALSE]

GeminiChunk == [parts |-> <<>>, cite |-> 0, lp |-> FALSE, finish |-> Nil,
                usage |-> NoUsage, blocked |-> Nil, error |-> FALSE]

-----------------------------------------------------------------------------
(* StreamDecodeState.  tools maps what a reader tracks (the upstream's own *)
(* name for an open block) to the IR index its BlockStart carried.         *)

DecodeState ==
  [started |-> FALSE, textOpen |-> FALSE, textIndex |-> Nil,
   textClosed |-> FALSE, tools |-> <<>>, reasoning |-> FALSE,
   thinkingOpen |-> FALSE, pendingStop |-> Nil]

(* A reader's progress through one chunk: its state and what it emitted. *)
Reading(s) == [s |-> s, ev |-> <<>>]
Emit(r, e) == [r EXCEPT !.ev = Append(r.ev, e)]
=============================================================================
