----------------------------- MODULE ChatStream -----------------------------
(***************************************************************************)
(* One request to a model: which provider takes it (providers/registry.ts) *)
(* and how the lines of its event stream become a result.  OpenRouter,     *)
(* Anthropic and Ollama share the parser of openrouter.ts; OpenAI and      *)
(* DeepSeek have one, and Gemini another.                                  *)
(*                                                                         *)
(* A line is received in three marks: a part of it, all of it, and its     *)
(* newline.  Chunks end after any mark.  A piece of text or of a call's    *)
(* arguments is the number of the line that carries it.                    *)
(***************************************************************************)
EXTENDS Integers, Sequences, FiniteSets, SequencesExt

CONSTANTS Families,     \* of models: those with a direct provider, and others
          Lines,        \* what a line may carry
          MaxLines      \* bound: length of a stream

ASSUME ChatStreamAssumption ==
  /\ {"anthropic", "openai", "deepseek", "gemini"} \subseteq Families
  /\ Lines \subseteq [kind : {"text", "call", "finish", "error", "noise"}, index : Nat,
                      opens : BOOLEAN]
  /\ MaxLines \in Nat \ {0}

VARIABLES family,    \* of opts.model
          keys,      \* providers whose key is in the environment
          local,     \* opts._ollamaBaseUrl is set
          wire,      \* the lines that the provider sends
          marks,     \* received so far
          parsed,    \* the parse state
          ending    \* "reading", or how the request ended

streamVars == <<family, keys, local, wire, marks, parsed, ending>>

Direct == {"anthropic", "openai", "deepseek", "gemini"}
Indices == {l.index : l \in Lines}
Fresh == [text |-> <<>>, calls |-> [i \in Indices |-> <<>>], named |-> {},
          finish |-> FALSE, error |-> FALSE]

StreamTypeOK ==
  /\ family \in Families /\ keys \subseteq Direct /\ local \in BOOLEAN
  /\ wire \in Seq(Lines) /\ marks \in 0..(3 * Len(wire))
  /\ parsed \in [text : Seq(Nat), calls : [Indices -> Seq(Nat)], named : SUBSET Indices,
                 finish : BOOLEAN, error : BOOLEAN]
  /\ ending \in {"reading", "result", "error", "thrown"}

\* resolveProvider
Provider ==
  IF local THEN "ollama" ELSE IF family \in keys THEN family ELSE "openrouter"

Parser ==
  CASE Provider \in {"openai", "deepseek"} -> "openai"
    [] Provider = "gemini" -> "gemini"
    [] OTHER -> "openrouter"

StreamInit ==
  /\ family \in Families /\ keys \in {{}, Direct} /\ local \in BOOLEAN
  /\ wire \in UNION {[1..n -> Lines] : n \in 0..MaxLines}
  /\ marks = 0 /\ parsed = Fresh /\ ending = "reading"

-----------------------------------------------------------------------------
(***************************************************************************)
(* Parsing                                                                 *)
(***************************************************************************)

AddCall(p, line, n) ==
  [p EXCEPT !.calls[line.index] = Append(@, n),
            !.named = IF line.opens THEN @ \cup {line.index} ELSE @]

\* processLine
ParseLine(p, n) ==
  LET line == wire[n]
  IN  CASE line.kind = "text"   -> [p EXCEPT !.text = Append(@, n)]
        [] line.kind = "call"   -> AddCall(p, line, n)
        [] line.kind = "finish" -> [p EXCEPT !.finish = TRUE]
        [] line.kind = "error"  -> [p EXCEPT !.error = TRUE]
        [] OTHER -> p

\* OpenAI and DeepSeek look for no error in a stream.
ParseOpenAI(p, n) == IF wire[n].kind = "error" THEN p ELSE ParseLine(p, n)

\* A call of Gemini is a line of its own and has no id: its name is the key,
\* and the first call of a name is kept.
GeminiCall(p, line, n) ==
  [p EXCEPT !.calls[line.index] = IF @ # <<>> THEN @ ELSE Append(@, n),
            !.named = @ \cup {line.index}]

ParseGemini(p, n) ==
  IF wire[n].kind = "call" THEN GeminiCall(p, wire[n], n) ELSE ParseLine(p, n)

Parse(p, n) ==
  CASE Parser = "openai" -> ParseOpenAI(p, n)
    [] Parser = "gemini" -> ParseGemini(p, n)
    [] OTHER -> ParseLine(p, n)

\* Mutant: each chunk is split by itself.
CompleteInOneChunk(from, to) == {n \in 1..Len(wire) : 3 * (n - 1) >= from /\ 3 * n <= to}

\* The lines that a chunk completes: what precedes them is in the buffer.
CompleteIn(from, to) == {n \in 1..Len(wire) : from < 3 * n /\ 3 * n <= to}

\* The parse state after these lines, one after another.
AllParsed(lines) ==
  LET after[n \in 0..Len(wire)] ==
        IF n = 0 THEN parsed
        ELSE IF n \in lines THEN Parse(after[n - 1], n) ELSE after[n - 1]
  IN  after[Len(wire)]

ReadChunk(to) ==
  /\ ending = "reading" /\ to > marks
  /\ marks' = to
  /\ parsed' = AllParsed(CompleteIn(marks, to))
  /\ UNCHANGED <<family, keys, local, wire, ending>>

\* Only the parser of openrouter.ts goes through what is left in the buffer;
\* a part of a line is no JSON and is dropped.
Drained ==
  IF Parser = "openrouter" /\ marks % 3 = 2 THEN Parse(parsed, marks \div 3 + 1) ELSE parsed

\* Calls without id or name are left out, by the same parser only.
Named(p) ==
  IF Parser = "openrouter"
    THEN [p EXCEPT !.calls = [i \in Indices |-> IF i \in p.named THEN @[i] ELSE <<>>]]
    ELSE p

\* The stream ends, after all lines or not.
EndStream ==
  /\ ending = "reading"
  /\ parsed' = Named(Drained)
  /\ ending' = IF Drained.error THEN "error" ELSE "result"
  /\ UNCHANGED <<family, keys, local, wire, marks>>

\* The run's signal, or the two minutes of openrouter.ts.  The others take an
\* abort for the end of the stream.
AbortStream ==
  /\ ending = "reading"
  /\ ending' = IF Parser = "openrouter" THEN "thrown"
                ELSE IF parsed.error THEN "error" ELSE "result"
  /\ UNCHANGED <<family, keys, local, wire, marks, parsed>>

\* The connection breaks, or the response is not ok.
BreakStream ==
  /\ ending = "reading"
  /\ ending' \in IF Parser # "openrouter" THEN {"error"}
                   ELSE IF marks > 0 THEN {"thrown"} ELSE {"thrown", "error"}
  /\ UNCHANGED <<family, keys, local, wire, marks, parsed>>

StreamNext ==
  \/ \E to \in 1..(3 * Len(wire)) : ReadChunk(to)
  \/ EndStream \/ AbortStream \/ BreakStream

StreamSpec == StreamInit /\ [][StreamNext]_streamVars

-----------------------------------------------------------------------------
(***************************************************************************)
(* Properties                                                              *)
(***************************************************************************)
Arrived == IF Parser = "openrouter" THEN (marks + 1) \div 3 ELSE marks \div 3
TextLines == {n \in 1..Arrived : wire[n].kind = "text"}
CallLines(i) == {n \in 1..Arrived : wire[n].kind = "call" /\ wire[n].index = i}

\* s has these lines, each once, in their order.
InOrder(s, lines) == ToSet(s) = lines /\ \A i, j \in DOMAIN s : i < j => s[i] < s[j]

\* However a stream is cut into chunks, the text and the calls of a result
\* are those of the lines that have arrived, the last one without its newline
\* included where the parser drains its buffer, and a call that never got its
\* name is in no result of that parser.  Of the calls nothing is said for Gemini.
ResultIsWhatArrived ==
  ending = "result" =>
    /\ InOrder(parsed.text, TextLines)
    /\ \A i \in Indices :
         CASE Parser = "gemini" -> TRUE
           [] Parser = "openrouter" /\ ~(\E n \in CallLines(i) : wire[n].opens) -> parsed.calls[i] = <<>>
           [] OTHER -> InOrder(parsed.calls[i], CallLines(i))
=============================================================================
