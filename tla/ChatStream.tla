----------------------------- MODULE ChatStream ------------------------------
(***************************************************************************)
(* A model's streamed answer on its way from the wire, and a chat on its   *)
(* way to the browser. Each has a specification of its own; shown and stop *)
(* are of whichever runs.                                                  *)
(***************************************************************************)
EXTENDS Naturals, Sequences, FiniteSets, SequencesExt

(***************************************************************************)
(* One call of a language model: src/kernel/llm/LLMProviderBase.cpp, its   *)
(* retries, the assembly of the answer from server-sent events by the      *)
(* OpenAI-compatible providers, by Codex and by Cohere, and CallLLM of     *)
(* chain/ChainRunner.cpp, which takes the answer or reports an error.      *)
(*                                                                         *)
(* The server is external: it answers, refuses, breaks off, floods the     *)
(* stream with <unk> tokens, and cuts a line in two wherever it likes.     *)
(* Tool calls are numbered from 1; a piece of arguments or of text is the  *)
(* attempt that sent it.                                                   *)
(***************************************************************************)

CONSTANTS
    Wires,          \* of "openai", "codex", "cohere"
    RepeatsId,      \* whether every fragment of a call carries its id
    MaxAttempts,    \* retry_max_attempts
    MaxRun,         \* degenerate_max_run
    MaxCalls, MaxLines

VARIABLES
    wire, stream,   \* the provider, and StreamComplete or Complete
    reuse,          \* the server sends every call with index 0
    attempt, phase, \* "open", "flow", "backoff", "done"
    sent,           \* the lines of this attempt, from the server's side
    buf,            \* sseBuffer: the line that is there in part
    body,           \* whether responseBody has anything
    acc,            \* what ProcessSSELine keeps
    shown,          \* what the token callback was given: attempts
    err,            \* *error
    stop,           \* the abort signal
    status, taken   \* of DoHTTPRequest; whether CallLLM took the answer

llmVars == <<wire, stream, reuse, attempt, phase, sent, buf, body, acc, shown, err, stop, status,
             taken>>

Fresh == [partials |-> << >>, lastId |-> << >>, nextSub |-> << >>, calls |-> << >>,
          text |-> << >>, run |-> 0, flood |-> FALSE, over |-> FALSE, usage |-> FALSE]

LlmInit ==
    /\ wire \in Wires /\ stream \in BOOLEAN /\ reuse \in BOOLEAN /\ (reuse => wire = "openai")
    /\ (wire = "codex" => stream)
    /\ attempt = 1 /\ phase = "open" /\ sent = << >> /\ buf = << >> /\ body = FALSE /\ acc = Fresh
    /\ shown = << >> /\ err = "" /\ stop = FALSE /\ status = 0 /\ taken = FALSE

With(f, x, v) == [y \in DOMAIN f \cup {x} |-> IF y = x THEN v ELSE f[y]]
At(f, x, d) == IF x \in DOMAIN f THEN f[x] ELSE d
None == [name |-> FALSE, id |-> 0, args |-> << >>]

-----------------------------------------------------------------------------
(* External: the lines a server sends, in an order the protocol allows.    *)
Lines == {[t |-> x, k |-> 0] : x \in {"text", "unk", "usage", "end", "error"}}
         \cup {[t |-> x, k |-> k] : x \in {"call", "args", "close"}, k \in 1..MaxCalls}
Has(x, k) == \E i \in DOMAIN sent : sent[i] = [t |-> x, k |-> k]
Begun == {k \in 1..MaxCalls : Has("call", k)}

MaySend(e) ==
    /\ Len(sent) < MaxLines
    /\ IF e.t = "usage" THEN Has("end", 0) /\ ~Has("usage", 0) /\ wire = "openai"
           ELSE ~Has("end", 0) /\ ~Has("error", 0)
    /\ e.t = "error" => wire = "codex"
    /\ e.t = "call" => e.k = Cardinality(Begun) + 1
    /\ e.t = "args" => e.k \in Begun /\ ~Has("close", e.k) /\ (reuse => e.k = Cardinality(Begun))
    /\ e.t = "close" => wire = "codex" /\ e.k \in Begun /\ ~Has("close", e.k)
    /\ e.t = "end" => (wire = "codex" => \A k \in Begun : Has("close", k))

-----------------------------------------------------------------------------
(* SSEToolCallAccumulator::ProcessLine.  The part a fragment belongs to is *)
(* found by its index and, when a server uses one index for several calls, *)
(* by counting the ids seen there.                                         *)
CompositeKey_Index(index, sub) == index * 16

CompositeKey(index, sub) == (index * 16) + (sub % 16)

Index(k) == IF reuse THEN 0 ELSE k - 1
FragmentHasId(e) == e.t = "call" \/ RepeatsId

ProcessLine(a, e) ==
    LET i == Index(e.k)
        other == FragmentHasId(e) /\ i \in DOMAIN a.lastId /\ a.lastId[i] # e.k
        sub == IF other THEN a.nextSub[i] + 1 ELSE IF FragmentHasId(e) THEN 0
            ELSE At(a.nextSub, i, 0)
        key == CompositeKey(i, sub)
        part == At(a.partials, key, None)
    IN  IF e.t \notin {"call", "args"} THEN a ELSE
        [a EXCEPT !.lastId = IF FragmentHasId(e) THEN With(@, i, e.k) ELSE @,
                  !.nextSub = IF other THEN With(@, i, sub)
                              ELSE IF FragmentHasId(e) /\ i \notin DOMAIN a.lastId
                                  THEN With(@, i, 0) ELSE @,
                  !.partials = With(@, key, [name |-> part.name \/ e.t = "call",
                                             id |-> IF FragmentHasId(e) THEN e.k ELSE part.id,
                                             args |-> IF e.t = "args"
                                                 THEN Append(part.args, attempt) ELSE part.args])]

Finalize(a) ==
    LET keys == SetToSortSeq({x \in DOMAIN a.partials : a.partials[x].name}, <)
    IN  [i \in DOMAIN keys |-> [id |-> a.partials[keys[i]].id, args |-> a.partials[keys[i]].args]]

(* The token of a line, given to the wrapped callback.                     *)
Text(a) == [a EXCEPT !.text = Append(@, attempt)]

(* LLMProviderBase::ProcessSSELine: <unk> tokens in a row end the stream.  *)
OpenAiLine(a, e) ==
    LET b == ProcessLine(a, e) IN
    CASE e.t = "unk" -> [Text(b) EXCEPT !.run = @ + 1, !.flood = b.run + 1 >= MaxRun]
      [] e.t = "text" -> [Text(b) EXCEPT !.run = 0]
      [] e.t = "usage" -> [b EXCEPT !.usage = TRUE]
      [] OTHER -> b

(* OpenAICodexProvider: a call is given to the callback when its item is   *)
(* done; an error event ends the stream like the end; no guard against     *)
(* floods.                                                                 *)
CodexLine(a, e) ==
    CASE e.t = "call" -> [a EXCEPT !.partials = With(@, e.k, [name |-> TRUE, id |-> e.k, args |-> << >>])]
      [] e.t = "args" -> IF e.k \in DOMAIN a.partials
                         THEN [a EXCEPT !.partials[e.k].args = Append(@, attempt)] ELSE a
      [] e.t = "close" -> [a EXCEPT !.calls = Append(@, [id |-> e.k, args |-> At(a.partials, e.k, None).args]),
                                    !.partials = [x \in DOMAIN @ \ {e.k} |-> @[x]]]
      [] e.t \in {"text", "unk"} -> Text(a)
      [] OTHER -> [a EXCEPT !.over = TRUE, !.usage = e.t = "end"]

(* CohereProvider: message-end gives all calls, and is read no further.    *)
CohereLine(a, e) ==
    CASE e.t = "call" -> [a EXCEPT !.partials = With(@, e.k, [name |-> TRUE, id |-> e.k, args |-> At(@, e.k, None).args])]
      [] e.t = "args" -> [a EXCEPT !.partials = With(@, e.k, [At(@, e.k, None) EXCEPT !.args = Append(@, attempt)])]
      [] e.t \in {"text", "unk"} -> Text(a)
      [] OTHER -> [a EXCEPT !.over = TRUE, !.calls = @ \o Finalize(a), !.partials = << >>]

ProcessSSELine(e) ==
    IF acc.over THEN acc
    ELSE CASE wire = "openai" -> OpenAiLine(acc, e) [] wire = "codex" -> CodexLine(acc, e)
        [] OTHER -> CohereLine(acc, e)

-----------------------------------------------------------------------------
(* DoHTTPRequest returns; StreamComplete finalizes; CallLLM takes the      *)
(* answer unless there is an error text.                                   *)
Taken(why) == why = ""

Returns(code, why) ==
    /\ phase' = "done" /\ status' = code /\ err' = why
    /\ acc' = IF stream /\ code \in {200, 499} /\ wire = "openai" /\ Finalize(acc) # << >>
              THEN [acc EXCEPT !.calls = Finalize(acc)] ELSE acc
    /\ taken' = (Taken(why) /\ code \in {200, 499})

(* After an attempt: a broken stream is not tried again, except a flood.   *)
Delivered_Never == FALSE

Delivered == stream /\ body /\ ~acc.flood

AttemptFails(code, why) ==
    IF Delivered \/ code = 401 \/ attempt = MaxAttempts
    THEN Returns(code, why)
    ELSE phase' = "backoff" /\ err' = why /\ UNCHANGED <<acc, status, taken>>

Unchanged == UNCHANGED <<wire, stream, reuse>>

(* DoHTTPRequestOnce, before any data: curl fails, or the server answers   *)
(* with an error, with a body or without.                                  *)
Refused ==
    /\ phase = "open" /\ AttemptFails(0, "transport")
    /\ UNCHANGED <<attempt, sent, buf, body, shown, stop>> /\ Unchanged

ErrorStatus(code, withBody) ==
    /\ phase = "open" /\ body' = withBody /\ ~(stop /\ stream /\ withBody)
    /\ IF (stream /\ withBody) \/ code = 401 THEN Returns(code, err)
       ELSE IF attempt = MaxAttempts THEN Returns(0, "exhausted")
       ELSE phase' = "backoff" /\ UNCHANGED <<err, acc, status, taken>>
    /\ UNCHANGED <<attempt, sent, buf, shown, stop>> /\ Unchanged

(* Complete: the body is there as a whole; one full of <unk> is a failure. *)
WholeBody(junk) ==
    /\ phase = "open" /\ ~stream /\ body' = TRUE
    /\ IF junk THEN AttemptFails(0, "degenerate") ELSE Returns(200, err)
    /\ UNCHANGED <<attempt, sent, buf, shown, stop>> /\ Unchanged

(* A chunk: the rest of the line that is there in part, and after it a     *)
(* whole line or the first part of one (AppendSSEData).                    *)
Tokens(e) == e.t \in {"text", "unk"} /\ ~acc.over

StreamChunk(e, whole) ==
    /\ phase \in {"open", "flow"} /\ stream /\ ~stop /\ ~acc.flood
    /\ IF buf = << >> THEN MaySend(e) ELSE e = Head(buf) /\ whole
    /\ sent' = IF buf = << >> THEN Append(sent, e) ELSE sent
    /\ phase' = "flow" /\ body' = TRUE
    /\ IF whole THEN /\ buf' = << >> /\ acc' = ProcessSSELine(e)
                     /\ shown' = IF Tokens(e) THEN Append(shown, attempt) ELSE shown
       ELSE buf' = <<e>> /\ UNCHANGED <<acc, shown>>
    /\ UNCHANGED <<attempt, err, stop, status, taken>> /\ Unchanged

(* The stop signal: seen by the next chunk, or in the backoff.             *)
SetStop == ~stop /\ phase # "done" /\ stop' = TRUE
           /\ UNCHANGED <<attempt, phase, sent, buf, body, acc, shown, err, status, taken>>
           /\ Unchanged

Aborts ==
    /\ stop /\ stream
    /\ \/ phase \in {"open", "flow"} /\ Returns(499, "")
       \/ phase = "backoff" /\ Returns(499, "aborted")
    /\ UNCHANGED <<attempt, sent, buf, body, shown, stop>> /\ Unchanged

AbortsWhole ==
    /\ stop /\ ~stream /\ phase = "backoff" /\ Returns(0, "aborted")
    /\ UNCHANGED <<attempt, sent, buf, body, shown, stop>> /\ Unchanged

Flooded ==
    /\ phase = "flow" /\ acc.flood /\ AttemptFails(0, "degenerate")
    /\ UNCHANGED <<attempt, sent, buf, body, shown, stop>> /\ Unchanged

BreaksOff ==
    /\ phase = "flow" /\ ~acc.flood /\ AttemptFails(0, "transport")
    /\ UNCHANGED <<attempt, sent, buf, body, shown, stop>> /\ Unchanged

StreamEnds ==
    /\ phase = "flow" /\ ~acc.flood /\ buf = << >> /\ (Has("end", 0) \/ Has("error", 0))
    /\ Returns(200, err)
    /\ UNCHANGED <<attempt, sent, buf, body, shown, stop>> /\ Unchanged

(* The next attempt: DoHTTPRequestOnce resets what is of one attempt; the  *)
(* accumulator and the calls the callback gathered are not.                *)
ResetAttempt_KeepsText(a) == [a EXCEPT !.run = 0, !.flood = FALSE, !.over = FALSE]

ResetAttempt(a) == [a EXCEPT !.text = << >>, !.run = 0, !.flood = FALSE, !.over = FALSE]

Retry ==
    /\ phase = "backoff" /\ ~stop /\ attempt' = attempt + 1 /\ phase' = "open"
    /\ sent' = << >> /\ buf' = << >> /\ body' = FALSE /\ acc' = ResetAttempt(acc)
    /\ UNCHANGED <<shown, err, stop, status, taken>> /\ Unchanged

LlmNext ==
    \/ Refused \/ SetStop \/ Aborts \/ AbortsWhole \/ Flooded \/ BreaksOff \/ StreamEnds \/ Retry
    \/ \E code \in {401, 503}, b \in BOOLEAN : ErrorStatus(code, b)
    \/ \E junk \in BOOLEAN : WholeBody(junk)
    \/ \E e \in Lines, whole \in BOOLEAN : StreamChunk(e, whole)

LlmSpec == LlmInit /\ [][LlmNext]_llmVars

-----------------------------------------------------------------------------
(* An answer that came in one attempt has the calls the server made, each  *)
(* with all its arguments, wherever its lines were cut and however its     *)
(* fragments alternate.                                                    *)
CallsAsSent ==
    phase = "done" /\ status = 200 /\ stream /\ attempt = 1 /\ ~Has("error", 0) =>
      /\ {acc.calls[i].id : i \in DOMAIN acc.calls} = Begun /\ Len(acc.calls) = Cardinality(Begun)
      /\ \A i \in DOMAIN acc.calls :
           Len(acc.calls[i].args) = Cardinality({j \in DOMAIN sent : sent[j] = [t |-> "args", k |-> acc.calls[i].id]})

(* The reader is never shown the text of two attempts, unless the first    *)
(* was a flood; and the text of the answer is of the last attempt.         *)
ShownOnce ==
    /\ \A i \in DOMAIN acc.text : acc.text[i] = attempt
    /\ wire # "openai" => \A i, j \in DOMAIN shown : shown[i] = shown[j]

(* Violated: "per-attempt accumulation state is reset, so retry is safe"   *)
(* (LLMProviderBase.cpp:511-512): the calls of the attempt that was thrown *)
(* away are still in the accumulator.                                      *)
CallsOfLastAttempt ==
    phase = "done" /\ status = 200 /\ stream
        => {acc.calls[i].id : i \in DOMAIN acc.calls} \subseteq Begun

(* Violated: a retry that succeeds is used.  The text of the earlier error *)
(* is still in *error, and CallLLM drops the answer for it.                *)
RetriedAnswerUsed == phase = "done" /\ status = 200 => taken

(* Violated when the error has a body: a stream is retried after a status  *)
(* that IsRetryableHTTPStatus names.                                       *)
RetryableRetried == phase = "done" /\ status = 503 => attempt = MaxAttempts

(* Violated for Codex: an answer that ends in an error event is not taken  *)
(* for an answer (OpenAICodexProvider.cpp:649).                            *)
ErrorIsNoAnswer == taken => ~Has("error", 0)

(* Violated for Cohere: what message-end says of the tokens is kept.       *)
UsageKept == phase = "done" /\ status = 200 /\ stream /\ Has("end", 0) /\ wire # "openai"
    => acc.usage

-----------------------------------------------------------------------------
(***************************************************************************)
(* The chat over a WebSocket: AdminChatWebSocketController and             *)
(* ChatSessionService.  The single HTTP thread turns a "message" frame     *)
(* into a job of the Cognition lane and a "stop" frame into a flag the job *)
(* polls; the job streams what its chain says back over the connection.    *)
(* Nothing keeps two requests of one session apart, so their jobs may run  *)
(* together.  The connection is an authenticated user's.  The chain is     *)
(* PromptChain; here it is the events it hands to the callbacks and the    *)
(* result it returns.                                                      *)
(***************************************************************************)

CONSTANTS
    Requests,       \* the messages the client may send
    ChatSessions,   \* the sessions it may send them to
    Slots,          \* concurrent calls the provider allows
    MaxEvents,      \* chunks or callbacks of one answer
    MaxStops        \* stop frames the client sends

VARIABLES
    connected,      \* the WebSocket is open
    known,          \* sessions that exist
    signal,         \* the request whose flag ConnectionContext::stopRequested is
    at,             \* where the job of each request is
    of,             \* the session of each request
    turns,          \* the turns of each session, by the request that added them
    cards,          \* unconsumed webchat arrivals of each session
    with,           \* the requests unfinished when that prompt was assembled
    events,         \* chunks or callbacks each answer has had
    result,         \* what each chain returned
    ack,            \* requests whose stop the client has been told of
    late,           \* frames of a request the client got after that
    done,           \* the message id of each request's done frame
    stops           \* stop frames sent

chatVars == <<connected, known, signal, stop, at, of, turns, cards, shown, with,
              events, result, ack, late, done, stops>>

NoRequest == "none"
NoSession == "none"

Running == {"queued", "echo", "echoing", "waits", "starts", "chain", "sending", "ended", "read"}
InFlight == {r \in Requests : at[r] \in Running}
HoldsSlot == {r \in Requests : at[r] \in {"starts", "chain", "sending", "ended", "read"}}

ChatTypeOK ==
    /\ connected \in BOOLEAN /\ known \subseteq ChatSessions
    /\ signal \in Requests \cup {NoRequest} /\ stop \in [Requests -> BOOLEAN]
    /\ at \in [Requests -> Running \cup {"new", "refused", "done"}]
    /\ of \in [Requests -> ChatSessions \cup {NoSession}]
    /\ turns \in [ChatSessions -> Seq(Requests)]
    /\ cards \in [ChatSessions -> SUBSET Requests]
    /\ shown \in [Requests -> SUBSET Requests] /\ with \in [Requests -> SUBSET Requests]
    /\ events \in [Requests -> 0..MaxEvents]
    /\ result \in [Requests -> {"none", "success", "stopped", "error"}]
    /\ ack \subseteq Requests /\ late \in [Requests -> Nat]
    /\ done \in [Requests -> Requests \cup {NoRequest}] /\ stops \in 0..MaxStops

ChatInit ==
    /\ connected = TRUE /\ known = {} /\ signal = NoRequest
    /\ stop = [r \in Requests |-> FALSE]
    /\ at = [r \in Requests |-> "new"] /\ of = [r \in Requests |-> NoSession]
    /\ turns = [s \in ChatSessions |-> <<>>] /\ cards = [s \in ChatSessions |-> {}]
    /\ shown = [r \in Requests |-> {}] /\ with = [r \in Requests |-> {}]
    /\ events = [r \in Requests |-> 0] /\ result = [r \in Requests |-> "none"]
    /\ ack = {} /\ late = [r \in Requests |-> 0]
    /\ done = [r \in Requests |-> NoRequest] /\ stops = 0

jobVars == <<turns, cards, shown, with, events, result, done>>

Move(r, where) == at' = [at EXCEPT ![r] = where]

\* QueueSendJson: one frame of r, dropped when the connection is gone.
Send(r) ==
    late' = IF connected /\ r \in ack THEN [late EXCEPT ![r] = @ + 1] ELSE late

(***************************************************************************)
(* The HTTP thread.                                                        *)
(***************************************************************************)

\* The flag of the request before is taken over and cleared.
FreshSignal_Reset(r) ==
    /\ signal' = r
    /\ stop' = [q \in Requests |-> IF q = signal THEN FALSE ELSE stop[q]]

\* A fresh signal for this request; the earlier one keeps its value.
FreshSignal(r) == /\ signal' = r /\ stop' = [stop EXCEPT ![r] = FALSE]

\* A "message" frame: the session is found or made, the text captured, and the
\* answer enqueued.
HandleMessage(r, s) ==
    /\ connected /\ at[r] = "new"
    /\ known' = known \cup {s}
    /\ of' = [of EXCEPT ![r] = s]
    /\ FreshSignal(r) /\ Move(r, "queued")
    /\ UNCHANGED <<connected, ack, late, stops>> /\ UNCHANGED jobVars

\* A frame refused before the session was looked at, or for a new session whose
\* agent does not exist: the session just made stays.
RefuseMessage(r) ==
    /\ connected /\ at[r] = "new"
    /\ known' \in {known} \cup {known \cup {s} : s \in ChatSessions \ known}
    /\ Move(r, "refused")
    /\ UNCHANGED <<connected, signal, stop, of, ack, late, stops>> /\ UNCHANGED jobVars

\* A "stop" frame sets the current flag, whose request may be over, and is
\* answered "stopped".
HandleStop ==
    /\ connected /\ stops < MaxStops /\ stops' = stops + 1
    /\ IF signal = NoRequest
       THEN UNCHANGED <<stop, ack>>
       ELSE stop' = [stop EXCEPT ![signal] = TRUE] /\ ack' = ack \cup {signal}
    /\ UNCHANGED <<connected, known, signal, at, of, late>> /\ UNCHANGED jobVars

\* handleConnectionClosed does nothing: the jobs go on.
ConnectionClosed ==
    /\ connected /\ connected' = FALSE
    /\ UNCHANGED <<known, signal, stop, at, of, ack, late, stops>> /\ UNCHANGED jobVars

(***************************************************************************)
(* The job of a request.                                                   *)
(***************************************************************************)

quiet == <<connected, known, signal, stop, of, ack, stops>>

\* No provider is configured: the user's turn is added and an echo streamed.
EchoBegins(r) ==
    /\ at[r] = "queued" /\ Move(r, "echo")
    /\ turns' = [turns EXCEPT ![of[r]] = Append(@, r)]
    /\ UNCHANGED <<cards, shown, with, events, result, done, late>> /\ UNCHANGED quiet

\* One chunk: the flag is read, then the chunk sent.
EchoChecks(r) ==
    /\ at[r] = "echo" /\ ~stop[r] /\ events[r] < MaxEvents /\ Move(r, "echoing")
    /\ UNCHANGED <<late, jobVars>> /\ UNCHANGED quiet

EchoChunk(r) ==
    /\ at[r] = "echoing" /\ Move(r, "echo") /\ Send(r)
    /\ events' = [events EXCEPT ![r] = @ + 1]
    /\ UNCHANGED <<turns, cards, shown, with, result, done>> /\ UNCHANGED quiet

\* The partial or the whole text becomes a turn and done names it; a stop before
\* the first chunk leaves no turn and names none.  Both are under m_chatMutex.
EchoEnds(r) ==
    LET text == ~stop[r] \/ events[r] > 0
    IN /\ at[r] = "echo" /\ (stop[r] \/ events[r] > 0) /\ Move(r, "done")
       /\ turns' = IF text THEN [turns EXCEPT ![of[r]] = Append(@, r)] ELSE turns
       /\ done' = [done EXCEPT ![r] = IF text THEN r ELSE NoRequest]
       /\ result' = [result EXCEPT ![r] = IF stop[r] THEN "stopped" ELSE "success"]
       /\ Send(r)
       /\ UNCHANGED <<cards, shown, with, events>> /\ UNCHANGED quiet

\* The provider's slot, held until the job returns (ProviderThrottle).
AwaitSlot(r) ==
    /\ at[r] = "queued" /\ Move(r, "waits")
    /\ UNCHANGED <<late, jobVars>> /\ UNCHANGED quiet

\* The slot is granted; model and context window are resolved and the arrival of
\* an authenticated user recorded.
AddArrival(r) ==
    /\ at[r] = "waits" /\ Cardinality(HoldsSlot) < Slots /\ Move(r, "starts")
    /\ cards' = [cards EXCEPT ![of[r]] = @ \cup {r}]
    /\ UNCHANGED <<turns, shown, with, events, result, done, late>> /\ UNCHANGED quiet

\* ExecuteStreamingOnSession adds the user's turn and assembles the prompt, with
\* a card for every unconsumed arrival of the session.
ChainBegins(r) ==
    /\ at[r] = "starts" /\ Move(r, "chain")
    /\ turns' = [turns EXCEPT ![of[r]] = Append(@, r)]
    /\ shown' = [shown EXCEPT ![r] = cards[of[r]]]
    /\ with' = [with EXCEPT ![r] = InFlight]
    /\ UNCHANGED <<cards, events, result, done, late>> /\ UNCHANGED quiet

\* A callback of the chain: it returns at once when the flag is set.
CallbackChecks(r) ==
    /\ at[r] = "chain" /\ events[r] < MaxEvents
    /\ events' = [events EXCEPT ![r] = @ + 1]
    /\ Move(r, IF stop[r] THEN "chain" ELSE "sending")
    /\ UNCHANGED <<turns, cards, shown, with, result, done, late>> /\ UNCHANGED quiet

CallbackSends(r) ==
    /\ at[r] = "sending" /\ Move(r, "chain") /\ Send(r)
    /\ UNCHANGED jobVars /\ UNCHANGED quiet

\* The chain returns.  A flag set after its last look at it changes nothing.
ChainEnds(r, how) ==
    /\ at[r] = "chain" /\ (how = "stopped" => stop[r]) /\ Move(r, "ended")
    /\ result' = [result EXCEPT ![r] = how]
    /\ turns' = IF how = "success" THEN [turns EXCEPT ![of[r]] = Append(@, r)] ELSE turns
    /\ UNCHANGED <<cards, shown, with, events, done, late>> /\ UNCHANGED quiet

\* Flush and compaction; then the id of the session's last turn is read.
FlushAndRead(r) ==
    /\ at[r] = "ended" /\ Move(r, "read")
    /\ done' = [done EXCEPT ![r] = turns[of[r]][Len(turns[of[r]])]]
    /\ UNCHANGED <<turns, cards, shown, with, events, result, late>> /\ UNCHANGED quiet

\* Only a chain that succeeded consumes them.
Consumed_OnSuccess(r) == IF result[r] = "success" THEN [cards EXCEPT ![of[r]] = {}] ELSE cards

\* MarkAllConsumed: every arrival of the session, whatever the chain returned.
Consumed(r) == [cards EXCEPT ![of[r]] = {}]

\* Arrivals consumed, the error frame when there is one, then done; the slot goes.
JobEnds(r) ==
    /\ at[r] = "read" /\ Move(r, "done") /\ cards' = Consumed(r)
    /\ Send(r)
    /\ UNCHANGED <<turns, shown, with, events, result, done>> /\ UNCHANGED quiet

JobStep(r) ==
    \/ EchoBegins(r) \/ EchoChecks(r) \/ EchoChunk(r) \/ EchoEnds(r)
    \/ AwaitSlot(r) \/ AddArrival(r) \/ ChainBegins(r)
    \/ CallbackChecks(r) \/ CallbackSends(r)
    \/ \E how \in {"success", "stopped", "error"} : ChainEnds(r, how)
    \/ FlushAndRead(r) \/ JobEnds(r)

ChatNext ==
    \/ \E r \in Requests, s \in ChatSessions : HandleMessage(r, s)
    \/ \E r \in Requests : RefuseMessage(r)
    \/ HandleStop
    \/ ConnectionClosed
    \/ \E r \in Requests : JobStep(r)

ChatSpec == ChatInit /\ [][ChatNext]_chatVars

(***************************************************************************)
(* Properties.                                                             *)
(***************************************************************************)

\* Once the client has been told "stopped", the request it stopped sends at most
\* what the callback whose check had already passed sends, and its closing frames,
\* whatever messages and stops follow: a later message gets a flag of its own.
QuietAfterStop == \A r \in Requests : late[r] <= 2

\* The context card of a message is seen by its own chain and by no chain that
\* began after its job had ended, however that job ended.
CardsAreCurrent == \A r \in Requests : shown[r] \subseteq with[r] \cup {r}

\* The id in a done frame is of a turn its own request added.  Not promised by
\* the code: the session's last turn is another job's when two run together.
OwnMessageId == \A r \in Requests : at[r] = "done" => done[r] \in {r, NoRequest}

\* A stopped client has no running request that was not told to stop.  Not so
\* for a request before the latest: its flag is out of the client's reach.
StopReachesAll ==
    \A r \in Requests : stops = MaxStops /\ signal # NoRequest /\ stop[signal]
        => (at[r] \in Running => stop[r])
=============================================================================
