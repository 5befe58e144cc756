------------------------------ MODULE Answering ------------------------------
(***************************************************************************)
(* What a turn says: the message is read by the routing rules, given a     *)
(* history and the excerpts found in the knowledge base, completed by the  *)
(* model and checked before it is sent.  ReplyPipeline has the delivery,   *)
(* SessionLifecycle the session and its welcome, and Quota the limits,     *)
(* which are open here; this module has the contents, of one customer's    *)
(* conversation.                                                           *)
(*                                                                         *)
(* The word classes of a text, besides those of Knowledge: "phone" (the    *)
(* sales number behind a word for price, which reads as an amount),        *)
(* "haggle", "number" (nothing but a large number), "human" (asks for a    *)
(* person), "company", "domain", "out" (subjects), "short" (too few words  *)
(* to refuse), "greeting", "courtesy", "filler", "other" and "long" (in    *)
(* tokens).  A text without any is an emoji or a full stop, or None.       *)
(***************************************************************************)
EXTENDS Knowledge

CONSTANTS
  Messages,            \* ids of inbound messages
  InputsOf,            \* what each message may be: [kind, text, selection]
  Replies,             \* texts the model may return
  OperatorTexts,       \* texts an operator may write
  MaxContextMessages,  \* max_context_messages
  MaxContextTokens,    \* max_context_tokens
  LongTokens,          \* tokens of a "long" text; any other has one
  TopK,                \* rag_top_k
  MaxContextSize       \* rag_max_context_chars, in the unit of the chunk sizes

\* Rows of the bot and of operators are not inbound messages; a message of an
\* unsupported type is recorded by its type, without a text.
ASSUME AnsweringAssumption ==
  /\ {MaxContextMessages, LongTokens, TopK} \subseteq Nat \ {0}
  /\ {MaxContextTokens, MaxContextSize} \subseteq Nat
  /\ Messages \cap {"bot", "operator"} = {}
  /\ \A m \in Messages : \A input \in InputsOf[m] :
       input.kind = "unsupported" => input.text = {}

VARIABLES
  conv,     \* the conversation: its generation, mode, tag, welcome and rows
  turn,     \* the handler of each message
  cache     \* the cached completion of each message, or NoText

turnVars == <<conv, turn, cache>>
vars == <<indexVars, turnVars, events>>

NoText == {"absent"}
Fixed == {"fixed"}       \* company copy: welcome, acknowledgement, fallback ...
deflection == Fixed      \* what a reply that names an amount is replaced by
MessageOverhead == 4

-----------------------------------------------------------------------------
(***************************************************************************)
(* Reading a text.                                                         *)
(***************************************************************************)

\* The sales number is taken out of a reply before it is searched; nothing is
\* taken out of a customer's message.
mentions_amount(text, sales_phone) ==
  \/ text \cap {"amount", "range", "discount", "percent"} # {}
  \/ "phone" \in text /\ ~ sales_phone

\* Mutant: discounts stay, whichever side of the figure their word is on.
redactNoDiscount(text) == Becomes(text \ {"amount", "phone"}, "range", "amount")

\* Each pattern is substituted once: of two figures behind a word for price the
\* second stays, and so does a discount whose figure comes first.
redact(text) == Becomes(text \ {"amount", "discount", "phone"}, "range", "amount")

is_negotiating(text) ==
  mentions_amount(text, FALSE) \/ text \cap {"haggle", "number"} # {}

wants_human(text) == "human" \in text

is_sales_lead(text) == "callback" \in text

_is_only(text, identifying) ==
  /\ identifying \in text
  /\ text \subseteq {identifying, "filler", "short", "long"}

is_courtesy_only(text) == _is_only(text, "courtesy")
is_greeting_only(text) == ~ is_courtesy_only(text) /\ _is_only(text, "greeting")

is_unintelligible(text) == text = {}

classify(text) ==
  CASE "company" \in text -> "company"
    [] "domain" \in text /\ "company" \notin text -> "domain"
    [] text \cap {"company", "domain"} = {} ->
         IF "out" \in text /\ "short" \notin text THEN "out_of_scope" ELSE "company"

\* Markers of the document fence are taken out, in one pass: what that leaves of
\* a marker inside a marker is a marker.
_neutralise(text) == Becomes(text \ {"fence"}, "nested", "fence")
_prepare(text) == _neutralise(redact(text))

-----------------------------------------------------------------------------
(***************************************************************************)
(* What the model is given.                                                *)
(***************************************************************************)

count_tokens(text) == IF "long" \in text THEN LongTokens ELSE 1
Cost(row) == count_tokens(row.text) + MessageOverhead

LastOf(s, n) == IF Len(s) <= n THEN s ELSE SubSeq(s, Len(s) - n + 1, Len(s))

\* Mutant: a newest message over the limit is dropped too.
trim_historyStrict(history) ==
  LET step(state, row) ==
        IF state.stop \/ state.total + Cost(row) > MaxContextTokens
        THEN [state EXCEPT !.stop = TRUE]
        ELSE [state EXCEPT !.kept = <<row>> \o @, !.total = @ + Cost(row)]
  IN  FoldLeft(step, [kept |-> <<>>, total |-> 0, stop |-> FALSE],
               Reverse(LastOf(history, MaxContextMessages))).kept

\* From the newest back until one does not fit; the newest is always kept.
trim_history(history) ==
  LET step(state, row) ==
        IF state.stop \/ (state.kept # <<>> /\ state.total + Cost(row) > MaxContextTokens)
        THEN [state EXCEPT !.stop = TRUE]
        ELSE [state EXCEPT !.kept = <<row>> \o @, !.total = @ + Cost(row)]
  IN  FoldLeft(step, [kept |-> <<>>, total |-> 0, stop |-> FALSE],
               Reverse(LastOf(history, MaxContextMessages))).kept

build_history(rows) == trim_history(LastOf(rows, 2 * MaxContextMessages))

\* The closest chunks of the index that are close enough, in any order the
\* similarity may give them.
Chunk == UNION {document[s].chunks : s \in {s \in Sources : document[s].stored}}
search == {hits \in UNION {[1 .. n -> Chunk] : n \in 0 .. TopK} : IsInjective(hits)}

\* As many as fit, stopping at the first that does not.
Fits(hits, n) ==
  FoldLeft(LAMBDA total, hit : total + hit.size, 0, SubSeq(hits, 1, n)) <= MaxContextSize
retrieve(hits) ==
  LET first == Min({n \in 1 .. Len(hits) : ~ Fits(hits, n)} \cup {Len(hits) + 1})
  IN  SubSeq(hits, 1, first - 1)

\* The layer of the instructions that depends on the turn, and the excerpts in
\* it.
build_instructions(documents, attempted, general) ==
  [layer |-> CASE documents # <<>> -> "documents"
               [] documents = <<>> /\ attempted -> "none found"
               [] documents = <<>> /\ ~ attempted ->
                    IF general THEN "general question" ELSE "none",
   excerpts |-> [i \in DOMAIN documents |-> _prepare(documents[i].text)]]

-----------------------------------------------------------------------------
(***************************************************************************)
(* Menu selections.                                                        *)
(***************************************************************************)

SALES_SELECTIONS == {"request_quote", "request_visit", "request_callback"}
SERVICE_SELECTIONS == {"service_finishing", "service_commercial", "service_contracting"}
TALK_TO_EMPLOYEE == "talk_to_employee"

\* Mutant: captions are not read.
ReadsNoCaption(input) == IF input.kind \in {"unsupported", "media"} THEN {} ELSE input.text

\* The text a handler reads: that of the message, the label of the selection,
\* the caption.
Reads(input) == IF input.kind = "unsupported" THEN {} ELSE input.text

-----------------------------------------------------------------------------
(***************************************************************************)
(* The turn.                                                               *)
(***************************************************************************)

NewConversation(n) ==
  [id |-> n, mode |-> "bot", tag |-> "none", welcomed |-> FALSE, rows |-> <<>>]

NoTurn == [at |-> "none"]
NoPrompt == [layer |-> "none", excerpts |-> <<>>]

InitTurns ==
  /\ conv = NewConversation(0)
  /\ turn = [m \in Messages |-> NoTurn]
  /\ cache = [m \in Messages |-> NoText]

Claimed(m) == \E i \in DOMAIN conv.rows : conv.rows[i].from = m

\* The handler's rows are still there.
Alive(m) == turn[m].conv = conv.id

Busy(m) == turn[m].at \in {"route", "prepare", "lookup", "generate", "check", "fixed"}

\* A handler claims the message and keeps the row it loaded.  A message is
\* redelivered as it was.
Receive(m, input) ==
  /\ Event
  /\ ~ Busy(m) /\ ~ Claimed(m)
  /\ turn[m].at # "none" => turn[m].input = input
  /\ conv' = [conv EXCEPT !.rows = Append(@, [from |-> m, text |-> input.text])]
  /\ turn' = [turn EXCEPT ![m] =
                [at |-> "route", conv |-> conv.id, input |-> input, mode |-> conv.mode,
                 first |-> ~ conv.welcomed, reply |-> NoText, history |-> <<>>,
                 prompt |-> NoPrompt]]
  /\ UNCHANGED <<indexVars, cache>>

\* The handler returns, or dies, and its local state with it.
Return(m, how) ==
  turn' = [turn EXCEPT ![m].at = how, ![m].first = FALSE, ![m].reply = NoText,
                       ![m].history = <<>>, ![m].prompt = NoPrompt]
Goto(m, at) == turn' = [turn EXCEPT ![m].at = at]
SendCopy(m, first) == turn' = [turn EXCEPT ![m].at = "fixed", ![m].first = first]

\* The mode is committed before the acknowledgement is sent.  Nothing happens
\* if the row is gone: the UPDATE raises.
HandOver(m, tag) ==
  IF Alive(m)
  THEN /\ conv' = [conv EXCEPT !.mode = "human", !.tag = IF tag = "none" THEN @ ELSE tag]
       /\ SendCopy(m, FALSE)
  ELSE Return(m, "done") /\ UNCHANGED conv

Routing(m) ==
  /\ turn[m].at = "route"
  /\ UNCHANGED <<indexVars, events, cache>>

\* _handled_by_human.
LeaveToOperator(m) ==
  /\ Routing(m)
  /\ turn[m].mode = "human"
  /\ Return(m, "done")
  /\ UNCHANGED conv

BeginHandoff(m) ==
  LET text == Reads(turn[m].input)
  IN  /\ Routing(m)
      /\ turn[m].mode = "bot"
      /\ \/ is_negotiating(text) /\ HandOver(m, "sales_lead")
         \/ /\ ~ is_negotiating(text) /\ wants_human(text)
            /\ HandOver(m, IF is_sales_lead(text) THEN "sales_lead" ELSE "none")

Unhanded(m) ==
  LET text == Reads(turn[m].input)
  IN  turn[m].mode = "bot" /\ ~ is_negotiating(text) /\ ~ wants_human(text)

\* _within_quota refuses, with or without an explanation.
RefuseByQuota(m) ==
  /\ Routing(m) /\ Unhanded(m)
  /\ turn[m].input.kind # "unsupported"
  /\ Return(m, "done") \/ SendCopy(m, FALSE)
  /\ UNCHANGED conv

RouteText(m) ==
  LET text == turn[m].input.text
      first == turn[m].first /\ ~ is_courtesy_only(text)
  IN  /\ Routing(m) /\ Unhanded(m)
      /\ turn[m].input.kind = "text"
      /\ IF \/ first /\ (is_unintelligible(text) \/ is_greeting_only(text))
            \/ classify(text) = "out_of_scope"
         THEN SendCopy(m, first)
         ELSE turn' = [turn EXCEPT ![m].at = "prepare", ![m].first = first]
      /\ UNCHANGED conv

RouteSelection(m) ==
  LET selection == turn[m].input.selection
  IN  /\ Routing(m) /\ Unhanded(m)
      /\ turn[m].input.kind = "interactive"
      /\ \/ selection \in SALES_SELECTIONS /\ HandOver(m, "sales_lead")
         \/ selection = TALK_TO_EMPLOYEE /\ HandOver(m, "none")
         \/ /\ selection \in SERVICE_SELECTIONS
            /\ SendCopy(m, turn[m].first) /\ UNCHANGED conv
         \/ /\ selection \notin SALES_SELECTIONS \cup SERVICE_SELECTIONS \cup {TALK_TO_EMPLOYEE}
            /\ Goto(m, "prepare") /\ UNCHANGED conv

RouteMedia(m) ==
  /\ Routing(m) /\ Unhanded(m)
  /\ turn[m].input.kind = "media"
  /\ Goto(m, "prepare")
  /\ UNCHANGED conv

RouteUnsupported(m) ==
  /\ Routing(m) /\ Unhanded(m)
  /\ turn[m].input.kind = "unsupported"
  /\ SendCopy(m, turn[m].first)
  /\ UNCHANGED conv

\* The knowledge base is searched for a text about the company, a label, a
\* caption.
Query(m) ==
  LET input == turn[m].input
  IN  IF input.kind = "text" THEN classify(input.text) = "company" ELSE input.text # {}

\* The appended note on a medium the model cannot see.
MediaNote(m) ==
  IF turn[m].input.kind = "media" THEN <<[from |-> m, text |-> turn[m].input.text]>> ELSE <<>>

\* The history is read first, and kept while the rest is prepared.
BuildHistory(m) ==
  /\ turn[m].at = "prepare"
  /\ turn' = [turn EXCEPT
       ![m].at = "lookup",
       ![m].history = IF Alive(m) THEN build_history(conv.rows) \o MediaNote(m) ELSE MediaNote(m)]
  /\ UNCHANGED <<indexVars, events, conv, cache>>

\* A completion is replayed from the cache ...
Replay(m) ==
  /\ turn[m].at = "lookup"
  /\ cache[m] # NoText
  /\ turn' = [turn EXCEPT ![m].at = "check", ![m].reply = cache[m], ![m].history = <<>>,
                          ![m].prompt = NoPrompt]
  /\ UNCHANGED <<indexVars, events, conv, cache>>

\* ... or, when there is none or the cache does not answer, the instructions are
\* built.  A failing search finds nothing.
Prepare(m) ==
  /\ turn[m].at = "lookup"
  /\ \E hits \in IF Query(m) THEN search ELSE {<<>>} :
       turn' = [turn EXCEPT
         ![m].at = "generate",
         ![m].prompt = build_instructions(retrieve(hits), Query(m),
                         turn[m].input.kind = "text" /\ classify(turn[m].input.text) = "domain")]
  /\ UNCHANGED <<indexVars, events, conv, cache>>

\* The model answers with any text, which is cached, or the cache write fails.
Generate(m, text) ==
  LET reply == IF text = {} THEN Fixed ELSE text
  IN  /\ turn[m].at = "generate"
      /\ turn' = [turn EXCEPT ![m].at = "check", ![m].reply = reply,
                              ![m].history = <<>>, ![m].prompt = NoPrompt]
      /\ cache' = [cache EXCEPT ![m] = reply] \/ UNCHANGED cache
      /\ UNCHANGED <<indexVars, events, conv>>

\* ExternalServiceError: the fallback reply.
GenerationFails(m) ==
  /\ turn[m].at = "generate"
  /\ turn' = [turn EXCEPT ![m].at = "check", ![m].reply = Fixed,
                          ![m].history = <<>>, ![m].prompt = NoPrompt]
  /\ UNCHANGED <<indexVars, events, conv, cache>>

\* _send_once: the reply is recorded, then sent.  A welcome counts when it was
\* sent.  Into a conversation that is gone nothing is recorded or sent.
SendOnce(m, text, sent) ==
  /\ conv' = IF Alive(m)
             THEN [conv EXCEPT !.rows = Append(@, [from |-> "bot", text |-> text]),
                               !.welcomed = @ \/ (sent /\ turn[m].first)]
             ELSE conv
  /\ Return(m, "done")

\* Mutant: the amounts are taken out of the reply, the way they are taken out of
\* the documents.
CheckAndSendRedacted(m) ==
  /\ turn[m].at = "check"
  /\ \E sent \in BOOLEAN :
       /\ SendOnce(m, redact(turn[m].reply), sent)
       /\ cache' = IF sent /\ Alive(m) THEN [cache EXCEPT ![m] = NoText] ELSE cache
  /\ UNCHANGED <<indexVars, events>>

\* A reply that mentions an amount is replaced, a replayed one too.
CheckAndSend(m) ==
  LET text == IF mentions_amount(turn[m].reply, TRUE) THEN deflection ELSE turn[m].reply
  IN  /\ turn[m].at = "check"
      /\ \E sent \in BOOLEAN :
           /\ SendOnce(m, text, sent)
           /\ cache' = IF sent /\ Alive(m) THEN [cache EXCEPT ![m] = NoText] ELSE cache
      /\ UNCHANGED <<indexVars, events>>

SendFixed(m) ==
  /\ turn[m].at = "fixed"
  /\ \E sent \in BOOLEAN : SendOnce(m, Fixed, sent)
  /\ UNCHANGED <<indexVars, events, cache>>

\* The worker dies.  The redelivered message is a duplicate.
Crash(m) ==
  /\ Busy(m)
  /\ Event
  /\ Return(m, IF turn[m].at = "route" THEN "lost" ELSE "done")
  /\ UNCHANGED <<indexVars, conv, cache>>

-----------------------------------------------------------------------------
(***************************************************************************)
(* Operators.                                                              *)
(***************************************************************************)

\* An operator may write what the bot may not; nothing checks it.
OperatorReply(text) ==
  /\ Event
  /\ conv.rows # <<>>
  /\ conv' = [conv EXCEPT !.rows = Append(@, [from |-> "operator", text |-> text])]
  /\ UNCHANGED <<indexVars, turn, cache>>

SwitchMode(mode) ==
  /\ Event
  /\ conv.rows # <<>> /\ conv.mode # mode
  /\ conv' = [conv EXCEPT !.mode = mode]
  /\ UNCHANGED <<indexVars, turn, cache>>

\* With its rows go the claims of its messages; the cache stays.
DeleteConversation ==
  /\ Event
  /\ conv.rows # <<>>
  /\ conv' = NewConversation(conv.id + 1)
  /\ UNCHANGED <<indexVars, turn, cache>>

-----------------------------------------------------------------------------
Init == InitIndex /\ InitTurns

TurnStep(m) ==
  \/ \E input \in InputsOf[m] : Receive(m, input)
  \/ LeaveToOperator(m) \/ BeginHandoff(m) \/ RefuseByQuota(m)
  \/ RouteText(m) \/ RouteSelection(m) \/ RouteMedia(m) \/ RouteUnsupported(m)
  \/ BuildHistory(m) \/ Replay(m) \/ Prepare(m) \/ GenerationFails(m) \/ CheckAndSend(m) \/ SendFixed(m)
  \/ \E text \in Replies : Generate(m, text)
  \/ Crash(m)

Next ==
  \/ NextIndex /\ UNCHANGED turnVars
  \/ \E m \in Messages : TurnStep(m)
  \/ \E text \in OperatorTexts : OperatorReply(text)
  \/ \E mode \in {"bot", "human"} : SwitchMode(mode)
  \/ DeleteConversation

Spec == Init /\ [][Next]_vars

-----------------------------------------------------------------------------
(***************************************************************************)
(* Properties.                                                             *)
(***************************************************************************)

TotalCost(rows) == FoldLeft(LAMBDA sum, row : sum + Cost(row), 0, rows)

\* Documents and chunks are well formed (DocumentOK), the conversation has
\* one row per claimed message, and every bound holds, that on the excerpts of
\* a prompt included.
TypeOK ==
  /\ \A s \in Sources : DocumentOK(s)
  /\ conv.id \in 0 .. MaxEvents
  /\ conv.mode \in {"bot", "human"} /\ conv.tag \in {"none", "sales_lead"}
  /\ \A i, j \in DOMAIN conv.rows :
       conv.rows[i].from = conv.rows[j].from /\ conv.rows[i].from \in Messages => i = j
  /\ events \in 0 .. MaxEvents
  /\ \A m \in Messages :
       Busy(m) => /\ Len(turn[m].prompt.excerpts) <= TopK
                  /\ Len(turn[m].history) <= MaxContextMessages + 1

\* No reply of the bot names an amount, a discount included: neither one of the
\* model, whatever it returns, nor one replayed for a redelivered message
\* (chat_service.py, the scan before the send).
NoAmountFromBot ==
  \A i \in DOMAIN conv.rows :
    conv.rows[i].from = "bot" => ~ mentions_amount(conv.rows[i].text, TRUE)

\* The pages of the files that say nowhere that they are unfinished.
FinishedTexts ==
  UNION {{read_pages(content)[i].text : i \in DOMAIN read_pages(content)} :
           content \in {content \in Contents :
             \A i \in DOMAIN read_pages(content) : "todo" \notin read_pages(content)[i].text}}

\* What an excerpt may have of a page: a figure is the second of a range, or that
\* of a discount it comes before; a marker of the fence is left of a marker
\* inside a marker, a placeholder is put together of one that was broken.
ExcerptOf(excerpt, text) ==
  /\ excerpt \cap {"range", "discount", "phone", "nested", "broken"} = {}
  /\ "amount" \in excerpt => "range" \in text
  /\ "fence" \in excerpt => "nested" \in text
  /\ "todo" \in excerpt => "broken" \in text
  /\ excerpt \ {"amount", "fence", "todo"} \subseteq text

\* An excerpt the model is shown comes from a page of a file that was finished
\* when the script read it, and what the customer must not see is in it only where
\* one pass does not find it, whatever staff put into the folder and whenever they
\* edit it (knowledge_guard.py, price_policy.py, prompt_builder.py).
ExcerptsAreClean ==
  \A m \in Messages : Busy(m) =>
    \A i \in DOMAIN turn[m].prompt.excerpts :
      \E text \in FinishedTexts : ExcerptOf(turn[m].prompt.excerpts[i], text)

\* The history given to the model is the longest run of newest messages within
\* both limits, and never empty (trim_history).
HistoryIsLongestRecent ==
  LET rows == conv.rows
      h == build_history(rows)
  IN  /\ IsSuffix(h, rows)
      /\ rows # <<>> => h # <<>>
      /\ Len(h) <= MaxContextMessages
      /\ Len(h) > 1 => TotalCost(h) <= MaxContextTokens
      /\ Len(h) < Len(rows) /\ Len(h) < MaxContextMessages
           => TotalCost(LastOf(rows, Len(h) + 1)) > MaxContextTokens

\* A message in which the customer bargains, of any kind, never goes to the
\* model, and once it has been read the conversation is a sales lead for as long as
\* it exists, through resumptions and later handoffs (_handled_by_human, set_mode).
HaggledIsALead ==
  \A m \in Messages :
    turn[m].at \in {"prepare", "lookup", "generate", "check", "fixed", "done"} /\ turn[m].mode = "bot"
      /\ is_negotiating(turn[m].input.text) =>
      /\ turn[m].at \notin {"prepare", "lookup", "generate", "check"}
      /\ Alive(m) => conv.tag = "sales_lead"
=============================================================================
