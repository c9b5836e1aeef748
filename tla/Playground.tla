----------------------------- MODULE Playground -----------------------------
(***************************************************************************)
(* The chat playground of the web console: the conversation, the request   *)
(* that fills its last message, and the copy kept in localStorage.         *)
(*                                                                         *)
(* Three things run side by side in one page: the user, the answer of the  *)
(* server (a stream of chunks or one response) and React, which evaluates  *)
(* queued message updates when it renders.  useChatHandler guards every    *)
(* update with a generation number and createStreamRequestController every *)
(* event with a second one.  An update is evaluated when it is queued      *)
(* (React's eager path, possible only while nothing is queued) or when it  *)
(* is rendered; which of the two is React's choice.  A user event is       *)
(* rendered before the next event is handled.                              *)
(*                                                                         *)
(* Text is a sequence of tokens [k, c]: letter c of the answer to send k.  *)
(* Timing, wording and the settings panel are left out.                    *)
(***************************************************************************)
EXTENDS Naturals, SequencesExt

CONSTANTS
    Alphabet,   \* the letters of the answers
    Scripts,    \* the streams a server may send: sequences of [type, text]
    MaxSends,   \* bound: requests of one page
    MaxActs,    \* bound: stops, edits, deletions, reloads, cut streams, refused saves
    MaxStored   \* MAX_STORED_MESSAGES

\* A stream of deltas of the content or of the reasoning.
Chunk == [type: {"content", "reasoning"}, text: Seq(Alphabet)]

ASSUME ScriptsAssumption == Scripts \subseteq Seq(Chunk)
ASSUME MaxSendsAssumption == MaxSends \in Nat
ASSUME MaxActsAssumption == MaxActs \in Nat
ASSUME MaxStoredAssumption == MaxStored \in Nat \ {0}

VARIABLES
    messages,   \* the conversation as last rendered
    queue,      \* message updates React has not rendered yet
    shown,      \* isGenerating as last rendered
    requesting, streaming,   \* isRequesting and isStreaming as last set
    gen,        \* requestGenerationRef
    pending,    \* pendingStreamChunksRef
    timer,      \* streamFlushTimerRef: [gen, armed], gen 0 for null
    ctl,        \* generation of the stream controller
    source,     \* its active source: the send it belongs to, or 0
    req,        \* the requests, by send
    sends,      \* how many sends there were
    editing,    \* editingMessageKey
    latest,     \* latestMessagesRef
    saveTimer,  \* messagesSaveTimerRef is set
    stored,     \* the messages in localStorage
    refused,    \* the last write to localStorage failed
    mounted,    \* the page shows the playground
    overwritten,\* an edit was saved over updates that were not rendered yet
    acts        \* how many bounded actions there were

vars == <<messages, queue, shown, requesting, streaming, gen, pending, timer, ctl,
          source, req, sends, editing, latest, saveTimer, stored, refused, mounted,
          overwritten, acts>>
chatVars == <<requesting, streaming, gen, pending, timer, ctl, source, req, sends>>
saveVars == <<latest, saveTimer, stored, refused>>

Send == 1..MaxSends
Think == "<think>"
EndThink == "</think>"

\* The error text and an edit by the user, which belong to no answer.
ErrorToken == [k |-> 0, c |-> "error"]
UserToken == [k |-> 0, c |-> "user"]

NoKey == <<"none", 0>>
KeyOf(m) == <<m.from, m.k>>
NoText == [content |-> <<>>, reasoning |-> <<>>]
HasText(p) == p.content # <<>> \/ p.reasoning # <<>>

-----------------------------------------------------------------------------
(* Text: snapshots and think tags.                                         *)

\* mergePendingStreamChunk: a chunk that starts with what is pending replaces it.
MergePendingStreamChunk(current, next) ==
    IF current = <<>> \/ ~IsPrefix(current, next) THEN current \o next ELSE next

\* Seeded bug: every chunk is taken for a delta.
AppendWholeChunk(current, chunk) == chunk

\* getAppendableChunk: of a chunk that starts with the message, the rest.
GetAppendableChunk(current, chunk) ==
    IF current = <<>> \/ ~IsPrefix(current, chunk)
    THEN chunk
    ELSE SubSeq(chunk, Len(current) + 1, Len(chunk))

ParseStep(acc, token) ==
    CASE acc.open /\ token.c = EndThink -> [acc EXCEPT !.open = FALSE]
      [] acc.open /\ token.c # EndThink -> [acc EXCEPT !.reasoning = Append(@, token)]
      [] ~acc.open /\ token.c = Think -> [acc EXCEPT !.open = TRUE]
      [] OTHER -> [acc EXCEPT !.content = Append(@, token)]

\* parseThinkTags
ParseThinkTags(text) ==
    FoldLeft(ParseStep, [content |-> <<>>, reasoning |-> <<>>, open |-> FALSE], text)

HasThink(text) == \E i \in DOMAIN text : text[i].c = Think

-----------------------------------------------------------------------------
(* Messages.                                                               *)

User(k) == [from |-> "user", k |-> k, status |-> "complete",
            content |-> <<UserToken>>, reasoning |-> <<>>, whole |-> FALSE]
Loading(k) == [from |-> "assistant", k |-> k, status |-> "loading",
               content |-> <<>>, reasoning |-> <<>>, whole |-> FALSE]

IsPending(m) == m.status \in {"loading", "streaming"}
IsFinal(m) == m.status \in {"complete", "error"}

\* processStreamingContent keeps the tags; the reasoning follows them.
ProcessStreamingContent(m, chunk) ==
    LET full == m.content \o chunk
        parsed == ParseThinkTags(full)
    IN  [m EXCEPT !.content = full,
                  !.reasoning = IF HasThink(full) /\ parsed.reasoning # <<>>
                                THEN parsed.reasoning ELSE @]

\* applyStreamingChunk, for the reasoning and then for the content
ApplyStreamingChunk(m, text) ==
    LET r == [m EXCEPT !.reasoning = @ \o GetAppendableChunk(@, text.reasoning)]
        c == ProcessStreamingContent(r, GetAppendableChunk(r.content, text.content))
    IN  IF m.status = "error" THEN m
        ELSE [(IF text.content # <<>> THEN c ELSE r) EXCEPT !.status = "streaming"]

\* finalizeMessage
FinalizeMessage(m, reasoning) ==
    LET parsed == ParseThinkTags(m.content) IN
    [m EXCEPT !.content = parsed.content,
              !.reasoning = CASE reasoning # <<>> -> reasoning
                              [] reasoning = <<>> /\ m.reasoning # <<>> -> m.reasoning
                              [] OTHER -> parsed.reasoning]

\* Seeded bug: a status that nothing else knows.
CompleteAsDone(m) == [FinalizeMessage(m, <<>>) EXCEPT !.status = "done"]

CompleteAssistantMessage(m) == [FinalizeMessage(m, <<>>) EXCEPT !.status = "complete"]

\* applyChatCompletionChoice
ApplyChatCompletionChoice(m, text) ==
    [FinalizeMessage([m EXCEPT !.content = text.content], text.reasoning)
        EXCEPT !.status = "complete", !.whole = TRUE]

\* updateAssistantMessageWithError, inside updateLastAssistantMessage
ErrorMessage(m) == [m EXCEPT !.content = <<ErrorToken>>, !.status = "error"]

\* What one queued update does to the last assistant message.
UpdateMessage(m, u) ==
    CASE u.kind = "flush" -> ApplyStreamingChunk(m, u.text)
      [] u.kind = "complete" -> IF IsFinal(m) THEN m
                                ELSE [CompleteAssistantMessage(m) EXCEPT !.whole = TRUE]
      [] u.kind = "response" -> ApplyChatCompletionChoice(m, u.text)
      [] u.kind = "error" -> ErrorMessage(m)
      [] OTHER -> IF IsPending(m) THEN CompleteAssistantMessage(m) ELSE m

\* A queued update, evaluated while requestGenerationRef is g.
Apply(list, u, g) ==
    CASE u.kind = "value" -> u.list
      [] u.kind # "value" /\ u.gen = g /\ list # <<>> /\ Last(list).from = "assistant" ->
            ReplaceAt(list, Len(list), UpdateMessage(Last(list), u))
      [] OTHER -> list

\* React evaluates what is queued, in order.
Drain(q, g) == FoldLeft(LAMBDA list, u : Apply(list, u, g), messages, q)

Update(kind, g, text) == [kind |-> kind, gen |-> g, text |-> text, list |-> <<>>]
Value(list) == [kind |-> "value", gen |-> 0, text |-> NoText, list |-> list]

\* setMessages(updater): queued, or evaluated at once when nothing is queued.
Enqueue(q, u) ==
    {Append(q, u)} \cup
    {x \in {<<Value(Apply(messages, u, gen))>>} : q = <<>>}

\* persistMessages runs inside the updater: with it, an early evaluation saves.
Persist(q) ==
    IF queue = <<>> /\ q # <<>> /\ q[1].kind = "value"
    THEN latest' = q[1].list /\ saveTimer' = TRUE
    ELSE UNCHANGED <<latest, saveTimer>>

-----------------------------------------------------------------------------
(* Storage.                                                                *)

\* trimMessages
Trim(list) ==
    IF Len(list) <= MaxStored THEN list
    ELSE SubSeq(list, Len(list) - MaxStored + 1, Len(list))

\* normalizeStoredMessageForLoad: a pending message with text is completed.
NormalizeStored(m) ==
    IF IsPending(m) /\ HasText(m) THEN CompleteAssistantMessage(m) ELSE m

\* sanitizeMessagesOnLoad: the last pending message left is an error.
SanitizeMessagesOnLoad(list) ==
    LET left == {i \in DOMAIN list : IsPending(list[i])} IN
    IF left = {} THEN list
    ELSE LET i == CHOOSE i \in left : \A j \in left : j <= i
             m == FinalizeMessage(list[i], <<>>)
         IN  ReplaceAt(list, i, IF HasText(m) THEN [m EXCEPT !.status = "complete"]
                                ELSE ErrorMessage(m))

\* saveMessages: a list the schema refuses or the browser has no room for is not
\* written, and nobody is told.
SaveMessages(list) ==
    \/ stored' = Trim(list) /\ refused' = FALSE
    \/ stored' = stored /\ refused' = TRUE

\* Seeded bug: what was stored is shown as it is.
LoadRaw(list) == Trim(list)

\* loadMessages
LoadMessages(list) ==
    SanitizeMessagesOnLoad(Trim([i \in DOMAIN list |-> NormalizeStored(list[i])]))

-----------------------------------------------------------------------------
NoReq == [pc |-> "none", gen |-> 0, ctl |-> 0, script |-> <<>>, sent |-> 0, answer |-> NoText,
          completed |-> FALSE, cut |-> FALSE]
NoTimer == [gen |-> 0, armed |-> FALSE]

\* A page that has just mounted the playground, with nothing stored.
Init ==
    /\ messages = <<>> /\ latest = <<>> /\ stored = <<>>
    /\ queue = <<>> /\ shown = FALSE /\ requesting = FALSE /\ streaming = FALSE
    /\ gen = 0 /\ pending = [gen |-> 0, text |-> NoText] /\ timer = NoTimer
    /\ ctl = 0 /\ source = 0 /\ req = [k \in Send |-> NoReq] /\ sends = 0
    /\ editing = NoKey /\ saveTimer = FALSE /\ refused = FALSE /\ mounted = TRUE
    /\ overwritten = FALSE /\ acts = 0

Spend == acts < MaxActs /\ acts' = acts + 1

-----------------------------------------------------------------------------
(* Starting and stopping a request.                                        *)

Tokens(k, text) == [i \in DOMAIN text |-> [k |-> k, c |-> text[i]]]

\* What all chunks of one type amount to, and so the answer without a stream.
FullText(k, script) ==
    [type \in {"content", "reasoning"} |->
        Tokens(k, FoldLeft(LAMBDA text, c : IF c.type # type THEN text
                                            ELSE MergePendingStreamChunk(text, c.text),
                           <<>>, script))]

CloseSource(s) == [k \in Send |-> IF k = s /\ req[k].pc = "open"
                                  THEN [req[k] EXCEPT !.pc = "closed"] ELSE req[k]]

\* Seeded bug: the buffer is handed to the new generation as it is.
DiscardKeepsText(g) ==
    /\ pending' = [pending EXCEPT !.gen = g]
    /\ timer' = NoTimer

\* discardPendingStreamUpdates
DiscardPending(g) ==
    /\ pending' = [gen |-> g, text |-> NoText]
    /\ timer' = NoTimer

\* sendStreamingChat with the first half of the controller's send, or
\* sendNonStreamingChat up to its await: both close the stream before them.
SendChat(list, pc, script) ==
    /\ sends < MaxSends
    /\ sends' = sends + 1
    /\ gen' = gen + 1
    /\ DiscardPending(gen + 1)
    /\ ctl' = ctl + 1 /\ source' = 0
    /\ req' = [CloseSource(source) EXCEPT ![sends + 1] =
                  [NoReq EXCEPT !.pc = pc, !.gen = gen + 1, !.ctl = ctl + 1,
                                !.script = script, !.answer = FullText(sends + 1, script)]]
    /\ requesting' = TRUE /\ streaming' = FALSE

\* A click is rendered at once: list is what the queue and the click lead to.
Rendered(list) ==
    /\ messages' = list /\ queue' = <<>>
    /\ latest' = list /\ saveTimer' = TRUE
    /\ shown' = (requesting' \/ streaming')

Ask(list) ==
    /\ \E pc \in {"headers", "posted"}, script \in Scripts : SendChat(list, pc, script)
    /\ Rendered(list)

\* handleSendMessage: the submit button and the prompts of an empty chat
HandleSendMessage ==
    /\ mounted /\ ~shown
    /\ Ask(messages \o <<User(sends + 1), Loading(sends + 1)>>)
    /\ UNCHANGED <<editing, stored, refused, mounted, overwritten, acts>>

\* handleRegenerateMessage: the regenerate and retry buttons
HandleRegenerateMessage(i) ==
    /\ mounted /\ ~shown
    /\ messages[i].content # <<>> /\ ~IsPending(messages[i])
    /\ Ask(SubSeq(messages, 1, IF messages[i].from = "user" THEN i ELSE i - 1)
             \o <<Loading(sends + 1)>>)
    /\ UNCHANGED <<editing, stored, refused, mounted, overwritten, acts>>

\* The messages that do not have the key.
Without(list, key) ==
    FoldLeft(LAMBDA rest, m : IF KeyOf(m) = key THEN rest ELSE Append(rest, m), <<>>, list)

HandleDeleteMessage(i) ==
    /\ mounted /\ ~shown /\ Spend
    /\ UNCHANGED chatVars
    /\ Rendered(Without(Drain(queue, gen), KeyOf(messages[i])))
    /\ UNCHANGED <<editing, stored, refused, mounted, overwritten>>

HandleClearMessages ==
    /\ mounted /\ ~shown /\ messages # <<>> /\ Spend
    /\ UNCHANGED chatVars
    /\ Rendered(<<>>) /\ editing' = NoKey
    /\ UNCHANGED <<stored, refused, mounted, overwritten>>

\* handleEditMessage is guarded; the editor then stays open.
HandleEditMessage(i) ==
    /\ mounted /\ ~shown /\ messages[i].content # <<>>
    /\ editing # KeyOf(messages[i])
    /\ editing' = KeyOf(messages[i]) /\ Spend
    /\ UNCHANGED <<messages, queue, shown, chatVars, saveVars, mounted, overwritten>>

\* applyEdit without submit: the list is the one last rendered.
SaveEdit(i) ==
    /\ mounted /\ editing = KeyOf(messages[i])
    /\ editing' = NoKey
    /\ UNCHANGED chatVars
    /\ Rendered(ReplaceAt(messages, i, [messages[i] EXCEPT !.content = <<UserToken>>,
                                                           !.whole = FALSE]))
    /\ overwritten' = (overwritten \/ queue # <<>>)
    /\ UNCHANGED <<stored, refused, mounted, acts>>

\* applyEdit with submit, for a message of the user
SubmitEdit(i) ==
    /\ mounted /\ editing = KeyOf(messages[i]) /\ messages[i].from = "user"
    /\ editing' = NoKey
    /\ Ask(SubSeq(messages, 1, i) \o <<Loading(sends + 1)>>)
    /\ UNCHANGED <<stored, refused, mounted, overwritten, acts>>

FlushQueues(g) ==
    IF pending.gen = g /\ HasText(pending.text)
    THEN Enqueue(queue, Update("flush", g, pending.text))
    ELSE {queue}

\* stopGeneration
StopGeneration ==
    /\ mounted /\ shown /\ Spend
    /\ gen' = gen + 1
    /\ DiscardPending(gen + 1)
    /\ ctl' = ctl + 1 /\ source' = 0 /\ req' = CloseSource(source)
    /\ requesting' = FALSE /\ streaming' = FALSE
    /\ \E q \in FlushQueues(gen) :
          Rendered(Drain(Append(q, Update("stop", gen + 1, NoText)), gen + 1))
    /\ UNCHANGED <<sends, editing, stored, refused, mounted, overwritten>>

-----------------------------------------------------------------------------
(* The answer.                                                             *)

\* flushStreamUpdates
FlushStreamUpdates(g) ==
    IF g # gen THEN UNCHANGED <<pending, timer>> /\ queue' = queue
    ELSE /\ timer' = NoTimer
         /\ pending' = IF pending.gen = g THEN [pending EXCEPT !.text = NoText] ELSE pending
         /\ queue' \in FlushQueues(g)

\* Seeded bug: isRequesting is not reset.
FinishKeepsRequesting(g, kind) ==
    IF g # gen THEN UNCHANGED <<pending, timer, queue, requesting, latest, saveTimer>>
    ELSE /\ timer' = NoTimer
         /\ pending' = [pending EXCEPT !.text = NoText]
         /\ \E q \in FlushQueues(g) :
               /\ queue' \in Enqueue(q, Update(kind, g, NoText))
               /\ Persist(queue')
         /\ UNCHANGED requesting

\* handleStreamComplete and handleStreamError
Finish(g, kind) ==
    IF g # gen THEN UNCHANGED <<pending, timer, queue, requesting, latest, saveTimer>>
    ELSE /\ timer' = NoTimer
         /\ pending' = [pending EXCEPT !.text = NoText]
         /\ \E q \in FlushQueues(g) :
               /\ queue' \in Enqueue(q, Update(kind, g, NoText))
               /\ Persist(queue')
         /\ requesting' = FALSE

pageVars == <<messages, shown, editing, stored, refused, mounted, overwritten>>

\* Seeded bug: a send that was cancelled meanwhile opens its stream.
HeadersAlwaysOpen(k) ==
    /\ req[k].pc = "headers"
    /\ source' = k /\ streaming' = TRUE
    /\ req' = [req EXCEPT ![k].pc = "open"]
    /\ UNCHANGED <<pageVars, queue, requesting, gen, pending, timer, ctl, sends,
                   latest, saveTimer, acts>>

\* The rest of the controller's send, once getFreshAuthHeaders has answered.
HeadersReady(k) ==
    /\ req[k].pc = "headers"
    /\ IF req[k].ctl = ctl
       THEN /\ source' = k /\ streaming' = TRUE
            /\ req' = [req EXCEPT ![k].pc = "open"]
       ELSE /\ req' = [req EXCEPT ![k].pc = "over"]
            /\ UNCHANGED <<source, streaming>>
    /\ UNCHANGED <<pageVars, queue, requesting, gen, pending, timer, ctl, sends,
                   latest, saveTimer, acts>>

HeadersFailed(k) ==
    /\ req[k].pc = "headers"
    /\ req' = [req EXCEPT ![k].pc = "over"]
    /\ IF req[k].ctl = ctl THEN Finish(req[k].gen, "error")
       ELSE UNCHANGED <<pending, timer, queue, requesting, latest, saveTimer>>
    /\ Spend
    /\ UNCHANGED <<pageVars, streaming, gen, ctl, source, sends>>

\* An event of a source: a closed one may still have events on their way.
Listening(k) == req[k].pc \in {"open", "closed"} /\ ~req[k].cut

Handled(k) == req[k].ctl = ctl /\ source = k /\ ~req[k].completed

\* A message event with a delta: handleStreamUpdate and scheduleStreamFlush.
StreamChunk(k) ==
    /\ Listening(k) /\ req[k].sent < Len(req[k].script)
    /\ req' = [req EXCEPT ![k].sent = @ + 1]
    /\ LET c == req[k].script[req[k].sent + 1] IN
       IF Handled(k) /\ req[k].gen = gen /\ pending.gen = gen
       THEN /\ pending' = [pending EXCEPT !.text[c.type] =
                              MergePendingStreamChunk(@, Tokens(k, c.text))]
            /\ timer' = IF timer.gen = 0 THEN [gen |-> gen, armed |-> TRUE] ELSE timer
       ELSE UNCHANGED <<pending, timer>>
    /\ UNCHANGED <<pageVars, queue, requesting, streaming, gen, ctl, source, sends,
                   latest, saveTimer, acts>>

\* closeActiveSource
CloseActiveSource(k) ==
    /\ req' = [req EXCEPT ![k].pc = "closed", ![k].completed = TRUE]
    /\ source' = IF source = k THEN 0 ELSE source
    /\ streaming' = IF source = k THEN FALSE ELSE streaming

StreamEnds(k, kind) ==
    /\ IF Handled(k)
       THEN CloseActiveSource(k) /\ Finish(req[k].gen, kind)
       ELSE /\ req' = [req EXCEPT ![k].pc = "closed", ![k].completed = TRUE]
            /\ UNCHANGED <<source, streaming, pending, timer, queue, requesting,
                           latest, saveTimer>>
    /\ UNCHANGED <<pageVars, gen, ctl, sends>>

\* The [DONE] message.
StreamDone(k) ==
    /\ Listening(k) /\ ~req[k].completed /\ req[k].sent = Len(req[k].script)
    /\ StreamEnds(k, "complete") /\ UNCHANGED acts

\* An error event, a status other than 200 or a message that is not JSON.
StreamFailed(k) ==
    /\ Listening(k) /\ ~req[k].completed
    /\ StreamEnds(k, "error") /\ Spend

\* The connection is closed with status 200 before [DONE]: no listener reacts.
StreamCut(k) ==
    /\ req[k].pc = "open"
    /\ req' = [req EXCEPT ![k].pc = "closed", ![k].cut = TRUE]
    /\ Spend
    /\ UNCHANGED <<pageVars, queue, requesting, streaming, gen, pending, timer, ctl,
                   source, sends, latest, saveTimer>>

\* sendChatCompletion has answered: with a choice, or not.
Response(k, kind) ==
    /\ req[k].pc = "posted"
    /\ req' = [req EXCEPT ![k].pc = "over"]
    /\ IF req[k].gen # gen
       THEN UNCHANGED <<pending, timer, queue, requesting, latest, saveTimer>>
       ELSE IF kind = "error" THEN Finish(gen, "error")
       ELSE /\ queue' \in Enqueue(queue, Update("response", gen, req[k].answer))
            /\ Persist(queue')
            /\ requesting' = FALSE
            /\ UNCHANGED <<pending, timer>>
    /\ UNCHANGED <<pageVars, streaming, gen, ctl, source, sends>>

ResponseOk(k) == Response(k, "response") /\ UNCHANGED acts
ResponseFailed(k) == Response(k, "error") /\ Spend

-----------------------------------------------------------------------------
(* Timers, rendering and the life of the page.                             *)

FlushTimer ==
    /\ timer.armed
    /\ IF timer.gen # gen
       THEN timer' = [timer EXCEPT !.armed = FALSE]
            /\ UNCHANGED <<pending, queue, latest, saveTimer>>
       ELSE FlushStreamUpdates(gen) /\ Persist(queue')
    /\ UNCHANGED <<pageVars, requesting, streaming, gen, ctl, source, req, sends, acts>>

Render ==
    /\ mounted
    /\ queue # <<>> \/ shown # (requesting \/ streaming)
    /\ messages' = Drain(queue, gen)
    /\ queue' = <<>>
    /\ shown' = (requesting \/ streaming)
    /\ IF queue = <<>> THEN UNCHANGED <<latest, saveTimer>>
       ELSE latest' = messages' /\ saveTimer' = TRUE
    /\ UNCHANGED <<chatVars, editing, stored, refused, mounted, overwritten, acts>>

\* The debounce timer saves.
SaveTimer ==
    /\ saveTimer
    /\ saveTimer' = FALSE
    /\ SaveMessages(latest)
    /\ IF refused' THEN Spend ELSE UNCHANGED acts
    /\ UNCHANGED <<messages, queue, shown, chatVars, editing, latest, mounted,
                   overwritten>>

\* React drops the state of a component that is gone, and what is queued for it.
Unshown ==
    /\ messages' = <<>> /\ latest' = <<>> /\ queue' = <<>> /\ editing' = NoKey
    /\ shown' = FALSE /\ requesting' = FALSE /\ streaming' = FALSE

\* Seeded bug: the pending save is dropped with its timer.
UnmountUnsaved ==
    /\ mounted /\ Spend
    /\ mounted' = FALSE
    /\ gen' = gen + 1 /\ timer' = [timer EXCEPT !.armed = FALSE]
    /\ ctl' = ctl + 1 /\ source' = 0 /\ req' = CloseSource(source)
    /\ saveTimer' = FALSE
    /\ Unshown
    /\ UNCHANGED <<stored, refused, pending, sends, overwritten>>

\* The cleanups of useChatHandler, useStreamRequest and usePlaygroundState.
Unmount ==
    /\ mounted /\ Spend
    /\ mounted' = FALSE
    /\ gen' = gen + 1 /\ timer' = [timer EXCEPT !.armed = FALSE]
    /\ ctl' = ctl + 1 /\ source' = 0 /\ req' = CloseSource(source)
    /\ IF saveTimer THEN SaveMessages(latest) ELSE UNCHANGED <<stored, refused>>
    /\ saveTimer' = FALSE
    /\ Unshown
    /\ UNCHANGED <<pending, sends, overwritten>>

\* The page is closed or reloaded: the debounced save is lost with it.
PageClosed ==
    /\ mounted /\ Spend
    /\ mounted' = FALSE
    /\ req' = [k \in Send |-> NoReq] /\ source' = 0
    /\ gen' = 0 /\ ctl' = 0 /\ timer' = NoTimer /\ pending' = [gen |-> 0, text |-> NoText]
    /\ saveTimer' = FALSE
    /\ Unshown
    /\ UNCHANGED <<stored, refused, sends, overwritten>>

\* The playground is shown again: new refs, and the stored conversation; what
\* loadMessages repaired it also saves.
Mount ==
    /\ ~mounted
    /\ messages' = LoadMessages(stored) /\ latest' = messages'
    /\ IF messages' = stored THEN stored' = stored /\ refused' = FALSE
       ELSE SaveMessages(messages')
    /\ queue' = <<>> /\ shown' = FALSE /\ requesting' = FALSE /\ streaming' = FALSE
    /\ gen' = 0 /\ pending' = [gen |-> 0, text |-> NoText] /\ timer' = NoTimer
    /\ ctl' = 0 /\ source' = 0 /\ req' = [k \in Send |-> NoReq]
    /\ editing' = NoKey /\ saveTimer' = FALSE /\ mounted' = TRUE
    /\ UNCHANGED <<sends, overwritten, acts>>

UserStep ==
    \/ HandleSendMessage
    \/ HandleClearMessages
    \/ StopGeneration
    \/ \E i \in DOMAIN messages :
          \/ HandleRegenerateMessage(i)
          \/ HandleDeleteMessage(i)
          \/ HandleEditMessage(i)
          \/ SaveEdit(i)
          \/ SubmitEdit(i)

ServerStep(k) ==
    \/ HeadersReady(k) \/ HeadersFailed(k)
    \/ StreamChunk(k) \/ StreamDone(k) \/ StreamFailed(k) \/ StreamCut(k)
    \/ ResponseOk(k) \/ ResponseFailed(k)

Next ==
    \/ UserStep
    \/ \E k \in Send : ServerStep(k)
    \/ FlushTimer \/ Render \/ SaveTimer
    \/ Unmount \/ PageClosed \/ Mount

Spec == Init /\ [][Next]_vars

\* Every request is answered in the end, and React renders what is queued: weak
\* fairness of the server's steps and of Render.  A request has finitely many steps
\* and Render leaves nothing to render, so it comes to the two formulas below.
Waiting(k) == req[k].pc \in {"headers", "posted", "open"}
NeedsRender == mounted /\ (queue # <<>> \/ shown # (requesting \/ streaming))

FairSpec ==
    /\ Spec
    /\ \A k \in Send : []<>~Waiting(k)
    /\ []<>~NeedsRender

-----------------------------------------------------------------------------
(* Properties.                                                             *)

Letter == Alphabet \cup {"error", "user"}
Token == [k: Send \cup {0}, c: Letter]
Text == Seq(Token)
Message == [from: {"user", "assistant"}, k: Send,
            status: {"loading", "streaming", "complete", "error"},
            content: Text, reasoning: Text, whole: BOOLEAN]

\* The types of the page's refs and state, of the requests and of localStorage.
TypeOK ==
    /\ messages \in Seq(Message) /\ latest \in Seq(Message) /\ stored \in Seq(Message)
    /\ \A i \in DOMAIN queue :
          /\ queue[i].kind \in {"flush", "complete", "error", "response", "value"}
          /\ queue[i].gen \in Nat /\ queue[i].list \in Seq(Message)
          /\ queue[i].text \in [content: Text, reasoning: Text]
    /\ {shown, requesting, streaming, saveTimer, refused, mounted, overwritten} \subseteq BOOLEAN
    /\ gen \in Nat /\ ctl \in Nat /\ sends \in 0..MaxSends /\ acts \in 0..MaxActs
    /\ pending \in [gen: Nat, text: [content: Text, reasoning: Text]]
    /\ timer \in [gen: Nat, armed: BOOLEAN]
    /\ source \in Send \cup {0}
    /\ \A k \in Send : req[k].pc \in {"none", "headers", "open", "closed", "posted", "over"}
    /\ editing = NoKey \/ editing \in {"user", "assistant"} \X Send

Foreign(m) == \E i \in DOMAIN (m.content \o m.reasoning) :
                 (m.content \o m.reasoning)[i].k \notin {0, m.k}

\* A message only ever holds text of the request it was made for: chunks that
\* arrive late, a flush timer that fires late and updates that React evaluates
\* late never reach the answer to a newer request, on the page or in localStorage
\* (the generation checks of flushStreamUpdates and of its updater).
NoForeignText ==
    \A list \in {messages, latest, stored} : \A i \in DOMAIN list : ~Foreign(list[i])

\* At most the controller's active source has a connection, and none is left when
\* the playground is closed: a send that replaces another, a stop, or leaving the
\* page while the headers are still being fetched, leaks no stream.
NoLeakedStream ==
    \A k \in Send : req[k].pc = "open" => mounted /\ source = k

\* A message that the page shows as loading or streaming is the last one, and the
\* page offers to stop it: no spinner stays behind after a completion, an error, a
\* stop, a deletion or a reload in the middle of an answer.  The exception the code
\* has is an edit saved between an update and its rendering, which writes an older
\* list back (applyEdit is not guarded by isGenerating).
NoStuckMessage ==
    mounted /\ ~overwritten =>
        \A i \in DOMAIN messages : IsPending(messages[i]) => shown /\ i = Len(messages)

\* The chunks of one type, put together: the first n of a script have Joined[n].
Joined(script, type) ==
    LET joined[n \in 0..Len(script)] ==
            IF n = 0 THEN <<>>
            ELSE IF script[n].type = type THEN joined[n - 1] \o script[n].text
            ELSE joined[n - 1]
    IN  joined

\* What the chunks after the i-th and up to the j-th add.
Stretch(script, type, i, j) ==
    LET joined == Joined(script, type)
    IN  SubSeq(joined[j], Len(joined[i]) + 1, Len(joined[j]))

\* Deltas that cannot be mistaken for snapshots: no chunk starts with what was
\* pending before it, and nothing pending starts with the message so far.
IsDelta(script, type) ==
    \A i, j, l \in 0..Len(script) :
        /\ i < j /\ j <= l /\ (i = 0 \/ l = j + 1)
        /\ Stretch(script, type, i, j) # <<>>
        => ~IsPrefix(Stretch(script, type, i, j), Stretch(script, type, j, l))

\* Snapshots: every chunk starts with the ones before it.
IsSnapshots(script, type) ==
    \A i, j \in DOMAIN script :
        /\ i < j /\ script[i].type = type /\ script[j].type = type
        => IsPrefix(script[i].text, script[j].text)

\* The last chunk of the type among the first n of the script.
Latest(script, type, n) ==
    LET of == {i \in 1..n : script[i].type = type}
    IN  IF of = {} THEN <<>> ELSE script[Max(of)].text

\* What the server has said with the first n chunks, and with all of them.
Said(script, type, n) ==
    IF IsSnapshots(script, type) THEN Latest(script, type, n) ELSE Joined(script, type)[n]
WholeText(script, type) == Said(script, type, Len(script))

Plain(script, type) == IsSnapshots(script, type) \/ IsDelta(script, type)

\* What a message that the server completed shows.  The content loses its tags; the
\* reasoning is the server's, or what the tags enclose when it sends none.
ShowsWhole(m, script) ==
    LET parsed == ParseThinkTags(Tokens(m.k, WholeText(script, "content")))
        reasoning == Tokens(m.k, WholeText(script, "reasoning"))
    IN  Plain(script, "content") =>
            /\ m.content = parsed.content
            /\ Plain(script, "reasoning") =>
                  /\ parsed.reasoning = <<>> => m.reasoning = reasoning
                  /\ reasoning = <<>> => m.reasoning = parsed.reasoning

\* A message the server completed shows the whole answer, whenever the flush timer
\* fired and however React ordered the updates, for streams that are Plain: snapshots
\* of the text so far, or deltas none of which starts with the text before it (the
\* code takes such a delta for a snapshot and drops its beginning).
CompletedTextIsWhole ==
    ~overwritten =>
        \A i \in DOMAIN messages :
            LET m == messages[i] IN
            m.whole /\ m.status = "complete" /\ req[m.k].pc # "none" =>
                ShowsWhole(m, req[m.k].script)

\* Leaving the playground when everything is rendered (queue = <<>>) leaves what was
\* shown in localStorage, unless the last write was refused: what the debounced save
\* had not written yet is written by the cleanup, from latestMessagesRef, and a save
\* that ran was the save of what is still shown.  A refused write is not repeated
\* on leaving, since the timer that would have repeated it is gone.
LeavingSaves ==
    [][Unmount /\ queue = <<>> => refused' \/ stored' = Trim(messages)]_vars

Active(k) == /\ mounted /\ shown /\ messages # <<>>
             /\ Last(messages).k = k

\* Every answer ends: the page stops showing it as being generated, unless the
\* connection was closed with status 200 before [DONE], which no listener notices.
\* (Active(k) leads to the end; since everything else is an end, it always ends again.)
AnswerEnds == \A k \in Send : []<>(~Active(k) \/ req[k].cut)

=============================================================================
