----------------------------- MODULE Playground -----------------------------
(***************************************************************************)
(* The playground page (pages/Playground, hooks/playground): a             *)
(* conversation whose last answer is written by whatever the network       *)
(* delivers, while the user stops, clears, edits, repeats and reloads.     *)
(*                                                                         *)
(* An answer is not written to the message it was asked for but to the     *)
(* last one, by functional updates of React state.  The conversation is    *)
(* saved by timers of zero milliseconds, each with the list of its moment, *)
(* and a repeated question is sent by a timer of a hundred.                *)
(***************************************************************************)
EXTENDS Naturals, SequencesExt

CONSTANTS
    Hasty,       \* a user can act before the timers of 0 and 100 ms have run
    MaxRequests, MaxMessages, \* bounds: requests and length of a conversation
    MaxEvents    \* bound: edits, imports and reloads together

ASSUME PlaygroundAssumption ==
    /\ Hasty \in BOOLEAN
    /\ {MaxRequests, MaxMessages, MaxEvents} \subseteq Nat
    /\ MaxMessages >= 2 \* the default conversation

VARIABLES
    messages,  \* the conversation shown
    stored,    \* localStorage playground_messages
    fresh,     \* initialMessages is null
    saves,     \* timers of saveMessages, in order
    resend,    \* the timer that sends a repeated or an edited question
    editing,   \* editingMessageId
    dialog,    \* the confirmation that is open
    streams,   \* SSE connections that are open
    current,   \* sseSourceRef
    plains,    \* requests without a stream that are not answered
    kind,      \* how a request was sent
    cut,       \* requests that ended without [DONE], or without a choice
    broken,    \* an update threw: the page is gone
    overwritten, \* who has replaced what is stored and not what is shown
    revived,   \* an edit or a file has put back an answer in the making
    nextId, events

netVars  == <<streams, current, plains, kind, cut>>
userVars == <<resend, editing, dialog>>
fileVars == <<overwritten, revived>>
vars == <<messages, stored, fresh, saves, userVars, netVars, broken, fileVars,
          nextId, events>>

Requests == 1..MaxRequests
NoTimer  == "none"
NoDialog == [kind |-> "none"]

Message(id, role, status) ==
    [id |-> id, role |-> role, status |-> status, text |-> {}]

NoList == <<Message(0, "none", "none")>> \* null

\* getDefaultMessages, and the messages of a file: exportConfig writes them as they
\* are shown, an answer in the making too.
Defaults     == <<Message(2, "user", "none"), Message(3, "assistant", "none")>>
File(status) == <<Message(8, "user", "none"), Message(9, "assistant", status)>>
Exported     == {"complete", "loading", "incomplete"}
FirstId      == 10 + MaxMessages \* above the numbers of a request body's messages

Generating(m) == m.status \in {"loading", "incomplete"}
Finished(m)   == m.status \in {"complete", "error"}
AnyGenerating == \E i \in DOMAIN messages : Generating(messages[i])
LastGenerating(list) == list # <<>> /\ Generating(Last(list))
WithLast(list, m) == Append(Front(list), m)

Init ==
    /\ stored \in {NoList, <<>>} /\ fresh = (stored = NoList)
    /\ messages = IF fresh THEN Defaults ELSE <<>>
    /\ saves = <<>> /\ resend = NoTimer /\ editing = 0 /\ dialog = NoDialog
    /\ streams = {} /\ current = 0 /\ plains = {} /\ cut = {}
    /\ kind = [r \in Requests |-> "none"]
    /\ broken = FALSE /\ overwritten = "nobody" /\ revived = FALSE
    /\ nextId = FirstId /\ events = 0

-----------------------------------------------------------------------------
(* Requests. *)

Unsent == {r \in Requests : kind[r] = "none"}

\* A mutant of sendRequest: a request with a stream is sent without one too.
sendRequestTwice(stream) ==
    LET r == CHOOSE q \in Unsent : \A p \in Unsent : q <= p
    IN  /\ kind' = [kind EXCEPT ![r] = IF stream THEN "stream" ELSE "plain"]
        /\ plains' = plains \union {r}
        /\ IF stream THEN streams' = streams \union {r} /\ current' = r
           ELSE UNCHANGED <<streams, current>>
        /\ UNCHANGED cut

\* sendRequest: a stream takes the reference of the one before it.
sendRequest(stream) ==
    LET r == CHOOSE q \in Unsent : \A p \in Unsent : q <= p
    IN  /\ kind' = [kind EXCEPT ![r] = IF stream THEN "stream" ELSE "plain"]
        /\ IF stream THEN streams' = streams \union {r} /\ current' = r /\ UNCHANGED plains
           ELSE plains' = plains \union {r} /\ UNCHANGED <<streams, current>>
        /\ UNCHANGED cut

\* A mutant of onMessageSend: the two messages in the other order.
onMessageSendSwapped(stream) ==
    /\ Unsent # {} /\ Len(messages) + 2 <= MaxMessages
    /\ messages' = messages \o <<Message(nextId + 1, "assistant", "loading"),
                                 Message(nextId, "user", "none")>>
    /\ saves' = Append(saves, messages')
    /\ nextId' = nextId + 2
    /\ sendRequest(stream)

\* onMessageSend: the question and a loading answer, saved at once.
onMessageSend(stream) ==
    /\ Unsent # {} /\ Len(messages) + 2 <= MaxMessages
    /\ messages' = messages \o <<Message(nextId, "user", "none"),
                                 Message(nextId + 1, "assistant", "loading")>>
    /\ saves' = Append(saves, messages')
    /\ nextId' = nextId + 2
    /\ sendRequest(stream)

\* streamMessageUpdate: a chunk goes to the last message if that is an answer
\* in the making.
streamMessageUpdate(list, r) ==
    IF list = <<>> \/ Last(list).role # "assistant" \/ ~Generating(Last(list)) THEN list
    ELSE WithLast(list, [Last(list) EXCEPT !.status = "incomplete",
                                           !.text = @ \union {r}])

\* A mutant of completeMessage: an answer that failed is completed.
completeMessageTwice(list, status) ==
    /\ broken' = (list = <<>>)
    /\ IF list = <<>> \/ Last(list).status = "complete"
       THEN messages' = list /\ UNCHANGED saves
       ELSE /\ messages' = WithLast(list, [Last(list) EXCEPT !.status = status])
            /\ saves' = Append(saves, messages')

\* A mutant of completeMessage: an answer without a chunk is not completed.
completeMessageStarted(list, status) ==
    /\ broken' = (list = <<>>)
    /\ IF list = <<>> \/ Last(list).status # "incomplete"
       THEN messages' = list /\ UNCHANGED saves
       ELSE /\ messages' = WithLast(list, [Last(list) EXCEPT !.status = status])
            /\ saves' = Append(saves, messages')

\* A mutant of completeMessage: the list of before the update is saved.
completeMessageStale(list, status) ==
    /\ broken' = (list = <<>>)
    /\ IF list = <<>> \/ Finished(Last(list)) THEN messages' = list /\ UNCHANGED saves
       ELSE /\ messages' = WithLast(list, [Last(list) EXCEPT !.status = status])
            /\ saves' = Append(saves, list)

\* completeMessage: of the last message, whatever it is; it is saved unless it
\* was finished, and there has to be one.
completeMessage(list, status) ==
    /\ broken' = (list = <<>>)
    /\ IF list = <<>> \/ Finished(Last(list)) THEN messages' = list /\ UNCHANGED saves
       ELSE /\ messages' = WithLast(list, [Last(list) EXCEPT !.status = status])
            /\ saves' = Append(saves, messages')

Net == ~broken /\ UNCHANGED <<stored, fresh, userVars, fileVars, nextId, events, kind>>

Chunk(r) ==
    /\ Net /\ r \in streams
    /\ messages' = streamMessageUpdate(messages, r)
    /\ UNCHANGED <<saves, streams, current, plains, cut, broken>>

\* [DONE]: the reference is dropped, whichever stream it is by now.
Done(r) ==
    /\ Net /\ r \in streams
    /\ streams' = streams \ {r} /\ current' = 0
    /\ completeMessage(messages, "complete")
    /\ UNCHANGED <<plains, cut>>

\* A chunk that does not parse fails the answer; the stream stays open.
BadChunk(r) ==
    /\ Net /\ r \in streams
    /\ completeMessage(streamMessageUpdate(messages, r), "error")
    /\ UNCHANGED <<streams, current, plains, cut>>

\* 'error', or a status that is not 200.
StreamFails(r) ==
    /\ Net /\ r \in streams
    /\ streams' = streams \ {r} /\ current' = 0
    /\ completeMessage(streamMessageUpdate(messages, r), "error")
    /\ UNCHANGED <<plains, cut>>

\* The connection ends with 200 and without [DONE]: no handler speaks up.
StreamCut(r) ==
    /\ Net /\ r \in streams
    /\ streams' = streams \ {r} /\ cut' = cut \union {r}
    /\ UNCHANGED <<messages, saves, current, plains, broken>>

\* handleNonStreamRequest writes the last message if it is loading, whichever
\* request that is of, and does not save.
PlainAnswered(r) ==
    /\ Net /\ r \in plains
    /\ plains' = plains \ {r}
    /\ \/ \E status \in {"complete", "error"} :
            /\ messages' = IF messages # <<>> /\ Last(messages).status = "loading"
                           THEN WithLast(messages, [Last(messages) EXCEPT
                                    !.status = status, !.text = {r}])
                           ELSE messages
            /\ UNCHANGED cut
       \/ cut' = cut \union {r} /\ UNCHANGED messages \* no choices in it
    /\ UNCHANGED <<saves, streams, current, broken>>

NetworkOf(r) ==
    Chunk(r) \/ Done(r) \/ BadChunk(r) \/ StreamFails(r) \/ StreamCut(r) \/ PlainAnswered(r)

-----------------------------------------------------------------------------
(* What the user does. *)

Calm == ~broken /\ (Hasty \/ (resend = NoTimer /\ saves = <<>>))
Idle == Calm /\ dialog = NoDialog
User == Idle /\ UNCHANGED <<broken, fileVars>>

\* The chat component offers Send while no answer is in the making, and Stop
\* while one is.
Send(stream) ==
    /\ User /\ ~LastGenerating(messages)
    /\ onMessageSend(stream)
    /\ UNCHANGED <<stored, fresh, userVars, events>>

onStopGenerator ==
    /\ User /\ LastGenerating(messages)
    /\ streams' = streams \ {current} /\ current' = 0
    /\ messages' = WithLast(messages, [Last(messages) EXCEPT !.status = "complete"])
    /\ saves' = Append(saves, messages')
    /\ UNCHANGED <<stored, fresh, userVars, plains, kind, cut, nextId, events>>

handleClearMessages ==
    /\ User /\ messages # <<>>
    /\ messages' = <<>> /\ saves' = Append(saves, <<>>)
    /\ UNCHANGED <<stored, fresh, userVars, netVars, nextId, events>>

\* The buttons of a message: none while an answer is in the making.
Act(i) ==
    /\ User /\ ~AnyGenerating /\ messages[i].id # editing
    /\ events < MaxEvents /\ events' = events + 1

\* handleMessageReset: back to before the question, which is asked again soon.
handleMessageReset(i) ==
    /\ Act(i)
    /\ \E q \in 1..i :
          /\ messages[q].role = "user"
          /\ \A j \in q + 1 .. i : messages[j].role # "user"
          /\ messages' = SubSeq(messages, 1, q - 1)
    /\ resend' = "question"
    /\ UNCHANGED <<saves, stored, fresh, editing, dialog, netVars, nextId>>

\* handleMessageDelete: a question takes its answer with it.
handleMessageDelete(i) ==
    /\ Act(i)
    /\ LET pair == /\ messages[i].role = "user" /\ i < Len(messages)
                   /\ messages[i + 1].role = "assistant"
       IN  messages' = SubSeq(messages, 1, i - 1) \o
                       SubSeq(messages, IF pair THEN i + 2 ELSE i + 1, Len(messages))
    /\ saves' = Append(saves, messages')
    /\ UNCHANGED <<stored, fresh, userVars, netVars, nextId>>

handleRoleToggle(i) ==
    /\ Act(i) /\ messages[i].role \in {"assistant", "system"}
    /\ messages' = [messages EXCEPT ![i].role =
                        IF @ = "assistant" THEN "system" ELSE "assistant"]
    /\ saves' = Append(saves, messages')
    /\ UNCHANGED <<stored, fresh, userVars, netVars, nextId>>

handleMessageEdit(i) ==
    /\ Act(i)
    /\ editing' = messages[i].id
    /\ UNCHANGED <<messages, saves, stored, fresh, resend, dialog, netVars, nextId>>

\* handleEditSave: an edited question that has an answer asks what to do, and
\* remembers the conversation of this moment.
handleEditSave(i) ==
    /\ User /\ messages[i].id = editing
    /\ editing' = 0
    /\ IF messages[i].role = "user" /\ i < Len(messages) /\ messages[i + 1].role = "assistant"
       THEN /\ dialog' = [kind |-> "regenerate", list |-> messages, index |-> i]
            /\ UNCHANGED saves
       ELSE saves' = Append(saves, messages) /\ UNCHANGED dialog
    /\ UNCHANGED <<messages, stored, fresh, resend, netVars, nextId, events>>

EditAnswered ==
    /\ Calm /\ dialog.kind = "regenerate"
    /\ dialog' = NoDialog
    /\ \/ /\ messages' = SubSeq(dialog.list, 1, dialog.index)
          /\ resend' = "edited"
       \/ messages' = dialog.list /\ UNCHANGED resend
    /\ saves' = Append(saves, messages')
    /\ revived' = (revived \/ LastGenerating(messages'))
    /\ UNCHANGED <<stored, fresh, editing, netVars, broken, overwritten, nextId, events>>

\* importConfig stores the file's messages before the user is asked.
handleFileChange(status) ==
    /\ Idle /\ events < MaxEvents /\ events' = events + 1
    /\ stored' = File(status) /\ overwritten' = "import"
    /\ dialog' = [kind |-> "import", list |-> File(status)]
    /\ UNCHANGED <<messages, fresh, saves, resend, editing, netVars, broken, revived,
                   nextId>>

\* handleConfigImport shows them as they are; only a reload would repair them.
handleConfigImport ==
    /\ Calm /\ dialog.kind = "import"
    /\ dialog' = NoDialog
    /\ \/ /\ messages' = dialog.list /\ overwritten' = "nobody"
          /\ revived' = (revived \/ LastGenerating(messages'))
       \/ UNCHANGED <<messages, overwritten, revived>> \* cancelled
    /\ UNCHANGED <<stored, fresh, saves, resend, editing, netVars, broken, nextId, events>>

\* handleReset clears the storage, the conversation with it, also when it is to
\* be kept; else the default one follows an empty one after a timer.
handleConfigReset(resetMessages) ==
    /\ Idle /\ events < MaxEvents /\ events' = events + 1
    /\ stored' = NoList /\ overwritten' = "reset"
    /\ IF resetMessages THEN messages' = <<>> /\ resend' = "defaults"
       ELSE UNCHANGED <<messages, resend>>
    /\ UNCHANGED <<fresh, saves, editing, dialog, netVars, broken, revived, nextId>>

\* syncCustomBodyToMessage: the body of a request was edited, or met a chunk on its way
\* to the page, and the conversation is rebuilt from it: numbered anew, without what
\* the page knew of its answers, and not saved.
syncCustomBodyToMessage ==
    /\ ~broken /\ events < MaxEvents /\ events' = events + 1
    /\ \E n \in 0..Len(messages) :
          messages' = [i \in 1..n |-> [messages[i] EXCEPT !.id = i, !.status = "none"]]
    /\ UNCHANGED <<stored, fresh, saves, userVars, netVars, broken, fileVars, nextId>>

\* Without stored messages a change of language brings the default ones back.
LanguageChanges ==
    /\ User /\ fresh
    /\ messages' = Defaults
    /\ UNCHANGED <<stored, fresh, saves, userVars, netVars, nextId, events>>

-----------------------------------------------------------------------------
(* Timers and reloads. *)

Resend(stream) ==
    /\ resend # NoTimer /\ ~broken
    /\ resend' = NoTimer
    /\ \/ resend = "question" /\ onMessageSend(stream)
       \/ /\ resend = "edited"
          /\ Unsent # {} /\ Len(messages) < MaxMessages
          /\ messages' = Append(messages, Message(nextId, "assistant", "loading"))
          /\ nextId' = nextId + 1
          /\ sendRequest(stream) /\ UNCHANGED saves
       \/ resend = "defaults" /\ messages' = Defaults /\ UNCHANGED <<saves, netVars, nextId>>
    /\ UNCHANGED <<stored, fresh, editing, dialog, broken, fileVars, events>>

saveMessages ==
    /\ saves # <<>> /\ ~broken
    /\ stored' = Head(saves) /\ saves' = Tail(saves) /\ overwritten' = "nobody"
    /\ UNCHANGED <<messages, fresh, userVars, netVars, broken, revived,
                   nextId, events>>

\* On mount an answer that was left in the making is closed and saved.
Repaired(list) ==
    IF LastGenerating(list) THEN WithLast(list, [Last(list) EXCEPT !.status = "complete"])
    ELSE list

Reload ==
    /\ events < MaxEvents /\ events' = events + 1
    /\ fresh' = (stored = NoList)
    /\ messages' = IF fresh' THEN Defaults ELSE Repaired(stored)
    /\ saves' = IF ~fresh' /\ LastGenerating(stored) THEN <<messages'>> ELSE <<>>
    /\ resend' = NoTimer /\ editing' = 0 /\ dialog' = NoDialog
    /\ streams' = {} /\ current' = 0 /\ plains' = {}
    /\ broken' = FALSE
    /\ UNCHANGED <<stored, kind, cut, fileVars, nextId>>

Actions(i) ==
    \/ handleMessageReset(i) \/ handleMessageDelete(i) \/ handleRoleToggle(i)
    \/ handleMessageEdit(i) \/ handleEditSave(i)

Next ==
    \/ \E r \in Requests : NetworkOf(r)
    \/ \E stream \in BOOLEAN : Send(stream) \/ Resend(stream)
    \/ \E i \in DOMAIN messages : Actions(i)
    \/ onStopGenerator \/ handleClearMessages \/ EditAnswered \/ syncCustomBodyToMessage
    \/ (\E status \in Exported : handleFileChange(status)) \/ handleConfigImport
    \/ (\E all \in BOOLEAN : handleConfigReset(all))
    \/ LanguageChanges \/ saveMessages \/ Reload

Spec == Init /\ [][Next]_vars

\* A request ends one way or another; timers fire.
Ends(r) == Done(r) \/ StreamFails(r) \/ StreamCut(r) \/ PlainAnswered(r)
FairSpec == Spec /\ WF_vars(saveMessages) /\ \A r \in Requests : WF_vars(Ends(r))

-----------------------------------------------------------------------------
(* Properties. *)

Messages == [id : 1..nextId, role : {"user", "assistant", "system"},
             status : {"none", "loading", "incomplete", "complete", "error"},
             text : SUBSET Requests]
IsList(list) == Len(list) <= MaxMessages /\ \A i \in DOMAIN list : list[i] \in Messages

\* Type correctness; an open connection is of a request that was streamed.
TypeOK ==
    /\ IsList(messages) /\ (stored = NoList \/ IsList(stored))
    /\ \A i \in DOMAIN saves : IsList(saves[i])
    /\ resend \in {NoTimer, "question", "edited", "defaults"}
    /\ dialog.kind \in {"none", "regenerate", "import"}
    /\ dialog.kind # "none" => IsList(dialog.list)
    /\ dialog.kind = "regenerate" => dialog.index \in DOMAIN dialog.list
    /\ editing \in {0} \union 1..nextId
    /\ streams \subseteq {r \in Requests : kind[r] = "stream"}
    /\ plains \subseteq {r \in Requests : kind[r] = "plain"}
    /\ current \in {0} \union Requests
    /\ overwritten \in {"nobody", "import", "reset"}
    /\ {fresh, broken, revived} \subseteq BOOLEAN

OnlyLast(list) == \A i \in DOMAIN list : Generating(list[i]) => i = Len(list)

\* At most one answer is in the making and it is the last, in what is shown,
\* in what is stored and in what is about to be: only the last message is ever
\* updated, stopped or repaired, one before it would stay in the making and
\* keep the buttons of all messages disabled (MessageActions).
OnlyLastGenerates ==
    /\ OnlyLast(messages) /\ (stored # NoList => OnlyLast(stored))
    /\ \A i \in DOMAIN saves : OnlyLast(saves[i])

\* An answer that ended stays as it ended, whatever the network still delivers
\* of it, of a stream that was left open or of a stopped request.
FinishedStays ==
    [][(\E r \in Requests : NetworkOf(r)) =>
         \A i \in DOMAIN messages : Finished(messages[i]) =>
             i \in DOMAIN messages' /\ messages'[i] = messages[i]]_vars

Streamed(m) == m.text # {} /\ \A r \in m.text : kind[r] = "stream"

StoredAsShown ==
    \A i \in DOMAIN messages :
        (Finished(messages[i]) /\ Streamed(messages[i])) =>
            stored # NoList /\ \E j \in DOMAIN stored : stored[j] = messages[i]

\* When the timers have run, a streamed answer that ended is stored as it is
\* shown, so a reload does not lose it (completeMessage, onStopGenerator).
StreamedIsStored == (saves = <<>> /\ overwritten = "nobody") => StoredAsShown

\* Nobody is left to end an answer: every request has ended, one of them without
\* saying so, or the answer was put there by a file or by the list an edit kept.
Abandoned == streams = {} /\ plains = {} /\ (cut # {} \/ revived)

\* An answer in the making ends, by its own request or by another that is still to
\* come, unless it is abandoned: those wait for the user to stop them.
GenerationEnds ==
    LastGenerating(messages) ~> (~LastGenerating(messages) \/ Abandoned \/ broken)
=============================================================================
