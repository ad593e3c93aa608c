----------------------------- MODULE ChatAdapter -----------------------------
(***************************************************************************)
(* The chat adapters (api/adapters/telegram_adapter.py and                 *)
(* discord_adapter.py) for one user: messages, answers with buttons to     *)
(* choose from, and the runs of the planner behind them, any of which may  *)
(* ask for an approval (HitlApproval).  The handlers of all inputs share   *)
(* one event loop; an action is what happens between two awaits.           *)
(*                                                                         *)
(* Telegram asks the Rust router first and runs the planner in the adapter *)
(* when that gives nothing; Discord runs the planner at once.              *)
(***************************************************************************)
EXTENDS HitlApproval, Sequences

CONSTANTS
    Texts,       \* messages of the user
    Pick,        \* presses of choice buttons
    Risky,       \* inputs for which the planner calls high-risk tools
    MaxChoice,     \* how many choices an answer with buttons has
    MaxHistory,  \* the length of the conversation that is kept
    NoText

ASSUME ChatAssumption ==
    /\ MaxChoice \in Nat \ {0} /\ MaxHistory \in Nat
    /\ Texts \subseteq Nat /\ NoText \notin Texts \cup Pick
    /\ NoText \notin [of : Texts \cup Pick, n : 1 .. MaxChoice]

VARIABLES
    platform,   \* "telegram" or "discord"
    input,      \* the handler of each input
    history,    \* _history of the user
    choiceOf,   \* _callback_data_map: the choice behind the key of a button
    latest      \* history: the input whose answer took the keys of the buttons last

Input == Texts \cup Pick

chat == <<input, history, choiceOf, latest>>
chatVars == <<vars, platform, chat>>

-----------------------------------------------------------------------------
\* What a button says: choice n of the answer to an input.
Label(i, n) == [of |-> i, n |-> n]

\* at: idle, file, ack, edit, echo, status, stream, local, close, render, send, sorry,
\* and at the end, answered or not, over.  press: the button that was pressed.  text: what
\* the adapter takes it to say.  Both are kept until the run begins.  retried: the planner runs in the handler of an
\* error.  broken: the answer is an error.  waits: the approvals its run waits for.
\* offers: the answer has choices.  buttons: it shows them.
NewInput == [at |-> "idle", text |-> NoText, press |-> NoText, snap |-> <<>>,
             typing |-> FALSE, retried |-> FALSE, broken |-> FALSE, waits |-> {},
             offers |-> FALSE, buttons |-> FALSE]

ChatInit ==
    /\ Init
    /\ platform \in {"telegram", "discord"}
    /\ input = [i \in Input |-> NewInput]
    /\ history = <<>> /\ latest = NoText
    /\ choiceOf = [n \in 1..MaxChoice |-> NoText]

At(i, phase)     == input[i].at = phase
Goes(i, phase)   == input' = [input EXCEPT ![i].at = phase]
\* The run is over: what it was given is dropped.  The handler is over.
RunOver(i, phase) == [input[i] EXCEPT !.at = phase, !.snap = <<>>, !.retried = FALSE]
Ends(i, shown)    == input' = [input EXCEPT ![i] = [NewInput EXCEPT !.at = "over", !.buttons = shown]]
ChatRest         == UNCHANGED <<vars, platform>>

-----------------------------------------------------------------------------
(* The conversation                                                        *)

\* The deque drops its oldest messages.
Trim(h) == IF Len(h) > MaxHistory THEN SubSeq(h, Len(h) - MaxHistory + 1, Len(h)) ELSE h
Message(role, i) == [role |-> role, of |-> i]

\* Both messages of a turn are appended together, when the run has returned.
\* Mutant: the user's is appended when the run begins.
UserFirst(h, i) == Trim(Append(h, Message("user", i)))
AtStart(h, i)   == h
WithTurn(h, i)  == Trim(h \o <<Message("user", i), Message("assistant", i)>>)

\* _process_text_input and the body of on_message begin: the conversation is copied, and the
\* run is given the text.
Begin(i) ==
    /\ input' = [input EXCEPT ![i] =
          [NewInput EXCEPT !.at = IF platform = "telegram" THEN "status" ELSE "local",
                           !.snap = history, !.typing = (platform = "telegram")]]
    /\ history' = AtStart(history, i)

-----------------------------------------------------------------------------
(* Messages and presses of choice buttons                                  *)

\* The messages come in the order of their numbers.
Arrives(i) == At(i, "idle") /\ \A j \in Texts : j < i => ~At(j, "idle")

\* handle_message; a file is downloaded first.
Receive(i) ==
    /\ platform = "telegram" /\ Arrives(i)
    /\ \/ Begin(i)
       \/ Goes(i, "file") /\ UNCHANGED history
    /\ ChatRest /\ UNCHANGED <<choiceOf, latest>>

\* on_message, for a message that mentions the bot.
Mentioned(i) ==
    /\ platform = "discord" /\ Arrives(i)
    /\ Begin(i)
    /\ ChatRest /\ UNCHANGED <<choiceOf, latest>>

\* The file is there, or its failure is reported; without a caption nothing follows.
FileHandled(i) ==
    /\ At(i, "file")
    /\ \/ Begin(i)
       \/ Ends(i, FALSE) /\ UNCHANGED history
    /\ ChatRest /\ UNCHANGED <<choiceOf, latest>>

\* A button is pressed, as long as the chat shows it.
PressChoice(i, j, n) ==
    /\ At(i, "idle") /\ input[j].buttons
    /\ input' = [input EXCEPT ![i].at = "ack", ![i].press = Label(j, n)]
    /\ ChatRest /\ UNCHANGED <<history, choiceOf, latest>>

\* The key of a button names the user and the position of the choice.
\* Mutant: it names the user only.
UserKey(n) == 1
Key(n)     == n

\* handle_callback: the press is acknowledged, or dropped, and its choice looked up.
LookUp(i) ==
    /\ platform = "telegram" /\ At(i, "ack")
    /\ \/ input' = [input EXCEPT ![i].at = "edit", ![i].text = choiceOf[Key(input[i].press.n)]]
       \/ Ends(i, FALSE)
    /\ ChatRest /\ UNCHANGED <<history, choiceOf, latest>>

\* A Discord button knows its choice, and goes on when the acknowledgement fails.
Defer(i) ==
    /\ platform = "discord" /\ At(i, "ack")
    /\ input' = [input EXCEPT ![i].at = "edit", ![i].text = input[i].press]
    /\ ChatRest /\ UNCHANGED <<history, choiceOf, latest>>

\* The buttons are taken away; only Telegram minds when that fails.
ButtonsTaken(i) ==
    /\ At(i, "edit")
    /\ \/ input' = [input EXCEPT ![i].at = "echo", ![input[i].press.of].buttons = FALSE]
       \/ platform = "telegram" /\ Ends(i, FALSE)
       \/ platform = "discord" /\ Goes(i, "echo")
    /\ ChatRest /\ UNCHANGED <<history, choiceOf, latest>>

\* The choice is shown in the chat, and then handled like a message.
Echoed(i) ==
    /\ At(i, "echo")
    /\ \/ Begin(i)
       \/ Ends(i, FALSE) /\ UNCHANGED history
    /\ ChatRest /\ UNCHANGED <<choiceOf, latest>>

-----------------------------------------------------------------------------
(* The run                                                                 *)

\* The status message is sent; if not, the planner runs in the adapter.
StatusSent(i) ==
    /\ At(i, "status")
    /\ \/ Goes(i, "stream")
       \/ input' = [input EXCEPT ![i].at = "local", ![i].retried = TRUE]
    /\ ChatRest /\ UNCHANGED <<history, choiceOf, latest>>

CancelTyping(i) == FALSE

\* The stream of the router ends with an answer; with nothing or [FALLBACK]; or with an
\* error, at any point.
StreamEnds(i) ==
    /\ At(i, "stream")
    /\ \/ input' = [input EXCEPT ![i].at = "close", ![i].typing = CancelTyping(i)]
       \/ input' = [input EXCEPT ![i].at = "local"]
       \/ input' = [input EXCEPT ![i].at = "local", ![i].retried = TRUE]
    /\ ChatRest /\ UNCHANGED <<history, choiceOf, latest>>

\* keep_typing ends when it cannot send.
TypingFails(i) ==
    /\ input[i].typing
    /\ input' = [input EXCEPT ![i].typing = FALSE]
    /\ ChatRest /\ UNCHANGED <<history, choiceOf, latest>>

\* A tool call of the planner in the adapter's process asks for an approval; other calls of
\* the same step or of a parallel subtask may be suspended already.  Discord registers no
\* notifier.
AskApproval(i, r) ==
    /\ At(i, "local") /\ i \in Risky
    /\ RequestApproval(r)
    /\ platform = "discord" => notice' = notice
    /\ input' = [input EXCEPT ![i].waits = @ \cup {r}]
    /\ UNCHANGED <<platform, history, choiceOf, latest>>

Approved(r) ==
    /\ Wake(r)
    /\ input' = [i \in Input |-> [input[i] EXCEPT !.waits = @ \ {r}]]
    /\ UNCHANGED <<platform, history, choiceOf, latest>>

\* The planner returns.  On Telegram the typing task ends before anything else.
RunReturns(i) ==
    /\ platform = "telegram" /\ At(i, "local") /\ input[i].waits = {}
    /\ input' = [input EXCEPT ![i] = [RunOver(i, "close") EXCEPT !.typing = CancelTyping(i)]]
    /\ ChatRest /\ UNCHANGED <<history, choiceOf, latest>>

\* On Discord the turn is recorded at once.  The answer to a message may have choices, each
\* button with its own.
MentionReturns(i) ==
    /\ platform = "discord" /\ i \in Texts /\ At(i, "local") /\ input[i].waits = {}
    /\ \E offers \in BOOLEAN :
          input' = [input EXCEPT ![i] = [RunOver(i, "send") EXCEPT !.offers = offers]]
    /\ history' = WithTurn(history, i)
    /\ ChatRest /\ UNCHANGED <<choiceOf, latest>>

\* The answer to a choice has none.
ChoiceReturns(i) ==
    /\ platform = "discord" /\ i \in Pick /\ At(i, "local") /\ input[i].waits = {}
    /\ input' = [input EXCEPT ![i] = RunOver(i, "send")]
    /\ history' = WithTurn(history, i)
    /\ ChatRest /\ UNCHANGED <<choiceOf, latest>>

\* It raises, as when a subtask does; the task group cancels the calls of the other subtasks
\* that are suspended, and waits for those that run on.  Telegram starts the run once more
\* if the first start was not already the one in the handler of an error.
RunRaises(i) ==
    /\ At(i, "local")
    /\ Cancel(input[i].waits)
    /\ input' =
          IF platform = "discord" THEN [input EXCEPT ![i] = [RunOver(i, "sorry") EXCEPT !.waits = {}]]
          ELSE IF ~input[i].retried THEN [input EXCEPT ![i].retried = TRUE, ![i].waits = {}]
          ELSE [input EXCEPT ![i] =
                  [RunOver(i, "close") EXCEPT !.waits = {}, !.broken = TRUE,
                                              !.typing = CancelTyping(i)]]
    /\ UNCHANGED <<platform, history, choiceOf, latest>>

-----------------------------------------------------------------------------
(* The answer                                                              *)

\* Telegram: the task group ends, and the turn is recorded.
GroupEnds(i) ==
    /\ At(i, "close") /\ ~input[i].typing
    /\ IF input[i].broken THEN Goes(i, "sorry") /\ UNCHANGED history
       ELSE Goes(i, "render") /\ history' = WithTurn(history, i)
    /\ ChatRest /\ UNCHANGED <<choiceOf, latest>>

\* A chart is rendered, and the choices of the answer take the keys.
Rendered(i) ==
    /\ At(i, "render")
    /\ \/ Goes(i, "send") /\ UNCHANGED <<choiceOf, latest>>
       \/ /\ choiceOf' = [k \in 1..MaxChoice |->
                IF \E n \in 1..MaxChoice : Key(n) = k
                THEN Label(i, CHOOSE n \in 1..MaxChoice : Key(n) = k /\ \A m \in n+1..MaxChoice : Key(m) # k)
                ELSE choiceOf[k]]
          /\ input' = [input EXCEPT ![i].at = "send", ![i].offers = TRUE]
          /\ latest' = i
    /\ ChatRest /\ UNCHANGED history

\* The answer is sent; one with a photo and a short text shows no buttons.
Sent(i) ==
    /\ At(i, "send")
    /\ \E shown \in {FALSE, input[i].offers} : Ends(i, shown)
    /\ ChatRest /\ UNCHANGED <<history, choiceOf, latest>>

\* A piece is refused, on Telegram as plain text too.  The pieces before it are there, and on
\* Telegram each of them has the buttons.
SendFails(i) ==
    /\ At(i, "send")
    /\ \E shown \in {FALSE, platform = "telegram" /\ input[i].offers} :
          input' = [input EXCEPT ![i].at = "sorry", ![i].buttons = shown]
    /\ ChatRest /\ UNCHANGED <<history, choiceOf, latest>>

\* The error message arrives or not.
ErrorSent(i) ==
    /\ At(i, "sorry")
    /\ Ends(i, input[i].buttons)
    /\ ChatRest /\ UNCHANGED <<history, choiceOf, latest>>

-----------------------------------------------------------------------------
\* What the loop and the services behind the awaits do in time.
Handle(i) ==
    \/ FileHandled(i) \/ LookUp(i) \/ Defer(i) \/ ButtonsTaken(i) \/ Echoed(i)
    \/ StatusSent(i) \/ StreamEnds(i)
    \/ RunReturns(i) \/ MentionReturns(i) \/ ChoiceReturns(i) \/ RunRaises(i)
    \/ GroupEnds(i) \/ Rendered(i)
    \/ Sent(i) \/ SendFails(i) \/ ErrorSent(i)

ChatNext ==
    \/ \E i \in Input :
          \/ Handle(i) \/ TypingFails(i)
          \/ \E r \in Request : AskApproval(i, r)
    \/ \E i \in Texts : Receive(i) \/ Mentioned(i)
    \/ \E i \in Pick, j \in Input, n \in 1..MaxChoice : PressChoice(i, j, n)
    \/ \E r \in Request : Approved(r) \/ (Notify(r) /\ UNCHANGED <<platform, chat>>)
    \/ \E p \in Press : (AnswerFails(p) \/ Resolve(p)) /\ UNCHANGED <<platform, chat>>
    \/ \E p \in Press, r \in Request, yes \in BOOLEAN :
          PressButton(p, r, yes) /\ UNCHANGED <<platform, chat>>

ChatSpec ==
    /\ ChatInit /\ [][ChatNext]_chatVars
    /\ \A i \in Input : WF_chatVars(Handle(i))
    /\ \A r \in Request : WF_chatVars(Approved(r))
    /\ \A p \in Press : WF_chatVars(Resolve(p) /\ UNCHANGED <<platform, chat>>)

-----------------------------------------------------------------------------
\* Types of the chat; only a run in the adapter waits for approvals, and a call that is
\* suspended holds up exactly one run.
ChatTypeOK ==
    /\ TypeOK
    /\ platform \in {"telegram", "discord"}
    /\ \A i \in Input : input[i].waits # {} => At(i, "local")
    /\ \A r \in Request : call[r] = "waiting" <=> \E i \in Input : r \in input[i].waits
    /\ \A i, j \in Input : i # j => input[i].waits \cap input[j].waits = {}
    /\ Len(history) <= MaxHistory

\* Roles alternate, and an answer follows its own question.
Turns(h) ==
    \A n \in 1..Len(h)-1 :
        /\ h[n].role # h[n+1].role
        /\ h[n].role = "user" => h[n+1].of = h[n].of

\* Inputs of one user that overlap never mix their turns: what is kept, and what any run
\* was given, is a sequence of whole turns.  (Two messages of one role in a row would make the
\* next input glue them together in place: telegram_adapter.py:311-317, 449-450.)
HistoryIsTurns == Turns(history) /\ \A i \in Input : Turns(input[i].snap)

\* What a press is taken to say, up to the run that is given it, is the choice its button
\* shows, unless another answer with choices took over the keys on Telegram
\* (telegram_adapter.py:572, 662; discord_adapter.py:104).
PressMeansLabel ==
    \A i \in Input : input[i].press # NoText /\ input[i].text # NoText =>
        \/ input[i].text = input[i].press
        \/ platform = "telegram" /\ latest # input[i].press.of


==============================================================================
