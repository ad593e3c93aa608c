----------------------------- MODULE HitlApproval -----------------------------
(***************************************************************************)
(* Approval of high-risk tool calls (core/hitl.py): the tool registry      *)
(* suspends the call (tools/base.py), the Telegram adapter asks the user   *)
(* and handles the buttons, each press in a task of its own                *)
(* (api/adapters/telegram_adapter.py).  All of it runs on one event loop:  *)
(* an action is what happens between two awaits.                           *)
(*                                                                         *)
(* An approval id is the request it was drawn for (two draws of eight      *)
(* hexadecimal digits are taken to differ).                                *)
(***************************************************************************)
EXTENDS Naturals

CONSTANTS
    Request,   \* calls of high-risk tools, numbered as they are made
    Press      \* presses of buttons, numbered as the user makes them

ASSUME HitlAssumption == Request \subseteq Nat /\ Press \subseteq Nat

VARIABLES
    call,      \* where each call is
    pending,   \* pending_approvals
    set,       \* event of each request
    approved,  \* result_holder["approved"]
    notice,    \* the message with the buttons
    press,     \* each press: the request and the button, and how far it is handled
    told       \* history: the last button that the manager accepted for each request

vars == <<call, pending, set, approved, notice, press, told>>

-----------------------------------------------------------------------------
NoPress == [on |-> "none", approve |-> FALSE, at |-> "idle"]
\* Its handler is over; what it was about is dropped.
Handled == [NoPress EXCEPT !.at = "handled"]

Init ==
    /\ call = [r \in Request |-> "new"]
    /\ pending = {}
    /\ set = [r \in Request |-> FALSE]
    /\ approved = [r \in Request |-> FALSE]
    /\ notice = [r \in Request |-> "none"]
    /\ press = [p \in Press |-> NoPress]
    /\ told = [r \in Request |-> "nothing"]

\* request_approval: the request is registered, a task for the notice is created if
\* the process has a notifier, and the call waits.
RequestApproval(r) ==
    /\ call[r] = "new" /\ \A q \in Request : q < r => call[q] # "new"
    /\ call' = [call EXCEPT ![r] = "waiting"]
    /\ pending' = pending \cup {r}
    /\ notice' = [notice EXCEPT ![r] = "sending"] \/ UNCHANGED notice
    /\ UNCHANGED <<set, approved, press, told>>

\* The notice is sent; or there is none, as for an agent id that names no chat, which is
\* at most logged.
Notify(r) ==
    /\ notice[r] = "sending"
    /\ notice' = [notice EXCEPT ![r] = "shown"] \/ notice' = [notice EXCEPT ![r] = "none"]
    /\ UNCHANGED <<call, pending, set, approved, press, told>>

\* A button is pressed, as often as the user likes: the handler awaits its
\* acknowledgement first, which may fail and end the handler.
PressButton(p, r, yes) ==
    /\ press[p].at = "idle" /\ \A q \in Press : q < p => press[q].at # "idle"
    /\ notice[r] = "shown"
    /\ press' = [press EXCEPT ![p] = [on |-> r, approve |-> yes, at |-> "answering"]]
    /\ UNCHANGED <<call, pending, set, approved, notice, told>>

AnswerFails(p) ==
    /\ press[p].at = "answering"
    /\ press' = [press EXCEPT ![p] = Handled]
    /\ UNCHANGED <<call, pending, set, approved, notice, told>>

\* resolve_approval.  Mutants: only an approval wakes the call; a request that is
\* over is resolved again.
WakeOnApproval(p) == set' = [set EXCEPT ![press[p].on] = press[p].approve]
WakeCall(p)       == set' = [set EXCEPT ![press[p].on] = TRUE]

Ever(r)    == call[r] # "new"
Pending(r) == r \in pending

Resolve(p) ==
    /\ press[p].at = "answering"
    /\ press' = [press EXCEPT ![p] = Handled]
    /\ LET r == press[p].on IN
       IF Pending(r)
         THEN /\ approved' = [approved EXCEPT ![r] = press[p].approve]
              /\ WakeCall(p)
              /\ told' = [told EXCEPT ![r] = IF press[p].approve THEN "yes" ELSE "no"]
         ELSE UNCHANGED <<approved, set, told>>
    /\ UNCHANGED <<call, pending, notice>>

\* The call runs on: it forgets the request and goes on to the tool, or does not.
Forget(r) == pending \ {r}

Wake(r) ==
    /\ call[r] = "waiting" /\ set[r]
    /\ pending' = Forget(r)
    /\ call' = [call EXCEPT ![r] = IF approved[r] THEN "carried" ELSE "rejected"]
    /\ UNCHANGED <<set, approved, notice, press, told>>

\* The run of some calls is cancelled while they are suspended: they end at the wait, and
\* nobody forgets their requests.  A call whose event is set is not cancelled at the wait:
\* it runs on to its tool.
Cancel(calls) ==
    /\ \A r \in calls : call[r] = "waiting" /\ ~set[r]
    /\ call' = [r \in Request |-> IF r \in calls THEN "cancelled" ELSE call[r]]
    /\ UNCHANGED <<pending, set, approved, notice, press, told>>

Next ==
    \/ \E r \in Request : RequestApproval(r) \/ Notify(r) \/ Wake(r)
    \/ \E calls \in SUBSET Request : Cancel(calls)
    \/ \E p \in Press : AnswerFails(p) \/ Resolve(p)
    \/ \E p \in Press, r \in Request, yes \in BOOLEAN : PressButton(p, r, yes)

\* The event loop is fair.  The user need not press anything.
Spec == /\ Init /\ [][Next]_vars
        /\ \A r \in Request : WF_vars(Wake(r))
        /\ \A p \in Press : WF_vars(Resolve(p))

-----------------------------------------------------------------------------
(***************************************************************************)
(* Properties.                                                             *)
(***************************************************************************)

\* The types of the variables; what is pending is what is suspended, and what was cancelled
\* while it was.
TypeOK ==
    /\ call \in [Request -> {"new", "waiting", "carried", "rejected", "cancelled"}]
    /\ pending = {r \in Request : call[r] \in {"waiting", "cancelled"}}
    /\ set \in [Request -> BOOLEAN]
    /\ approved \in [Request -> BOOLEAN]
    /\ notice \in [Request -> {"none", "sending", "shown"}]
    /\ press \in [Press -> [on : Request \cup {"none"}, approve : BOOLEAN,
                            at : {"idle", "answering", "handled"}]]
    /\ told \in [Request -> {"nothing", "yes", "no"}]

\* A call is carried out exactly on the user's word: its outcome is the last button
\* that the manager accepted, and no button is accepted once it is decided.
OutcomeIsLastWord ==
    \A r \in Request :
        /\ (call[r] = "carried"  => told[r] = "yes")
        /\ (call[r] = "rejected" => told[r] = "no")

\* An answer that reaches a suspended call decides it, whatever the answer is: the call does
\* not stay suspended, and a cancellation that comes after the answer does not take it back
\* (hitl.py:46-83).  An answer that comes after the cancellation is accepted and has no effect.
DecisionsTakeEffect ==
    \A r \in Request :
        (call[r] = "waiting" /\ told[r] # "nothing") ~> call[r] \in {"carried", "rejected"}

==============================================================================
