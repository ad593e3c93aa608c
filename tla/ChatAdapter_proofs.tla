-------------------------- MODULE ChatAdapter_proofs --------------------------
(***************************************************************************)
(* The chat of one user, for any messages, presses and approvals: a        *)
(* suspended call is carried out on the user's last accepted word and on   *)
(* nothing else; turns of the conversation never mix; and a press means    *)
(* the choice that its button shows.                                       *)
(***************************************************************************)
EXTENDS ChatAdapter, SequenceTheorems, TLAPS

-----------------------------------------------------------------------------
(* Approvals                                                               *)

\* The event and the result holder of a request say together what the last accepted button
\* said; once the call runs on, the request is out of pending_approvals, so that neither of
\* them changes any more.
Spoken(r) ==
    /\ set[r] <=> told[r] # "nothing"
    /\ set[r] => (approved[r] <=> told[r] = "yes")

Over(r) == call[r] \in {"carried", "rejected"}

HitlInv ==
    /\ TypeOK
    /\ \A r \in Request : Spoken(r)
    /\ \A r \in Request : Over(r) => set[r] /\ (call[r] = "carried" <=> approved[r])

\* No call was made and no button pressed.
LEMMA HitlInitially == Init => HitlInv
  BY DEF Init, HitlInv, TypeOK, NoPress, Spoken, Over

\* A cancellation moves suspended calls only, and leaves their requests behind.
LEMMA CancelKeepsIt ==
  ASSUME HitlInv, NEW calls \in SUBSET Request, Cancel(calls) PROVE HitlInv'
  <1> USE DEF HitlInv, TypeOK, Spoken, Over
  <1>1. /\ \A r \in calls : call[r] = "waiting"
        /\ call' = [r \in Request |-> IF r \in calls THEN "cancelled" ELSE call[r]]
        /\ UNCHANGED <<pending, set, approved, notice, press, told>>
    BY DEF Cancel
  <1>2. call' \in [Request -> {"new", "waiting", "carried", "rejected", "cancelled"}]
    BY <1>1
  <1>3. \A r \in Request :
           /\ call'[r] \in {"waiting", "cancelled"} <=> call[r] \in {"waiting", "cancelled"}
           /\ call'[r] # call[r] => call'[r] = "cancelled"
    BY <1>1
  <1>4. pending' = {r \in Request : call'[r] \in {"waiting", "cancelled"}} BY <1>1, <1>3
  <1> QED BY <1>1, <1>2, <1>3, <1>4

\* Only a press that the manager accepts changes event, holder and last word, all three at once.
LEMMA HitlStep == HitlInv /\ [Next]_vars => HitlInv'
  <1> SUFFICES ASSUME HitlInv, [Next]_vars PROVE HitlInv' OBVIOUS
  <1> USE DEF HitlInv, TypeOK, Spoken, Over
  <1>1. ASSUME NEW r \in Request, RequestApproval(r) PROVE HitlInv'
    <2>1. /\ call[r] = "new" /\ call' = [call EXCEPT ![r] = "waiting"]
          /\ pending' = pending \cup {r} /\ UNCHANGED <<set, approved, press, told>>
      BY <1>1 DEF RequestApproval
    <2>2. notice' \in [Request -> {"none", "sending", "shown"}]
      BY <1>1 DEF RequestApproval
    <2>3. call' \in [Request -> {"new", "waiting", "carried", "rejected", "cancelled"}] BY <2>1
    <2>4. pending' = {q \in Request : call'[q] \in {"waiting", "cancelled"}} BY <2>1
    <2> QED BY <2>1, <2>2, <2>3, <2>4
  <1>2. ASSUME NEW r \in Request, Notify(r) PROVE HitlInv'
    BY <1>2 DEF Notify
  <1>3. ASSUME NEW r \in Request, Wake(r) PROVE HitlInv'
    BY <1>3 DEF Wake, Forget
  <1>4. ASSUME NEW p \in Press, AnswerFails(p) PROVE HitlInv'
    BY <1>4 DEF AnswerFails, Handled, NoPress
  <1>5. ASSUME NEW p \in Press, NEW r \in Request, NEW yes \in BOOLEAN, PressButton(p, r, yes)
        PROVE  HitlInv'
    BY <1>5 DEF PressButton
  <1>6. ASSUME NEW p \in Press, Resolve(p) PROVE HitlInv'
    <2> DEFINE q == press[p].on
               e == press[p].approve
    <2>1. CASE q \in pending
      <3>0. press[p] \in [on : Request \cup {"none"}, approve : BOOLEAN,
                          at : {"idle", "answering", "handled"}]
        OBVIOUS
      <3>1. q \in Request /\ e \in BOOLEAN /\ call[q] \in {"waiting", "cancelled"}
        <4>1. q \in {r \in Request : call[r] \in {"waiting", "cancelled"}} BY <2>1
        <4>2. q \in Request /\ call[q] \in {"waiting", "cancelled"} BY <4>1
        <4>3. e \in BOOLEAN BY <3>0
        <4> QED BY <4>2, <4>3
      <3>2. /\ approved' = [approved EXCEPT ![q] = e] /\ set' = [set EXCEPT ![q] = TRUE]
            /\ told' = [told EXCEPT ![q] = IF e THEN "yes" ELSE "no"]
            /\ press' = [press EXCEPT ![p] = Handled]
            /\ UNCHANGED <<call, pending, notice>>
        BY <1>6, <2>1 DEF Resolve, Pending, WakeCall
      <3>4. TypeOK'
        <4>1. approved' \in [Request -> BOOLEAN] /\ set' \in [Request -> BOOLEAN] BY <3>1, <3>2
        <4>2. told' \in [Request -> {"nothing", "yes", "no"}] BY <3>1, <3>2
        <4>3. press' \in [Press -> [on : Request \cup {"none"}, approve : BOOLEAN,
                            at : {"idle", "answering", "handled"}]]
          BY <3>0, <3>2 DEF Handled, NoPress
        <4>4. /\ call' \in [Request -> {"new", "waiting", "carried", "rejected", "cancelled"}]
              /\ pending' = {r \in Request : call'[r] \in {"waiting", "cancelled"}}
              /\ notice' \in [Request -> {"none", "sending", "shown"}]
          BY <3>2
        <4> QED BY <4>1, <4>2, <4>3, <4>4
      <3>5. \A r \in Request : r # q => /\ told'[r] = told[r] /\ set'[r] = set[r]
                                        /\ approved'[r] = approved[r]
        BY <3>2
      <3>6. told'[q] = (IF e THEN "yes" ELSE "no") /\ set'[q] = TRUE /\ approved'[q] = e
        BY <3>1, <3>2
      <3>7. \A r \in Request : Spoken(r)'
        <4> TAKE r \in Request
        <4>1. CASE r = q
          <5>1. set'[r] /\ told'[r] # "nothing" BY <4>1, <3>6
          <5>2. approved'[r] <=> told'[r] = "yes" BY <4>1, <3>1, <3>6
          <5> QED BY <5>1, <5>2
        <4>2. CASE r # q
          <5>1. told'[r] = told[r] /\ set'[r] = set[r] /\ approved'[r] = approved[r]
            BY <4>2, <3>5
          <5> QED BY <5>1
        <4> QED BY <4>1, <4>2
      <3>8. \A r \in Request : Over(r)' => set'[r] /\ (call'[r] = "carried" <=> approved'[r])
        BY <3>1, <3>2, <3>5
      <3> QED BY <3>4, <3>7, <3>8
    <2>2. CASE q \notin pending
      <3>1. /\ press' = [press EXCEPT ![p] = Handled]
            /\ UNCHANGED <<approved, set, told, call, pending, notice>>
        BY <1>6, <2>2 DEF Resolve, Pending
      <3>2. TypeOK' BY <3>1 DEF Handled, NoPress
      <3> QED BY <3>1, <3>2
    <2> QED BY <2>1, <2>2
  <1>7. ASSUME NEW calls \in SUBSET Request, Cancel(calls) PROVE HitlInv'
    BY <1>7, CancelKeepsIt
  <1>8. CASE UNCHANGED vars BY <1>8 DEF vars
  <1> QED BY <1>1, <1>2, <1>3, <1>4, <1>5, <1>6, <1>7, <1>8 DEF Next

\* What is pending is what is suspended and what was cancelled while it was: a call that
\* went on, to its tool or past it, is in nobody's list, and a call that was cancelled stays
\* there for good (hitl.py:38-49 has no finally).
THEOREM TypeCorrect == Spec => []TypeOK
  <1>1. HitlInv => TypeOK BY DEF HitlInv
  <1> QED BY <1>1, HitlInitially, HitlStep, PTL DEF Spec

-----------------------------------------------------------------------------
(* Inputs                                                                  *)

Phases == {"idle", "file", "ack", "edit", "echo", "status", "stream", "local", "close",
           "render", "send", "sorry", "over"}
Choice == [of : Input, n : 1 .. MaxChoice]
Texted == Choice \cup {NoText}
Turn   == [role : {"user", "assistant"}, of : Input]

InputType ==
    [at : Phases, text : Texted, press : Texted, snap : Seq(Turn), typing : BOOLEAN,
     retried : BOOLEAN, broken : BOOLEAN, waits : SUBSET Request,
     offers : BOOLEAN, buttons : BOOLEAN]

\* The conversation ends with an answer, so that a turn can follow.
Whole(h) == Turns(h) /\ (h # <<>> => h[Len(h)].role = "assistant")

SharedInv ==
    /\ platform \in {"telegram", "discord"}
    /\ input \in [Input -> InputType]
    /\ history \in Seq(Turn) /\ Whole(history)
    /\ choiceOf \in [1 .. MaxChoice -> Texted]
    /\ latest \in Input \cup {NoText}
    /\ latest \in Input => \A n \in 1 .. MaxChoice : choiceOf[n] = Label(latest, n)

\* An answer shows its buttons from when it is sent, in whole or in part.
Shows == {"sorry", "over"}
USE DEF Shows

\* An input.  The router and the keys are Telegram's; where a button is shown, the keys are
\* taken.
InputInv(x) ==
    /\ Turns(x.snap)
    /\ x.at \in {"status", "stream", "close", "render"} => platform = "telegram"
    /\ x.offers /\ platform = "telegram" => latest \in Input
    /\ x.buttons => x.at \in Shows /\ (platform = "telegram" => latest \in Input)

\* A press is of a button of an answer that was sent, and the keys, once they have gone to
\* another answer, do not come back.
PressInv(x) ==
    /\ x.at = "idle" => x.text = NoText
    /\ x.at \in {"idle", "file"} => x.press = NoText
    /\ x.at = "ack" => x.text = NoText
    /\ x.at \in {"ack", "edit"} => x.press \in Choice
    /\ x.press # NoText =>
          /\ x.press \in Choice /\ input[x.press.of].at \in Shows
          /\ platform = "telegram" => latest \in Input
          /\ x.text # NoText =>
                \/ x.text = x.press
                \/ platform = "telegram" /\ latest # x.press.of

ChatInv == SharedInv /\ \A i \in Input : InputInv(input[i]) /\ PressInv(input[i])

-----------------------------------------------------------------------------
(* The conversation                                                        *)

\* A part of a conversation whose messages alternate alternates too.
LEMMA TurnsOfSuffix ==
  ASSUME NEW h, NEW t, Turns(h), NEW k,
         \A n \in 1 .. Len(t) - 1 :
            t[n] = h[k + n] /\ t[n + 1] = h[k + n + 1] /\ k + n \in 1 .. Len(h) - 1
  PROVE  Turns(t)
  <1> SUFFICES ASSUME NEW n \in 1 .. Len(t) - 1
               PROVE  t[n].role # t[n + 1].role /\ (t[n].role = "user" => t[n + 1].of = t[n].of)
    BY DEF Turns
  <1>1. t[n] = h[k + n] /\ t[n + 1] = h[k + n + 1] /\ k + n \in 1 .. Len(h) - 1 OBVIOUS
  <1>2. /\ h[k + n].role # h[k + n + 1].role
        /\ h[k + n].role = "user" => h[k + n + 1].of = h[k + n].of
    BY <1>1 DEF Turns
  <1> QED BY <1>1, <1>2

\* What the deque drops are messages of the front; what is left is still whole turns, perhaps
\* with the answer of a dropped question at its front.
LEMMA TrimKeepsTurns ==
  ASSUME NEW h \in Seq(Turn), Whole(h)
  PROVE  Trim(h) \in Seq(Turn) /\ Whole(Trim(h))
  <1> DEFINE k == Len(h) - MaxHistory
             t == SubSeq(h, k + 1, Len(h))
  <1>1. CASE Len(h) <= MaxHistory BY <1>1, ChatAssumption DEF Trim
  <1>2. CASE Len(h) > MaxHistory
    <2>1. k \in Nat /\ k + 1 \in 1 .. Len(h) + 1 /\ Len(h) \in Nat /\ MaxHistory \in Nat
      BY <1>2, ChatAssumption
    <2>2. /\ t \in Seq(Turn) /\ Len(t) = MaxHistory
          /\ \A n \in 1 .. MaxHistory : t[n] = h[k + n]
      <3>1. /\ t \in Seq(Turn)
            /\ Len(t) = IF k + 1 <= Len(h) THEN Len(h) - (k + 1) + 1 ELSE 0
            /\ \A n \in 1 .. Len(h) - (k + 1) + 1 : t[n] = h[k + 1 + n - 1]
        BY <2>1, SubSeqProperties
      <3>2. Len(h) - (k + 1) + 1 = MaxHistory BY <2>1
      <3>3. Len(t) = MaxHistory BY <2>1, <3>1, <3>2
      <3>4. \A n \in 1 .. MaxHistory : t[n] = h[k + n]
        <4> TAKE n \in 1 .. MaxHistory
        <4> HIDE DEF k, t
        <4>1. t[n] = h[k + 1 + n - 1] BY <3>1, <3>2
        <4>2. k + 1 + n - 1 = k + n BY <2>1
        <4> QED BY <4>1, <4>2
      <3> QED BY <3>1, <3>3, <3>4
    <2>3. \A n \in 1 .. MaxHistory - 1 :
             /\ t[n] = h[k + n] /\ t[n + 1] = h[k + n + 1]
             /\ k + n \in 1 .. Len(h) - 1
      BY <2>1, <2>2
    <2>4. Turns(t)
      <3> HIDE DEF t
      <3> QED BY <2>2, <2>3, TurnsOfSuffix DEF Whole
    <2>5. t # <<>> => t[Len(t)] = h[Len(h)] /\ h # <<>>
      <3> SUFFICES ASSUME t # <<>> PROVE t[Len(t)] = h[Len(h)] /\ h # <<>> OBVIOUS
      <3>1. MaxHistory \in 1 .. MaxHistory BY <2>1, <2>2
      <3> QED BY <2>1, <2>2, <3>1, <1>2
    <2>6. Trim(h) = t BY <1>2, <2>1 DEF Trim
    <2> QED BY <2>2, <2>4, <2>5, <2>6 DEF Whole
  <1> QED BY <1>1, <1>2, ChatAssumption

\* A turn is recorded after whole turns.
LEMMA TurnIsAdded ==
  ASSUME NEW h \in Seq(Turn), Whole(h), NEW i \in Input
  PROVE  WithTurn(h, i) \in Seq(Turn) /\ Whole(WithTurn(h, i))
  <1> DEFINE u == <<Message("user", i), Message("assistant", i)>>
             g == h \o u
  <1>1. /\ u \in Seq(Turn) /\ Len(u) = 2
        /\ u[1] = Message("user", i) /\ u[2] = Message("assistant", i)
    BY DEF Message, Turn
  <1>2. /\ g \in Seq(Turn) /\ Len(g) = Len(h) + 2 /\ Len(h) \in Nat
        /\ \A n \in 1 .. Len(h) + 2 : g[n] = IF n <= Len(h) THEN h[n] ELSE u[n - Len(h)]
    <2> HIDE DEF u
    <2>1. /\ h \o u \in Seq(Turn) /\ Len(h \o u) = Len(h) + Len(u)
          /\ \A n \in 1 .. Len(h) + Len(u) :
                (h \o u)[n] = IF n <= Len(h) THEN h[n] ELSE u[n - Len(h)]
      BY <1>1, ConcatProperties, Zenon
    <2> QED BY <1>1, <2>1
  <1>3. /\ g[Len(h) + 1] = Message("user", i) /\ g[Len(h) + 2] = Message("assistant", i)
        /\ \A n \in 1 .. Len(h) : g[n] = h[n]
    <2> HIDE DEF g, u
    <2>1. /\ Len(h) + 1 - Len(h) = 1 /\ Len(h) + 2 - Len(h) = 2
          /\ Len(h) + 1 \in 1 .. Len(h) + 2 /\ Len(h) + 2 \in 1 .. Len(h) + 2
          /\ ~(Len(h) + 1 <= Len(h)) /\ ~(Len(h) + 2 <= Len(h))
          /\ \A n \in 1 .. Len(h) : n \in 1 .. Len(h) + 2 /\ n <= Len(h)
      BY <1>2
    <2> QED BY <1>1, <1>2, <2>1
  <1>4. Whole(g)
    <2> HIDE DEF g, u
    <2> USE DEF Whole, Turns
    <2>1. \A n \in 1 .. Len(g) - 1 :
             /\ g[n].role # g[n+1].role
             /\ g[n].role = "user" => g[n+1].of = g[n].of
      <3> TAKE n \in 1 .. Len(g) - 1
      <3>1. CASE n \in 1 .. Len(h) - 1
        <4>1. g[n] = h[n] /\ g[n+1] = h[n+1] BY <1>2, <1>3, <3>1
        <4> QED BY <4>1, <3>1
      <3>2. CASE n = Len(h)
        <4>1. n \in 1 .. Len(h) /\ h # <<>> BY <1>2, <3>2
        <4>2. g[n] = h[Len(h)] /\ g[n+1] = Message("user", i) BY <1>3, <3>2, <4>1
        <4>3. h[Len(h)].role = "assistant" BY <4>1
        <4> QED BY <4>2, <4>3 DEF Message
      <3>3. CASE n = Len(h) + 1
        <4>1. g[n] = Message("user", i) /\ g[n+1] = Message("assistant", i)
          <5>1. n + 1 = Len(h) + 2 BY <1>2, <3>3
          <5> QED BY <1>3, <3>3, <5>1
        <4> QED BY <4>1 DEF Message
      <3>4. n \in 1 .. Len(h) - 1 \/ n = Len(h) \/ n = Len(h) + 1 BY <1>2
      <3> QED BY <3>1, <3>2, <3>3, <3>4
    <2>2. g[Len(g)].role = "assistant" BY <1>2, <1>3 DEF Message
    <2> QED BY <2>1, <2>2
  <1>5. WithTurn(h, i) = Trim(g) BY DEF WithTurn
  <1> HIDE DEF g
  <1> QED BY <1>2, <1>4, <1>5, TrimKeepsTurns

-----------------------------------------------------------------------------
(* Every step keeps the invariant                                          *)

\* A choice is not taken for the absence of one.
LEMMA ChoiceIsText == \A c \in Choice : c # NoText
  BY ChatAssumption DEF Choice, Input

\* The handler of an input that has not arrived, and of one that is over.
LEMMA NewInputType == NewInput \in InputType /\ Turns(NewInput.snap)
  <1>1. <<>> \in Seq(Turn) /\ Turns(<<>>) BY DEF Turns
  <1> QED BY <1>1 DEF NewInput, InputType, Phases, Texted

\* Nothing was said.
LEMMA ChatInitially == ChatInit => ChatInv
  <1> SUFFICES ASSUME ChatInit PROVE ChatInv OBVIOUS
  <1>1. <<>> \in Seq(Turn) /\ Whole(<<>>) BY DEF Whole, Turns
  <1>2. SharedInv BY <1>1, NewInputType, ChatAssumption DEF ChatInit, SharedInv, Texted, Input
  <1>3. \A i \in Input : InputInv(input[i]) /\ PressInv(input[i])
    BY NewInputType DEF ChatInit, InputInv, PressInv, NewInput
  <1> QED BY <1>2, <1>3 DEF ChatInv

\* A step that leaves the keys alone keeps the invariant when what becomes of each input
\* fits the state before it: an input that is answered remains so.
LEMMA InputsKeepIt ==
  ASSUME ChatInv, input' \in [Input -> InputType],
         \A j \in Input : input[j].at \in Shows => input'[j].at \in Shows,
         \A j \in Input : InputInv(input'[j]) /\ PressInv(input'[j]),
         history' \in Seq(Turn), Whole(history'),
         UNCHANGED <<platform, choiceOf, latest>>
  PROVE  ChatInv'
  <1>1. SharedInv' BY DEF ChatInv, SharedInv
  <1>2. ASSUME NEW j \in Input PROVE InputInv(input[j])' /\ PressInv(input[j])'
    <2>1. InputInv(input[j])' BY DEF InputInv
    <2>2. PressInv(input[j])' BY DEF PressInv, Choice, At
    <2> QED BY <2>1, <2>2
  <1> QED BY <1>1, <1>2 DEF ChatInv

\* The same, for a step of one input.
LEMMA OneInputKeepsIt ==
  ASSUME ChatInv, NEW i \in Input, NEW x \in InputType, input' = [input EXCEPT ![i] = x],
         input[i].at \in Shows => x.at \in Shows, InputInv(x), PressInv(x),
         history' \in Seq(Turn), Whole(history'),
         UNCHANGED <<platform, choiceOf, latest>>
  PROVE  ChatInv'
  <1>1. input \in [Input -> InputType] BY DEF ChatInv, SharedInv
  <1>2. input' \in [Input -> InputType] BY <1>1
  <1>3. \A j \in Input : input'[j] = IF j = i THEN x ELSE input[j] BY <1>1
  <1>4. \A j \in Input : input[j].at \in Shows => input'[j].at \in Shows BY <1>3 DEF At
  <1>5. \A j \in Input : InputInv(input'[j]) /\ PressInv(input'[j]) BY <1>3 DEF ChatInv
  <1> QED BY <1>2, <1>4, <1>5, InputsKeepIt

\* An input that ends shows its buttons only where a part of its answer was sent with them.
LEMMA EndsKeepsIt ==
  ASSUME ChatInv, NEW i \in Input, NEW shown \in BOOLEAN, Ends(i, shown),
         shown => input[i].buttons \/ input[i].offers, input[i].at # "over",
         ChatRest, UNCHANGED <<history, choiceOf, latest>>
  PROVE  ChatInv'
  <1> DEFINE x == [NewInput EXCEPT !.at = "over", !.buttons = shown]
  <1>0. InputInv(input[i]) BY DEF ChatInv
  <1>1. x \in InputType BY NewInputType DEF InputType, Phases
  <1>2. InputInv(x) /\ PressInv(x) BY <1>0, NewInputType DEF InputInv, PressInv, NewInput
  <1>3. input' = [input EXCEPT ![i] = x] BY DEF Ends
  <1>4. x.at \in Shows BY DEF NewInput
  <1> HIDE DEF x
  <1>5. history' \in Seq(Turn) /\ Whole(history') BY DEF ChatInv, SharedInv
  <1> QED BY <1>1, <1>2, <1>3, <1>4, <1>5, OneInputKeepsIt DEF ChatRest

\* A run begins on a copy of the conversation.
LEMMA BeginKeepsIt ==
  ASSUME ChatInv, NEW i \in Input, Begin(i), input[i].at \notin Shows,
         ChatRest, UNCHANGED <<choiceOf, latest>>
  PROVE  ChatInv'
  <1> DEFINE x == [NewInput EXCEPT
                     !.at = IF platform = "telegram" THEN "status" ELSE "local",
                     !.snap = history, !.typing = (platform = "telegram")]
  <1>1. history \in Seq(Turn) /\ Whole(history) /\ Turns(history)
    BY DEF ChatInv, SharedInv, Whole
  <1>2. x \in InputType BY <1>1, NewInputType DEF InputType, Phases
  <1>3. InputInv(x) /\ PressInv(x) BY <1>1 DEF InputInv, PressInv, NewInput
  <1>4. input' = [input EXCEPT ![i] = x] /\ history' = history
    BY DEF Begin, AtStart
  <1> HIDE DEF x
  <1> QED BY <1>1, <1>2, <1>3, <1>4, OneInputKeepsIt DEF ChatRest

\* The text stays, and the press does too or is over: what a step within a run does.
LEMMA RunStepKeepsIt ==
  ASSUME ChatInv, NEW i \in Input, NEW x \in InputType, input' = [input EXCEPT ![i] = x],
         input[i].at \notin Shows, ~At(i, "idle"), ~At(i, "file"), ~At(i, "ack"),
         x.at \notin {"idle", "file", "ack", "edit"},
         x.text = input[i].text, x.press = input[i].press,
         InputInv(x), history' \in Seq(Turn), Whole(history'),
         UNCHANGED <<platform, choiceOf, latest>>
  PROVE  ChatInv'
  <1>1. PressInv(input[i]) BY DEF ChatInv
  <1>2. PressInv(x) BY <1>1 DEF PressInv
  <1> QED BY <1>2, OneInputKeepsIt DEF ChatRest

\* Messages and presses.
LEMMA ArrivalKeepsIt ==
  ASSUME ChatInv, NEW i \in Input,
         \/ i \in Texts /\ (Receive(i) \/ Mentioned(i))
         \/ FileHandled(i)
         \/ Echoed(i)
         \/ i \in Pick /\ \E j \in Input, n \in 1 .. MaxChoice : PressChoice(i, j, n)
  PROVE  ChatInv'
  <1> USE DEF At, ChatRest
  <1>0. /\ input \in [Input -> InputType] /\ input[i] \in InputType
        /\ InputInv(input[i]) /\ PressInv(input[i])
        /\ history \in Seq(Turn) /\ Whole(history)
    BY DEF ChatInv, SharedInv
  <1>2. ASSUME At(i, "idle"), Goes(i, "file"),
               ChatRest, UNCHANGED <<history, choiceOf, latest>>
        PROVE  ChatInv'
    <2> DEFINE x == [input[i] EXCEPT !.at = "file"]
    <2>1. x \in InputType BY <1>0 DEF InputType, Phases
    <2>2. InputInv(x) /\ PressInv(x) BY <1>0, <1>2 DEF InputInv, PressInv, InputType
    <2>3. input' = [input EXCEPT ![i] = x] BY <1>0, <1>2 DEF Goes
    <2> HIDE DEF x
    <2> QED BY <1>0, <1>2, <2>1, <2>2, <2>3, OneInputKeepsIt
  <1>3. CASE Receive(i)
    BY <1>2, <1>3, BeginKeepsIt DEF Receive, Arrives
  <1>4. CASE Mentioned(i)
    BY <1>4, BeginKeepsIt DEF Mentioned, Arrives
  <1>5. CASE FileHandled(i)
    BY <1>5, BeginKeepsIt, EndsKeepsIt DEF FileHandled
  <1>6. CASE Echoed(i)
    BY <1>6, BeginKeepsIt, EndsKeepsIt DEF Echoed
  <1>7. ASSUME NEW j \in Input, NEW n \in 1 .. MaxChoice, PressChoice(i, j, n)
        PROVE  ChatInv'
    <2> DEFINE x == [input[i] EXCEPT !.at = "ack", !.press = Label(j, n)]
    <2>0. InputInv(input[j]) BY DEF ChatInv
    <2>1. Label(j, n) \in Choice /\ Label(j, n) \in Texted /\ Label(j, n).of = j
      BY DEF Label, Choice, Texted
    <2>2. x \in InputType BY <1>0, <2>1 DEF InputType, Phases
    <2>3. InputInv(x) BY <1>0, <1>7 DEF InputInv, InputType, PressChoice
    <2>4. PressInv(x)
      BY <1>0, <1>7, <2>0, <2>1 DEF InputInv, PressInv, InputType, PressChoice
    <2>5. input' = [input EXCEPT ![i] = x] BY <1>0, <1>7 DEF PressChoice
    <2> HIDE DEF x
    <2> QED BY <1>0, <1>7, <2>2, <2>3, <2>4, <2>5, OneInputKeepsIt DEF PressChoice
  <1> QED BY <1>3, <1>4, <1>5, <1>6, <1>7

\* A press is looked up, on Telegram under the position of its button.
LEMMA PressKeepsIt ==
  ASSUME ChatInv, NEW i \in Input, LookUp(i) \/ Defer(i) \/ ButtonsTaken(i)
  PROVE  ChatInv'
  <1> USE DEF At, ChatRest
  <1>0. /\ input \in [Input -> InputType] /\ input[i] \in InputType
        /\ InputInv(input[i]) /\ PressInv(input[i])
        /\ history \in Seq(Turn) /\ Whole(history)
        /\ choiceOf \in [1 .. MaxChoice -> Texted]
        /\ latest \in Input => \A n \in 1 .. MaxChoice : choiceOf[n] = Label(latest, n)
    BY DEF ChatInv, SharedInv
  <1> DEFINE j == input[i].press.of
             n == input[i].press.n
  <1>1. At(i, "ack") \/ At(i, "edit") =>
           input[i].press \in Choice /\ j \in Input /\ n \in 1 .. MaxChoice
    BY <1>0 DEF PressInv, Choice
  <1>2. CASE LookUp(i)
    <2>1. CASE Ends(i, FALSE) BY <1>2, <2>1, EndsKeepsIt DEF LookUp
    <2>2. CASE input' = [input EXCEPT ![i].at = "edit",
                                      ![i].text = choiceOf[Key(input[i].press.n)]]
      <3> DEFINE x == [input[i] EXCEPT !.at = "edit", !.text = choiceOf[n]]
      <3>1. choiceOf[n] \in Texted BY <1>0, <1>1, <1>2 DEF LookUp
      <3>2. x \in InputType BY <1>0, <3>1 DEF InputType, Phases
      <3>3. InputInv(x) BY <1>0, <1>2 DEF InputInv, InputType, LookUp
      <3>4. latest \in Input =>
               choiceOf[n] = input[i].press \/ latest # j
        BY <1>0, <1>1, <1>2 DEF LookUp, Label, Choice
      <3>5. PressInv(x)
        BY <1>0, <1>1, <1>2, <3>4 DEF PressInv, InputType, LookUp
      <3>6. input' = [input EXCEPT ![i] = x] BY <1>0, <2>2 DEF Key
      <3> HIDE DEF x
      <3> QED BY <1>0, <1>2, <3>2, <3>3, <3>5, <3>6, OneInputKeepsIt DEF LookUp
    <2> QED BY <1>2, <2>1, <2>2 DEF LookUp
  <1>3. CASE Defer(i)
    <2> DEFINE x == [input[i] EXCEPT !.at = "edit", !.text = input[i].press]
    <2>1. x \in InputType BY <1>0 DEF InputType, Phases
    <2>2. InputInv(x) BY <1>0, <1>3 DEF InputInv, InputType, Defer
    <2>3. PressInv(x) BY <1>0, <1>3 DEF PressInv, InputType, Defer
    <2>4. input' = [input EXCEPT ![i] = x] BY <1>0, <1>3 DEF Defer
    <2> HIDE DEF x
    <2> QED BY <1>0, <1>3, <2>1, <2>2, <2>3, <2>4, OneInputKeepsIt DEF Defer
  <1>4. CASE ButtonsTaken(i)
    <2>1. CASE Ends(i, FALSE) BY <1>4, <2>1, EndsKeepsIt DEF ButtonsTaken
    <2> DEFINE x == [input[i] EXCEPT !.at = "echo"]
               y == [input[j] EXCEPT !.buttons = FALSE]
    <2>2. x \in InputType BY <1>0 DEF InputType, Phases
    <2>3. InputInv(x) BY <1>0, <1>4 DEF InputInv, InputType, ButtonsTaken
    <2>4. PressInv(x) BY <1>0, <1>4 DEF PressInv, InputType, ButtonsTaken
    <2>5. CASE Goes(i, "echo")
      <3>1. input' = [input EXCEPT ![i] = x] BY <1>0, <2>5 DEF Goes
      <3> HIDE DEF x
      <3> QED BY <1>0, <1>4, <2>2, <2>3, <2>4, <3>1, OneInputKeepsIt DEF ButtonsTaken
    <2>6. CASE input' = [input EXCEPT ![i].at = "echo", ![input[i].press.of].buttons = FALSE]
      <3>1. j \in Input /\ input[j] \in InputType /\ InputInv(input[j]) /\ PressInv(input[j])
        BY <1>0, <1>1, <1>4 DEF ButtonsTaken, ChatInv
      <3>2. input[j].at \in Shows /\ j # i
        <4>1. input[i].press # NoText
          BY <1>1, <1>4, ChoiceIsText DEF ButtonsTaken
        <4> QED BY <1>0, <1>4, <4>1 DEF ButtonsTaken, PressInv
      <3>3. y \in InputType BY <3>1 DEF InputType
      <3>4. InputInv(y) /\ PressInv(y)
        BY <3>1, <3>2 DEF InputInv, PressInv, InputType
      <3>5. input' = [[input EXCEPT ![i] = x] EXCEPT ![j] = y]
        BY <1>0, <2>6, <3>1, <3>2
      <3>6. input' \in [Input -> InputType] BY <1>0, <2>2, <3>3, <3>5
      <3>7. \A k \in Input :
               input'[k] = IF k = j THEN y ELSE IF k = i THEN x ELSE input[k]
        BY <1>0, <3>1, <3>5
      <3>8. \A k \in Input : input[k].at \in Shows => input'[k].at \in Shows
        BY <3>1, <3>2, <3>7, <1>4 DEF ButtonsTaken, InputType
      <3>9. \A k \in Input : InputInv(input'[k]) /\ PressInv(input'[k])
        BY <2>3, <2>4, <3>4, <3>7 DEF ChatInv
      <3> HIDE DEF x, y
      <3> QED BY <1>0, <1>4, <3>6, <3>8, <3>9, InputsKeepIt DEF ButtonsTaken
    <2> QED BY <1>4, <2>1, <2>5, <2>6 DEF ButtonsTaken
  <1> QED BY <1>2, <1>3, <1>4

\* The run, and the approvals that it waits for.
LEMMA RunKeepsIt ==
  ASSUME ChatInv, NEW i \in Input,
         \/ StatusSent(i) \/ StreamEnds(i) \/ RunReturns(i) \/ RunRaises(i)
         \/ MentionReturns(i) \/ ChoiceReturns(i) \/ TypingFails(i)
         \/ \E r \in Request : AskApproval(i, r)
  PROVE  ChatInv'
  <1> USE DEF At, ChatRest
  <1>0. /\ input \in [Input -> InputType] /\ input[i] \in InputType
        /\ InputInv(input[i]) /\ PressInv(input[i])
        /\ history \in Seq(Turn) /\ Whole(history)
        /\ platform \in {"telegram", "discord"}
        /\ <<>> \in Seq(Turn) /\ Turns(<<>>)
    BY NewInputType DEF ChatInv, SharedInv, NewInput
  <1>1. ASSUME NEW x \in InputType, input' = [input EXCEPT ![i] = x],
               input[i].at \in {"status", "stream", "local", "close", "render"},
               x.at \in {"stream", "local", "close", "send", "sorry"},
               x.at \in {"stream", "close"} => platform = "telegram",
               x.text = input[i].text, x.press = input[i].press,
               x.snap \in {input[i].snap, <<>>}, x.buttons = input[i].buttons,
               x.offers = input[i].offers \/ platform = "discord",
               history' = history \/ history' = WithTurn(history, i),
               ChatRest, UNCHANGED <<choiceOf, latest>>
        PROVE  ChatInv'
    <2>1. InputInv(x) BY <1>0, <1>1 DEF InputInv
    <2>2. history' \in Seq(Turn) /\ Whole(history') BY <1>0, <1>1, TurnIsAdded
    <2>3. /\ input[i].at \notin Shows /\ ~At(i, "idle") /\ ~At(i, "file") /\ ~At(i, "ack")
          /\ x.at \notin {"idle", "file", "ack", "edit"}
      BY <1>1
    <2> QED BY <1>1, <2>1, <2>2, <2>3, RunStepKeepsIt
  <1>2. CASE StatusSent(i)
    <2>1. CASE Goes(i, "stream")
      <3> DEFINE x == [input[i] EXCEPT !.at = "stream"]
      <3>1. /\ x \in InputType /\ input' = [input EXCEPT ![i] = x]
            /\ platform = "telegram"
        BY <1>0, <1>2, <2>1 DEF InputType, Phases, Goes, StatusSent, InputInv
      <3>2. /\ x.at = "stream" /\ x.text = input[i].text /\ x.press = input[i].press
            /\ x.snap = input[i].snap /\ x.buttons = input[i].buttons
            /\ x.offers = input[i].offers
        BY <1>0 DEF InputType
      <3> HIDE DEF x
      <3> QED BY <1>1, <1>2, <3>1, <3>2 DEF StatusSent
    <2>2. CASE input' = [input EXCEPT ![i].at = "local", ![i].retried = TRUE]
      <3> DEFINE x == [input[i] EXCEPT !.at = "local", !.retried = TRUE]
      <3>1. x \in InputType /\ input' = [input EXCEPT ![i] = x]
        BY <1>0, <2>2 DEF InputType, Phases
      <3>2. /\ x.at = "local" /\ x.text = input[i].text /\ x.press = input[i].press
            /\ x.snap = input[i].snap /\ x.buttons = input[i].buttons
            /\ x.offers = input[i].offers
        BY <1>0 DEF InputType
      <3> HIDE DEF x
      <3> QED BY <1>1, <1>2, <3>1, <3>2 DEF StatusSent
    <2> QED BY <1>2, <2>1, <2>2 DEF StatusSent
  <1>3. CASE StreamEnds(i)
    <2>1. PICK y \in {[input[i] EXCEPT !.at = "close", !.typing = FALSE],
                      [input[i] EXCEPT !.at = "local"],
                      [input[i] EXCEPT !.at = "local", !.retried = TRUE]} :
                 input' = [input EXCEPT ![i] = y]
      BY <1>0, <1>3 DEF StreamEnds, CancelTyping, InputType
    <2>2. y \in InputType /\ platform = "telegram"
      BY <1>0, <1>3, <2>1 DEF InputType, Phases, StreamEnds, InputInv
    <2>3. /\ y.at \in {"close", "local"} /\ y.text = input[i].text
          /\ y.press = input[i].press /\ y.snap = input[i].snap
          /\ y.buttons = input[i].buttons /\ y.offers = input[i].offers
      BY <1>0, <2>1 DEF InputType
    <2> QED BY <1>1, <1>3, <2>1, <2>2, <2>3 DEF StreamEnds
  <1>4. CASE RunReturns(i)
    <2> DEFINE x == [RunOver(i, "close") EXCEPT !.typing = CancelTyping(i)]
    <2>1. x \in InputType /\ input' = [input EXCEPT ![i] = x]
      BY <1>0, <1>4 DEF InputType, Phases, RunReturns, RunOver, CancelTyping
    <2>2. /\ x.at = "close" /\ x.text = input[i].text /\ x.press = input[i].press
          /\ x.snap = <<>> /\ x.buttons = input[i].buttons /\ x.offers = input[i].offers
      BY <1>0 DEF InputType, RunOver
    <2> HIDE DEF x
    <2> QED BY <1>1, <1>4, <2>1, <2>2 DEF RunReturns
  <1>5. CASE RunRaises(i)
    <2> DEFINE Same(y) == /\ y \in InputType /\ y.text = input[i].text
                          /\ y.press = input[i].press /\ y.snap \in {input[i].snap, <<>>}
                          /\ y.buttons = input[i].buttons /\ y.offers = input[i].offers
               z1 == [RunOver(i, "sorry") EXCEPT !.waits = {}]
               z2 == [input[i] EXCEPT !.retried = TRUE, !.waits = {}]
               z3 == [RunOver(i, "close") EXCEPT !.waits = {}, !.broken = TRUE, !.typing = FALSE]
    <2>1. Same(z1) /\ z1.at = "sorry" BY <1>0 DEF InputType, Phases, RunOver
    <2>2. Same(z2) /\ z2.at = "local" BY <1>0, <1>5 DEF InputType, RunRaises, At
    <2>3. Same(z3) /\ z3.at = "close" BY <1>0 DEF InputType, Phases, RunOver
    <2>4. \/ input' = [input EXCEPT ![i] = z1]
          \/ input' = [input EXCEPT ![i] = z2]
          \/ input' = [input EXCEPT ![i] = z3] /\ platform = "telegram"
      BY <1>0, <1>5 DEF RunRaises, CancelTyping
    <2> HIDE DEF z1, z2, z3
    <2>5. PICK y : /\ Same(y) /\ input' = [input EXCEPT ![i] = y]
                   /\ y.at \in {"close", "local", "sorry"}
                   /\ y.at = "close" => platform = "telegram"
      BY <2>1, <2>2, <2>3, <2>4
    <2>6. /\ input[i].at = "local" /\ y.at \in {"stream", "local", "close", "send", "sorry"}
          /\ y.at \in {"stream", "close"} => platform = "telegram"
          /\ y.snap \in {input[i].snap, <<>>}
          /\ y.offers = input[i].offers \/ platform = "discord"
          /\ y \in InputType /\ y.text = input[i].text /\ y.press = input[i].press
          /\ y.buttons = input[i].buttons /\ input' = [input EXCEPT ![i] = y]
      BY <1>5, <2>5 DEF RunRaises
    <2>7. UNCHANGED <<platform, history, choiceOf, latest>> BY <1>5 DEF RunRaises
    <2> HIDE DEF Same
    <2>8. InputInv(y) BY <1>0, <2>6 DEF InputInv
    <2>9. /\ input[i].at \notin Shows /\ ~At(i, "idle") /\ ~At(i, "file") /\ ~At(i, "ack")
          /\ y.at \notin {"idle", "file", "ack", "edit"}
      BY <2>6
    <2>10. history' \in Seq(Turn) /\ Whole(history') BY <1>0, <2>7
    <2>11. y \in InputType /\ y.text = input[i].text /\ y.press = input[i].press
      BY <2>6
    <2>12. input' = [input EXCEPT ![i] = y] BY <2>6
    <2> QED BY <2>7, <2>8, <2>9, <2>10, <2>11, <2>12, RunStepKeepsIt
  <1>6. CASE MentionReturns(i)
    <2>1. PICK offers \in BOOLEAN :
             input' = [input EXCEPT ![i] = [RunOver(i, "send") EXCEPT !.offers = offers]]
      BY <1>6 DEF MentionReturns
    <2> DEFINE x == [RunOver(i, "send") EXCEPT !.offers = offers]
    <2>2. x \in InputType BY <1>0 DEF InputType, Phases, RunOver
    <2>3. /\ x.at = "send" /\ x.text = input[i].text /\ x.press = input[i].press
          /\ x.snap = <<>> /\ x.buttons = input[i].buttons
      BY <1>0 DEF InputType, RunOver
    <2>4. input' = [input EXCEPT ![i] = x] BY <2>1
    <2> HIDE DEF x
    <2> QED BY <1>1, <1>6, <2>2, <2>3, <2>4 DEF MentionReturns
  <1>7. CASE ChoiceReturns(i)
    <2> DEFINE x == RunOver(i, "send")
    <2>1. x \in InputType /\ input' = [input EXCEPT ![i] = x]
      BY <1>0, <1>7 DEF InputType, Phases, ChoiceReturns, RunOver
    <2>2. /\ x.at = "send" /\ x.text = input[i].text /\ x.press = input[i].press
          /\ x.snap = <<>> /\ x.buttons = input[i].buttons /\ x.offers = input[i].offers
      BY <1>0 DEF InputType, RunOver
    <2> HIDE DEF x
    <2> QED BY <1>1, <1>7, <2>1, <2>2 DEF ChoiceReturns
  <1>8. CASE TypingFails(i)
    <2> DEFINE x == [input[i] EXCEPT !.typing = FALSE]
    <2>1. x \in InputType /\ input' = [input EXCEPT ![i] = x] /\ x.at = input[i].at
      BY <1>0, <1>8 DEF InputType, TypingFails
    <2>2. InputInv(x) /\ PressInv(x) BY <1>0 DEF InputInv, PressInv, InputType
    <2> HIDE DEF x
    <2> QED BY <1>0, <1>8, <2>1, <2>2, OneInputKeepsIt DEF TypingFails
  <1>9. ASSUME NEW r \in Request, AskApproval(i, r) PROVE ChatInv'
    <2> DEFINE x == [input[i] EXCEPT !.waits = @ \cup {r}]
    <2>1. x \in InputType /\ input' = [input EXCEPT ![i] = x] /\ x.at = input[i].at
      BY <1>0, <1>9 DEF InputType, AskApproval
    <2>2. InputInv(x) /\ PressInv(x) BY <1>0 DEF InputInv, PressInv, InputType
    <2> HIDE DEF x
    <2> QED BY <1>0, <1>9, <2>1, <2>2, OneInputKeepsIt DEF AskApproval
  <1> QED BY <1>2, <1>3, <1>4, <1>5, <1>6, <1>7, <1>8, <1>9

\* The answer; when its choices take the keys, they take them from every press that is still
\* under way, none of which can be of this answer, which was not sent yet.
LEMMA AnswerKeepsIt ==
  ASSUME ChatInv, NEW i \in Input,
         GroupEnds(i) \/ Rendered(i) \/ Sent(i) \/ SendFails(i) \/ ErrorSent(i)
  PROVE  ChatInv'
  <1> USE DEF At, ChatRest
  <1>0. /\ input \in [Input -> InputType] /\ input[i] \in InputType
        /\ InputInv(input[i]) /\ PressInv(input[i])
        /\ history \in Seq(Turn) /\ Whole(history)
    BY DEF ChatInv, SharedInv
  <1>1. ASSUME NEW phase \in {"render", "send", "sorry"}, Goes(i, phase),
               input[i].at \in {"close", "render", "send"},
               phase = "render" => platform = "telegram",
               history' = history \/ history' = WithTurn(history, i),
               ChatRest, UNCHANGED <<choiceOf, latest>>
        PROVE  ChatInv'
    <2> DEFINE x == [input[i] EXCEPT !.at = phase]
    <2>1. x \in InputType /\ input' = [input EXCEPT ![i] = x]
      BY <1>0, <1>1 DEF InputType, Phases, Goes
    <2>2. x.at = phase /\ x.text = input[i].text /\ x.press = input[i].press
      BY <1>0 DEF InputType
    <2>3. InputInv(x) BY <1>0, <1>1 DEF InputInv, InputType
    <2>4. history' \in Seq(Turn) /\ Whole(history') BY <1>0, <1>1, TurnIsAdded
    <2> HIDE DEF x
    <2> QED BY <1>1, <2>1, <2>2, <2>3, <2>4, RunStepKeepsIt
  <1>2. CASE GroupEnds(i)
    BY <1>0, <1>1, <1>2 DEF GroupEnds, InputInv
  <1>4. CASE Sent(i)
    <2>1. PICK shown \in {FALSE, input[i].offers} : Ends(i, shown) BY <1>4 DEF Sent
    <2>2. shown \in BOOLEAN /\ (shown => input[i].offers) BY <1>0 DEF InputType
    <2> QED BY <1>4, <2>1, <2>2, EndsKeepsIt DEF Sent
  <1>5. CASE Rendered(i)
    <2>1. CASE Goes(i, "send") /\ UNCHANGED <<choiceOf, latest>>
      BY <1>1, <1>5, <2>1 DEF Rendered
    <2>2. CASE ~UNCHANGED <<choiceOf, latest>> \/ ~Goes(i, "send")
      <3>1. /\ choiceOf' = [k \in 1 .. MaxChoice |->
                  IF \E n \in 1 .. MaxChoice : Key(n) = k
                    THEN Label(i, CHOOSE n \in 1 .. MaxChoice :
                                    Key(n) = k /\ \A m \in n+1 .. MaxChoice : Key(m) # k)
                    ELSE choiceOf[k]]
            /\ input' = [input EXCEPT ![i].at = "send", ![i].offers = TRUE]
            /\ latest' = i /\ history' = history /\ platform' = platform
        BY <1>5, <2>2 DEF Rendered
      <3>2. At(i, "render") /\ platform = "telegram" BY <1>0, <1>5 DEF Rendered, InputInv
      <3>3. choiceOf' = [k \in 1 .. MaxChoice |-> Label(i, k)]
        <4>1. \A k \in 1 .. MaxChoice : \A m \in k+1 .. MaxChoice : Key(m) # k
          BY ChatAssumption DEF Key
        <4>2. \A k \in 1 .. MaxChoice :
                 (CHOOSE n \in 1 .. MaxChoice :
                    Key(n) = k /\ \A m \in n+1 .. MaxChoice : Key(m) # k) = k
          BY <4>1 DEF Key
        <4> QED BY <3>1, <4>2 DEF Key
      <3> DEFINE x == [input[i] EXCEPT !.at = "send", !.offers = TRUE]
      <3>4. x \in InputType /\ input' = [input EXCEPT ![i] = x]
        BY <1>0, <3>1 DEF InputType, Phases
      <3>5. input' \in [Input -> InputType] BY <1>0, <3>4
      <3>6. \A k \in Input : input'[k] = IF k = i THEN x ELSE input[k] BY <1>0, <3>4
      <3>7. SharedInv'
        <4>1. \A k \in 1 .. MaxChoice : Label(i, k) \in Texted
          BY ChatAssumption DEF Label, Texted, Choice
        <4>2. choiceOf' \in [1 .. MaxChoice -> Texted] BY <3>3, <4>1
        <4>3. \A k \in 1 .. MaxChoice : choiceOf'[k] = Label(latest', k)
          <5>1. latest' = i BY <3>1
          <5>2. \A k \in 1 .. MaxChoice : choiceOf'[k] = Label(i, k) BY <3>3
          <5> QED BY <5>1, <5>2
        <4> QED BY <1>0, <3>1, <3>5, <4>2, <4>3 DEF SharedInv, ChatInv
      <3>8. ASSUME NEW k \in Input PROVE InputInv(input[k])' /\ PressInv(input[k])'
        <4>0. InputInv(input[k]) /\ PressInv(input[k]) /\ input[k] \in InputType
          BY <1>0 DEF ChatInv
        <4>1. /\ input'[k].snap = input[k].snap /\ input'[k].buttons = input[k].buttons
              /\ input'[k].text = input[k].text /\ input'[k].press = input[k].press
              /\ input'[k].at = IF k = i THEN "send" ELSE input[k].at
          <5>1. k = i => input'[k] = x BY <3>6
          <5>2. k # i => input'[k] = input[k] BY <3>6
          <5>3. /\ x.snap = input[i].snap /\ x.buttons = input[i].buttons
                /\ x.text = input[i].text /\ x.press = input[i].press /\ x.at = "send"
            BY <1>0 DEF InputType
          <5> HIDE DEF x
          <5> QED BY <5>1, <5>2, <5>3
        <4>2. InputInv(input[k])' BY <3>1, <3>2, <4>0, <4>1 DEF InputInv
        <4>3. ASSUME input[k].press # NoText
              PROVE  /\ input[k].press \in Choice /\ input[k].press.of # i
                     /\ input'[input[k].press.of].at \in Shows
          <5>1. input[k].press \in Choice /\ input[k].press.of \in Input
                /\ input[input[k].press.of].at \in Shows
            BY <4>0, <4>3 DEF PressInv, Choice
          <5>2. input[k].press.of # i BY <5>1, <3>2
          <5> QED BY <5>1, <5>2, <3>6
        <4>4. PressInv(input[k])'
          BY <3>1, <3>2, <4>0, <4>1, <4>3 DEF PressInv
        <4> QED BY <4>2, <4>4
      <3> QED BY <3>7, <3>8 DEF ChatInv
    <2> QED BY <2>1, <2>2
  <1>6. CASE ErrorSent(i)
    BY <1>0, <1>6, EndsKeepsIt DEF ErrorSent, InputType
  <1>7. CASE SendFails(i)
    <2> PICK shown \in {FALSE, platform = "telegram" /\ input[i].offers} :
                input' = [input EXCEPT ![i].at = "sorry", ![i].buttons = shown]
      BY <1>7 DEF SendFails
    <2> DEFINE x == [input[i] EXCEPT !.at = "sorry", !.buttons = shown]
    <2>1. x \in InputType BY <1>0 DEF InputType, Phases
    <2>2. x.at = "sorry" /\ x.text = input[i].text /\ x.press = input[i].press
      BY <1>0 DEF InputType
    <2>3. InputInv(x) BY <1>0, <1>7 DEF InputInv, InputType, SendFails
    <2>4. input' = [input EXCEPT ![i] = x] BY <1>0
    <2> HIDE DEF x
    <2> QED BY <1>0, <1>7, <2>1, <2>2, <2>3, <2>4, RunStepKeepsIt DEF SendFails
  <1> QED BY <1>2, <1>4, <1>5, <1>6, <1>7

\* An approval lets the run that waits for it go on.
LEMMA ApprovedKeepsIt ==
  ASSUME ChatInv, NEW r \in Request, Approved(r) PROVE ChatInv'
  <1>0. input \in [Input -> InputType] /\ history \in Seq(Turn) /\ Whole(history)
    BY DEF ChatInv, SharedInv
  <1>1. input' = [k \in Input |-> [input[k] EXCEPT !.waits = @ \ {r}]] BY DEF Approved
  <1>2. input' \in [Input -> InputType]
    <2>1. ASSUME NEW k \in Input PROVE [input[k] EXCEPT !.waits = @ \ {r}] \in InputType
      <3>1. input[k] \in InputType BY <1>0
      <3> QED BY <3>1 DEF InputType
    <2> QED BY <1>1, <2>1
  <1>3. \A k \in Input :
           /\ input'[k].snap = input[k].snap /\ input'[k].buttons = input[k].buttons
           /\ input'[k].text = input[k].text /\ input'[k].press = input[k].press
           /\ input'[k].at = input[k].at /\ input'[k].offers = input[k].offers
    <2> TAKE k \in Input
    <2>1. input[k] \in InputType BY <1>0
    <2> QED BY <1>1, <2>1 DEF InputType
  <1>4. \A k \in Input : input[k].at \in Shows => input'[k].at \in Shows BY <1>3 DEF At
  <1>5. \A k \in Input : InputInv(input'[k]) /\ PressInv(input'[k])
    BY <1>3 DEF ChatInv, InputInv, PressInv
  <1> QED BY <1>0, <1>2, <1>4, <1>5, InputsKeepIt DEF Approved

\* Every step is one of an input, or of the approvals, which leave the chat alone.
LEMMA ChatStep == ChatInv /\ [ChatNext]_chatVars => ChatInv'
  <1> SUFFICES ASSUME ChatInv, [ChatNext]_chatVars PROVE ChatInv' OBVIOUS
  <1>1. ASSUME NEW i \in Input, Handle(i) \/ TypingFails(i)
                                \/ \E r \in Request : AskApproval(i, r)
        PROVE  ChatInv'
    BY <1>1, ArrivalKeepsIt, PressKeepsIt, RunKeepsIt, AnswerKeepsIt DEF Handle
  <1>2. ASSUME NEW i \in Texts, Receive(i) \/ Mentioned(i) PROVE ChatInv'
    BY <1>2, ArrivalKeepsIt DEF Input
  <1>3. ASSUME NEW i \in Pick, NEW j \in Input, NEW n \in 1 .. MaxChoice, PressChoice(i, j, n)
        PROVE  ChatInv'
    BY <1>3, ArrivalKeepsIt DEF Input
  <1>4. ASSUME NEW r \in Request, Approved(r) PROVE ChatInv' BY <1>4, ApprovedKeepsIt
  <1>5. CASE UNCHANGED <<platform, chat>>
    <2>1. UNCHANGED <<platform, input, history, choiceOf, latest>> BY <1>5 DEF chat
    <2>2. SharedInv' BY <2>1 DEF ChatInv, SharedInv
    <2>3. \A i \in Input : InputInv(input[i])' /\ PressInv(input[i])'
      BY <2>1 DEF ChatInv, InputInv, PressInv, At
    <2> QED BY <2>2, <2>3 DEF ChatInv
  <1>6. CASE UNCHANGED chatVars BY <1>5, <1>6 DEF chatVars
  <1> QED BY <1>1, <1>2, <1>3, <1>4, <1>5, <1>6 DEF ChatNext

\* Inputs of one user that overlap never mix their turns, however many there are and wherever
\* the old messages are cut off (telegram_adapter.py:311-317, 449-450, discord_adapter.py).
THEOREM ConversationIsTurns == ChatSpec => []HistoryIsTurns
  <1>1. ChatInv => HistoryIsTurns
    BY DEF ChatInv, SharedInv, InputInv, Whole, HistoryIsTurns
  <1> QED BY <1>1, ChatInitially, ChatStep, PTL DEF ChatSpec

\* A press means the choice its button shows until another answer takes over the keys
\* (telegram_adapter.py:572, 662; discord_adapter.py:104).
THEOREM PressesMeanTheirLabels == ChatSpec => []PressMeansLabel
  <1>1. ChatInv => PressMeansLabel
    BY DEF ChatInv, PressInv, PressMeansLabel
  <1> QED BY <1>1, ChatInitially, ChatStep, PTL DEF ChatSpec

\* The adapters use the approvals as the manager offers them: every step of the chat is a step
\* of HitlApproval or leaves it alone.
LEMMA ChatStepsAreApprovalSteps == [ChatNext]_chatVars => [Next]_vars
  <1> USE DEF ChatRest
  <1>1. ASSUME NEW i \in Input, Handle(i), ~RunRaises(i) PROVE UNCHANGED vars
    BY <1>1 DEF Handle, FileHandled, LookUp, Defer, ButtonsTaken, Echoed, StatusSent,
       StreamEnds, RunReturns, MentionReturns, ChoiceReturns, GroupEnds, Rendered,
       Sent, SendFails, ErrorSent
  <1>2. ASSUME NEW i \in Input, TypingFails(i) \/ Receive(i) \/ Mentioned(i)
               \/ \E j \in Input, n \in 1 .. MaxChoice : PressChoice(i, j, n)
        PROVE  UNCHANGED vars
    BY <1>2 DEF TypingFails, Receive, Mentioned, PressChoice
  <1>3. ASSUME NEW i \in Input, NEW r \in Request, AskApproval(i, r) PROVE Next
    BY <1>3 DEF AskApproval, Next
  <1>4. ASSUME NEW r \in Request, Approved(r) \/ Notify(r) PROVE Next
    BY <1>4 DEF Approved, Next
  <1>5. ASSUME NEW p \in Press, \/ AnswerFails(p) \/ Resolve(p)
                                \/ \E r \in Request, yes \in BOOLEAN : PressButton(p, r, yes)
        PROVE  Next
    BY <1>5 DEF Next
  <1>6. ASSUME NEW i \in Input, RunRaises(i) PROVE [Next]_vars
    <2> DEFINE calls == input[i].waits \cap Request
    <2>1. Cancel(input[i].waits) BY <1>6 DEF RunRaises
    <2>2. Cancel(calls) /\ calls \in SUBSET Request BY <2>1 DEF Cancel
    <2> HIDE DEF calls
    <2> QED BY <2>2 DEF Next
  <1>7. UNCHANGED chatVars => UNCHANGED vars BY DEF chatVars
  <1> QED BY <1>1, <1>2, <1>3, <1>4, <1>5, <1>6, <1>7 DEF ChatNext, Input

\* A high-risk call is carried out exactly when the last button that the manager accepted said
\* so, whatever else goes on in the chat (hitl.py:61-83, base.py:95, telegram_adapter.py:640).
THEOREM CarriedOutOnTheLastWord == ChatSpec => []OutcomeIsLastWord
  <1>1. HitlInv => OutcomeIsLastWord
    BY DEF HitlInv, OutcomeIsLastWord, Spoken, Over, TypeOK
  <1>2. ChatInit => HitlInv BY HitlInitially DEF ChatInit
  <1>3. HitlInv /\ [ChatNext]_chatVars => HitlInv' BY HitlStep, ChatStepsAreApprovalSteps
  <1> QED BY <1>1, <1>2, <1>3, PTL DEF ChatSpec

==============================================================================
