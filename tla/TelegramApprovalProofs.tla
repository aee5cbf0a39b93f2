----------------------- MODULE TelegramApprovalProofs -----------------------
(***************************************************************************)
(* Theorems about TelegramApproval, for any number of handlers, buttons,   *)
(* calls and UserOperations: a button is worth one approval, and an        *)
(* approval one execution.                                                 *)
(***************************************************************************)
EXTENDS TelegramApproval, CollectionTheorems

\* The types the arguments use.
PlaceTypes ==
    /\ StoreTypeOK
    /\ chat \in Chats \cup {NoChat} /\ messageChat \in [Calls -> Chats \cup {NoChat}]
    /\ executed \subseteq UserOps /\ IsFiniteSet(executed)

ButtonTypes ==
    /\ buttons \in Seq(Button) /\ Len(buttons) <= MaxButtons
    /\ consumedNonces \subseteq liveNonces /\ liveNonces \subseteq 1 .. Len(buttons)
    /\ pc \in [Handlers -> Steps] /\ pressed \in [Handlers -> ButtonId \cup {0}]
    /\ submissions \in [ButtonId -> Nat]

\* A button an approval was submitted for is an Approve button, and its nonce is used up
\* unless a restart has forgotten it.
SubmittedOnce ==
    \A n \in ButtonId : submissions[n] # 0 =>
        /\ submissions[n] = 1
        /\ n <= Len(buttons) /\ buttons[n].action = "Approve"
        /\ n \in liveNonces => n \in consumedNonces

\* A handler about to submit holds a nonce that is used up but has not led to an approval.
HandlerHolds(h) ==
    /\ pc[h] # "idle" => pressed[h] \in 1 .. Len(buttons)
    /\ pc[h] = "verified" => pressed[h] \in liveNonces
    /\ pc[h] = "submitting" =>
          /\ pressed[h] \in consumedNonces
          /\ buttons[pressed[h]].action = "Approve"
          /\ submissions[pressed[h]] = 0

\* No two handlers submit for the same button.
SubmitAlone ==
    \A g, h \in Handlers :
        pc[g] = "submitting" /\ pc[h] = "submitting" /\ pressed[g] = pressed[h] => g = h

ButtonInv == ButtonTypes /\ SubmittedOnce /\ (\A h \in Handlers : HandlerHolds(h)) /\ SubmitAlone


-----------------------------------------------------------------------------
(* Places, the store and what is executed. *)

LEMMA Limits == MaxButtons \in Nat /\ ButtonTtl \in Nat /\ ApprovalTtl \in Nat /\ MaxTime \in Nat
BY TelegramAssumption, StoreAssumption DEF TelegramAssumption, StoreAssumption

LEMMA StartsInPlace == Init => PlaceTypes
<1> SUFFICES ASSUME Init PROVE PlaceTypes
    OBVIOUS
<1>1. Account \in Accounts /\ Agent \in Agents /\ Validator \in Hooks
    BY TelegramAssumption DEF TelegramAssumption
<1>2. StoreTypeOK
    BY <1>1, Limits DEF Init, StoreTypeOK, Approval, NoApproval
<1>3. IsFiniteSet({})
    BY FS_EmptySet
<1> QED
    BY <1>2, <1>3 DEF Init, PlaceTypes

LEMMA SubmitTyped ==
    ASSUME StoreTypeOK, NEW agent, NEW a, NEW c \in Calls, SubmitApproval(agent, a, c), now' = now
    PROVE  StoreTypeOK'
<1>1. [call |-> c, expiry |-> now + ApprovalTtl] \in Approval
    BY Limits DEF StoreTypeOK, Approval
<1> QED
    BY <1>1 DEF StoreTypeOK, SubmitApproval

LEMMA ConsumeTyped ==
    ASSUME StoreTypeOK, NEW hook, NEW a, NEW c, ConsumeApproval(hook, a, c), now' = now
    PROVE  StoreTypeOK'
<1>1. NoApproval \in Approval
    BY DEF NoApproval, Approval
<1> QED
    BY <1>1 DEF StoreTypeOK, ConsumeApproval

LEMMA TargetIsChat ==
    ASSUME PlaceTypes, NEW c \in Calls, chat # NoChat
    PROVE  TargetChat(c) \in Chats
BY DEF PlaceTypes, TargetChat

\* Whoever acts keeps the places in order.
LEMMA PlacesKept == PlaceTypes /\ ButtonInv /\ [Next]_vars => PlaceTypes'
<1> SUFFICES ASSUME PlaceTypes, ButtonInv, [Next]_vars PROVE PlaceTypes'
    OBVIOUS
<1> DEFINE Quiet == UNCHANGED <<now, storeVars, chat, messageChat, executed>>
<1>1. Quiet => PlaceTypes'
    BY DEF PlaceTypes, StoreTypeOK, storeVars
<1>2. ASSUME NEW k \in Chats \cup {NoChat}, LinkChat(k) PROVE PlaceTypes'
    BY <1>2 DEF LinkChat, PlaceTypes, StoreTypeOK, chainVars, storeVars
<1>3. ASSUME NEW c \in Calls, NotifyReview(c) \/ AskApproval(c) PROVE PlaceTypes'
    <2>1. TargetChat(c) \in Chats
        BY <1>3, TargetIsChat DEF NotifyReview, AskApproval
    <2>2. messageChat' = [messageChat EXCEPT ![c] = TargetChat(c)] /\ UNCHANGED <<chat, chainVars>>
        BY <1>3 DEF NotifyReview, AskApproval
    <2> QED
        BY <2>1, <2>2 DEF PlaceTypes, StoreTypeOK, chainVars, storeVars
<1>4. ASSUME NEW o \in UserOps, BeginUpsert(o) PROVE Quiet
    BY <1>4 DEF BeginUpsert, telegramVars, chainVars
<1>5. ASSUME NEW u, EndUpsert(u) PROVE Quiet
    BY <1>5 DEF EndUpsert, telegramVars, chainVars
<1>6. ASSUME NEW h \in Handlers,
             \/ \E n \in ButtonId : ReceiveCallback(h, n)
             \/ ConsumeOnce(h) \/ Decline(h) \/ FindPending(h)
             \/ AwaitReceipt(h) \/ MarkSubmitted(h) \/ MarkFailed(h)
      PROVE  Quiet
    <2>1. UNCHANGED chainVars
        BY <1>6 DEF ReceiveCallback, ConsumeOnce, Decline, FindPending, AwaitReceipt, MarkSubmitted,
                    MarkFailed
    <2>2. UNCHANGED <<chat, messageChat>>
        BY <1>6 DEF ReceiveCallback, ConsumeOnce, Decline, FindPending, AwaitReceipt, MarkSubmitted,
                    MarkFailed, Finish, GoTo, telegramVars
    <2> QED
        BY <2>1, <2>2 DEF chainVars
<1>7. ASSUME NEW h \in Handlers, Relay(h) PROVE Quiet
    BY <1>7 DEF Relay, GoTo, telegramVars
<1>8. ASSUME NEW h \in Handlers, Submit(h) PROVE PlaceTypes'
    <2>1. UNCHANGED <<now, chat, messageChat, executed>>
        BY <1>8 DEF Submit, GoTo, Finish, telegramVars
    <2>2. CASE UNCHANGED storeVars
        BY <2>1, <2>2, <1>1
    <2>3. CASE SubmitApproval(Agent, Account, CallAt(h))
        <3>1. buttons[pressed[h]] \in Button
            BY <1>8 DEF ButtonInv, ButtonTypes, HandlerHolds, Submit
        <3>2. CallAt(h) \in Calls
            BY <3>1 DEF CallAt, ButtonOf, Button
        <3>3. StoreTypeOK'
            BY <2>1, <2>3, <3>2, SubmitTyped DEF PlaceTypes
        <3> QED
            BY <2>1, <3>3 DEF PlaceTypes
    <2> QED
        BY <1>8, <2>2, <2>3 DEF Submit
<1>9. ASSUME NEW o \in UserOps, ExecuteUserOp(o) PROVE PlaceTypes'
    <2>1. StoreTypeOK'
        BY <1>9, ConsumeTyped DEF PlaceTypes, ExecuteUserOp
    <2>2. IsFiniteSet(executed \cup {o})
        BY FS_AddElement DEF PlaceTypes
    <2> QED
        BY <1>9, <2>1, <2>2 DEF PlaceTypes, ExecuteUserOp, telegramVars
<1>10. ASSUME NEW o \in UserOps, SendUserOp(o) \/ DropUserOp(o) PROVE Quiet
    BY <1>10 DEF SendUserOp, DropUserOp, telegramVars
<1>11. ASSUME Tick PROVE PlaceTypes'
    BY <1>11, Limits DEF Tick, PlaceTypes, StoreTypeOK, storeVars, telegramVars
<1>12. ASSUME Restart PROVE PlaceTypes'
    BY <1>12 DEF Restart, PlaceTypes, StoreTypeOK, chainVars, storeVars
<1>13. ASSUME UNCHANGED vars PROVE Quiet
    BY <1>13 DEF vars, telegramVars, chainVars
<1> QED
    BY <1>1, <1>2, <1>3, <1>4, <1>5, <1>6, <1>7, <1>8, <1>9, <1>10, <1>11, <1>12, <1>13
       DEF Next, AppStep, HandlerStep, ChainStep

-----------------------------------------------------------------------------
(* Buttons and handlers. *)

LEMMA StartsWithoutButtons == Init => ButtonInv
<1> SUFFICES ASSUME Init PROVE ButtonInv
    OBVIOUS
<1>1. ButtonTypes
    BY Limits DEF Init, ButtonTypes, Steps, ButtonId
<1>2. SubmittedOnce /\ (\A h \in Handlers : HandlerHolds(h)) /\ SubmitAlone
    BY DEF Init, SubmittedOnce, HandlerHolds, SubmitAlone
<1> QED
    BY <1>1, <1>2 DEF ButtonInv

\* A handler that moves on, or comes to rest, and is not about to submit after it.
LEMMA HandlerMoves ==
    ASSUME ButtonInv, NEW h \in Handlers, NEW step \in Steps \ {"verified", "submitting"},
           pc' = [pc EXCEPT ![h] = step],
           \/ pressed' = pressed /\ pc[h] # "idle"
           \/ pressed' = [pressed EXCEPT ![h] = 0] /\ step = "idle",
           UNCHANGED <<buttons, liveNonces, consumedNonces, submissions>>
    PROVE  ButtonInv'
<1>1. ButtonTypes'
    BY DEF ButtonInv, ButtonTypes
<1>2. SubmittedOnce'
    BY DEF ButtonInv, SubmittedOnce
<1>3. ASSUME NEW g \in Handlers
      PROVE  /\ pc'[g] \in {"verified", "submitting"} => pc'[g] = pc[g] /\ pressed'[g] = pressed[g]
             /\ pc'[g] # "idle" => pc[g] # "idle" /\ pressed'[g] = pressed[g]
    BY DEF ButtonInv, ButtonTypes
<1>4. ASSUME NEW g \in Handlers PROVE HandlerHolds(g)'
    BY <1>3 DEF ButtonInv, HandlerHolds
<1>5. SubmitAlone'
    BY <1>3 DEF ButtonInv, SubmitAlone
<1> QED
    BY <1>1, <1>2, <1>4, <1>5 DEF ButtonInv

LEMMA HandlersRest ==
    ASSUME ButtonInv, UNCHANGED <<handlerVars, buttons, liveNonces, consumedNonces, submissions>>
    PROVE  ButtonInv'
BY DEF ButtonInv, ButtonTypes, SubmittedOnce, HandlerHolds, SubmitAlone, handlerVars

\* New buttons leave the old ones as they are.
LEMMA ButtonsAdded ==
    ASSUME PlaceTypes, ButtonInv, NEW c \in Calls, AskApproval(c)
    PROVE  ButtonInv' /\ Len(buttons') = Len(buttons) + 2
           /\ \A i \in 1 .. Len(buttons) : buttons'[i] = buttons[i]
<1> DEFINE n == Len(buttons)
           New(action) == [action |-> action, call |-> c, chat |-> chat,
                           shownIn |-> TargetChat(c), expiresAt |-> now + ButtonTtl]
<1>1. /\ chat # NoChat /\ n + 2 <= MaxButtons
      /\ buttons' = Append(Append(buttons, New("Approve")), New("Decline"))
      /\ liveNonces' = liveNonces \cup {n + 1, n + 2}
      /\ UNCHANGED <<consumedNonces, handlerVars, submissions>>
    BY DEF AskApproval
<1>2. TargetChat(c) \in Chats /\ chat \in Chats /\ now + ButtonTtl \in Nat
    BY <1>1, TargetIsChat, Limits DEF PlaceTypes, StoreTypeOK
<1>3. New("Approve") \in Button /\ New("Decline") \in Button
    BY <1>2 DEF Button
<1>4. buttons \in Seq(Button) /\ n \in Nat
    BY DEF ButtonInv, ButtonTypes
<1> HIDE DEF New
<1>5. /\ buttons' \in Seq(Button) /\ Len(buttons') = n + 2
      /\ \A i \in 1 .. n : buttons'[i] = buttons[i]
    BY <1>1, <1>3, <1>4
<1>6. ButtonTypes'
    <2>1. consumedNonces \subseteq liveNonces /\ liveNonces \subseteq 1 .. n
        BY DEF ButtonInv, ButtonTypes
    <2>2. 1 .. n \subseteq 1 .. (n + 2) /\ {n + 1, n + 2} \subseteq 1 .. (n + 2)
        BY <1>4
    <2>3. consumedNonces' \subseteq liveNonces' /\ liveNonces' \subseteq 1 .. Len(buttons')
        BY <1>1, <1>5, <2>1, <2>2
    <2> QED
        BY <1>1, <1>5, <2>3 DEF ButtonInv, ButtonTypes, handlerVars
<1>7. SubmittedOnce'
    BY <1>1, <1>4, <1>5 DEF ButtonInv, SubmittedOnce, ButtonId
<1>8. ASSUME NEW h \in Handlers PROVE HandlerHolds(h)'
    BY <1>1, <1>4, <1>5 DEF ButtonInv, ButtonTypes, HandlerHolds, handlerVars
<1>9. SubmitAlone'
    BY <1>1 DEF ButtonInv, SubmitAlone, handlerVars
<1> QED
    BY <1>5, <1>6, <1>7, <1>8, <1>9 DEF ButtonInv

LEMMA CallbackKeepsButtons ==
    ASSUME ButtonInv, NEW h \in Handlers, NEW n \in ButtonId, ReceiveCallback(h, n)
    PROVE  ButtonInv'
<1>1. /\ n \in liveNonces /\ pc' = [pc EXCEPT ![h] = "verified"]
      /\ pressed' = [pressed EXCEPT ![h] = n]
      /\ UNCHANGED <<buttons, liveNonces, consumedNonces, submissions>>
    BY DEF ReceiveCallback, telegramVars
<1>2. ButtonTypes'
    BY <1>1 DEF ButtonInv, ButtonTypes, Steps
<1>3. SubmittedOnce'
    BY <1>1 DEF ButtonInv, SubmittedOnce
<1>4. ASSUME NEW g \in Handlers PROVE HandlerHolds(g)'
    BY <1>1 DEF ButtonInv, ButtonTypes, HandlerHolds
<1>5. SubmitAlone'
    BY <1>1 DEF ButtonInv, ButtonTypes, SubmitAlone
<1> QED
    BY <1>2, <1>3, <1>4, <1>5 DEF ButtonInv

\* The nonce that is used up was not, so nobody has submitted or is about to submit for it.
LEMMA ConsumeKeepsButtons ==
    ASSUME ButtonInv, NEW h \in Handlers, ConsumeOnce(h)
    PROVE  ButtonInv'
<1> DEFINE n == pressed[h]
           step == IF buttons[n].action = "Approve" THEN "submitting" ELSE "declining"
<1>1. /\ pc[h] = "verified" /\ n \in 1 .. Len(buttons) /\ n \in liveNonces
      /\ UNCHANGED <<buttons, liveNonces, submissions>>
    BY DEF ConsumeOnce, ButtonInv, HandlerHolds, Finish, telegramVars
<1>2. CASE UNCHANGED consumedNonces /\ Rest(h)
    <2>1. "idle" \in Steps \ {"verified", "submitting"}
        BY DEF Steps
    <2> QED
        BY <1>1, <1>2, <2>1, HandlerMoves DEF Rest
<1>3. CASE /\ n \notin consumedNonces /\ consumedNonces' = consumedNonces \cup {n}
           /\ pc' = [pc EXCEPT ![h] = step] /\ UNCHANGED pressed
    <2>1. step \in Steps
        BY DEF Steps
    <2>2. n \in ButtonId
        BY <1>1, Limits DEF ButtonInv, ButtonTypes, ButtonId
    <2>3. ButtonTypes'
        BY <1>1, <1>3, <2>1 DEF ButtonInv, ButtonTypes
    <2>4. SubmittedOnce'
        BY <1>1, <1>3 DEF ButtonInv, SubmittedOnce
    <2>5. submissions[n] = 0
        BY <1>1, <1>3, <2>2 DEF ButtonInv, SubmittedOnce
    <2>6. ASSUME NEW g \in Handlers
          PROVE  pc'[g] = (IF g = h THEN step ELSE pc[g]) /\ pressed'[g] = pressed[g]
        BY <1>3 DEF ButtonInv, ButtonTypes
    <2>7. ASSUME NEW g \in Handlers PROVE HandlerHolds(g)'
        <3>1. CASE g = h
            BY <1>1, <1>3, <2>5, <2>6, <3>1 DEF HandlerHolds
        <3>2. CASE g # h
            BY <1>1, <1>3, <2>6, <3>2 DEF ButtonInv, HandlerHolds
        <3> QED
            BY <3>1, <3>2
    <2>8. SubmitAlone'
        BY <1>3, <2>6 DEF ButtonInv, HandlerHolds, SubmitAlone
    <2> QED
        BY <2>3, <2>4, <2>7, <2>8 DEF ButtonInv
<1> QED
    BY <1>2, <1>3 DEF ConsumeOnce, Consumable, Finish, telegramVars

\* What a submission that is mined does to the buttons.
LEMMA SubmitKeepsButtons ==
    ASSUME ButtonInv, NEW h \in Handlers, Submit(h)
    PROVE  /\ ButtonInv'
           /\ pressed[h] \in ButtonId /\ pressed[h] \in 1 .. Len(buttons)
           /\ submissions[pressed[h]] = 0 /\ UNCHANGED buttons
           /\ \/ UNCHANGED <<storeVars, submissions>>
              \/ /\ SubmitApproval(Agent, Account, CallAt(h))
                 /\ submissions' = [submissions EXCEPT ![pressed[h]] = 1]
<1> DEFINE n == pressed[h]
<1>1. /\ pc[h] = "submitting" /\ n \in 1 .. Len(buttons) /\ n \in consumedNonces
      /\ buttons[n].action = "Approve" /\ submissions[n] = 0
      /\ UNCHANGED <<buttons, liveNonces, consumedNonces>>
    BY DEF Submit, ButtonInv, HandlerHolds, Finish, GoTo, telegramVars
<1>2. n \in ButtonId /\ submissions \in [ButtonId -> Nat]
    BY <1>1, Limits DEF ButtonInv, ButtonTypes, ButtonId
<1>3. PICK step \in {"replaying", "idle"} :
         /\ pc' = [pc EXCEPT ![h] = step]
         /\ \/ pressed' = pressed
            \/ pressed' = [pressed EXCEPT ![h] = 0] /\ step = "idle"
    BY DEF Submit, GoTo, Finish, Rest
<1>4. step \in Steps \ {"verified", "submitting"}
    BY DEF Steps
<1>5. CASE UNCHANGED <<storeVars, submissions>>
    BY <1>1, <1>2, <1>3, <1>4, <1>5, HandlerMoves
<1>6. CASE /\ SubmitApproval(Agent, Account, CallAt(h))
           /\ submissions' = [submissions EXCEPT ![n] = @ + 1]
    <2>1. submissions' = [submissions EXCEPT ![n] = 1]
        BY <1>1, <1>2, <1>6
    <2>2. ButtonTypes'
        BY <1>1, <1>2, <1>3, <1>4, <2>1 DEF ButtonInv, ButtonTypes
    <2>3. SubmittedOnce'
        BY <1>1, <1>2, <2>1 DEF ButtonInv, SubmittedOnce
    <2>4. ASSUME NEW g \in Handlers
          PROVE  /\ pc'[g] \in {"verified", "submitting"}
                       => g # h /\ pc'[g] = pc[g] /\ pressed'[g] = pressed[g]
                 /\ pc'[g] # "idle" => pc[g] # "idle" /\ pressed'[g] = pressed[g]
        BY <1>1, <1>3, <1>4 DEF ButtonInv, ButtonTypes
    <2>5. ASSUME NEW g \in Handlers PROVE HandlerHolds(g)'
        <3>1. pc'[g] = "submitting" => pressed[g] # n /\ pressed[g] \in ButtonId
            <4>1. SUFFICES ASSUME pc'[g] = "submitting" PROVE pressed[g] # n /\ pressed[g] \in ButtonId
                OBVIOUS
            <4>2. pc[g] = "submitting" /\ g # h
                BY <2>4, <4>1
            <4>3. pressed[g] \in 1 .. Len(buttons)
                BY <4>2 DEF ButtonInv, HandlerHolds
            <4>4. pressed[g] # n
                BY <1>1, <4>2 DEF ButtonInv, SubmitAlone
            <4> QED
                BY <4>3, <4>4, Limits DEF ButtonInv, ButtonTypes, ButtonId
        <3> QED
            BY <1>1, <1>2, <2>1, <2>4, <3>1 DEF ButtonInv, HandlerHolds
    <2>6. SubmitAlone'
        BY <2>4 DEF ButtonInv, SubmitAlone
    <2> QED
        BY <1>1, <1>2, <1>6, <2>1, <2>2, <2>3, <2>5, <2>6 DEF ButtonInv
<1> QED
    BY <1>5, <1>6 DEF Submit

LEMMA RestartKeepsButtons ==
    ASSUME ButtonInv, Restart
    PROVE  ButtonInv'
<1>1. ButtonTypes'
    BY DEF ButtonInv, ButtonTypes, Restart, Steps
<1>2. SubmittedOnce'
    BY DEF ButtonInv, SubmittedOnce, Restart
<1>3. (\A h \in Handlers : HandlerHolds(h))' /\ SubmitAlone'
    BY DEF HandlerHolds, SubmitAlone, Restart
<1> QED
    BY <1>1, <1>2, <1>3 DEF ButtonInv

\* The steps of a handler that neither take nor use up nor submit anything.
LEMMA OtherStepsKeepButtons ==
    ASSUME ButtonInv, NEW h \in Handlers,
           \/ Decline(h) \/ FindPending(h) \/ Relay(h)
           \/ AwaitReceipt(h) \/ MarkSubmitted(h) \/ MarkFailed(h)
    PROVE  ButtonInv'
<1>1. UNCHANGED submissions /\ pc[h] # "idle"
    BY DEF Decline, FindPending, Relay, AwaitReceipt, MarkSubmitted, MarkFailed
<1>2. UNCHANGED <<buttons, liveNonces, consumedNonces>>
    BY DEF Decline, FindPending, Relay, AwaitReceipt, MarkSubmitted, MarkFailed, GoTo, Finish,
           telegramVars
<1>3. PICK step \in Steps \ {"verified", "submitting"} :
         /\ pc' = [pc EXCEPT ![h] = step]
         /\ \/ pressed' = pressed
            \/ pressed' = [pressed EXCEPT ![h] = 0] /\ step = "idle"
    <2>1. {"idle", "relaying", "waiting", "marking", "failing"} \subseteq Steps \ {"verified", "submitting"}
        BY DEF Steps
    <2> QED
        BY <2>1 DEF Decline, FindPending, Relay, AwaitReceipt, MarkSubmitted, MarkFailed, GoTo, Finish,
                    Rest
<1> QED
    BY <1>1, <1>2, <1>3, HandlerMoves

\* Whoever acts keeps the buttons in order.
LEMMA ButtonsKept == PlaceTypes /\ ButtonInv /\ [Next]_vars => ButtonInv'
<1> SUFFICES ASSUME PlaceTypes, ButtonInv, [Next]_vars PROVE ButtonInv'
    OBVIOUS
<1> DEFINE Quiet == UNCHANGED <<handlerVars, buttons, liveNonces, consumedNonces, submissions>>
<1>1. Quiet => ButtonInv'
    BY HandlersRest
<1>2. ASSUME NEW k \in Chats \cup {NoChat}, LinkChat(k) PROVE Quiet
    BY <1>2 DEF LinkChat
<1>3. ASSUME NEW c \in Calls, NotifyReview(c) PROVE Quiet
    BY <1>3 DEF NotifyReview
<1>4. ASSUME NEW c \in Calls, AskApproval(c) PROVE ButtonInv'
    BY <1>4, ButtonsAdded
<1>5. ASSUME NEW o \in UserOps, BeginUpsert(o) PROVE Quiet
    BY <1>5 DEF BeginUpsert, telegramVars
<1>6. ASSUME NEW u, EndUpsert(u) PROVE Quiet
    BY <1>6 DEF EndUpsert, telegramVars
<1>7. ASSUME NEW h \in Handlers, NEW n \in ButtonId, ReceiveCallback(h, n) PROVE ButtonInv'
    BY <1>7, CallbackKeepsButtons
<1>8. ASSUME NEW h \in Handlers, ConsumeOnce(h) PROVE ButtonInv'
    BY <1>8, ConsumeKeepsButtons
<1>9. ASSUME NEW h \in Handlers, Submit(h) PROVE ButtonInv'
    BY <1>9, SubmitKeepsButtons
<1>10. ASSUME NEW h \in Handlers,
              \/ Decline(h) \/ FindPending(h) \/ Relay(h)
              \/ AwaitReceipt(h) \/ MarkSubmitted(h) \/ MarkFailed(h)
       PROVE  ButtonInv'
    BY <1>10, OtherStepsKeepButtons
<1>11. ASSUME NEW o \in UserOps, SendUserOp(o) \/ ExecuteUserOp(o) \/ DropUserOp(o) PROVE Quiet
    BY <1>11 DEF SendUserOp, ExecuteUserOp, DropUserOp, telegramVars
<1>12. ASSUME Tick PROVE Quiet
    BY <1>12 DEF Tick, telegramVars
<1>13. ASSUME Restart PROVE ButtonInv'
    BY <1>13, RestartKeepsButtons
<1>14. ASSUME UNCHANGED vars PROVE Quiet
    BY <1>14 DEF vars, telegramVars
<1> QED
    BY <1>1, <1>2, <1>3, <1>4, <1>5, <1>6, <1>7, <1>8, <1>9, <1>10, <1>11, <1>12, <1>13, <1>14
       DEF Next, AppStep, HandlerStep, ChainStep

LEMMA ButtonInvImplies == ButtonInv => OneSubmissionPerButton
<1> SUFFICES ASSUME ButtonInv, NEW n \in ButtonId
             PROVE  submissions[n] <= IF n <= Len(buttons) /\ buttons[n].action = "Approve"
                                      THEN 1 ELSE 0
    BY DEF OneSubmissionPerButton
<1>1. submissions[n] = 0 \/ (submissions[n] = 1 /\ n <= Len(buttons) /\ buttons[n].action = "Approve")
    BY DEF ButtonInv, SubmittedOnce
<1> QED
    BY <1>1

-----------------------------------------------------------------------------
(* Approvals and executions. *)

\* How many approvals of a call the account has left: one or none.
Left(c) == IF pendingApprovals[Account].call = c THEN 1 ELSE 0

LEMMA CountedSets ==
    ASSUME PlaceTypes, NEW c
    PROVE  /\ IsFiniteSet(ExecutionsOf(c)) /\ Cardinality(ExecutionsOf(c)) \in Nat
           /\ IsFiniteSet(ApprovalsOf(c)) /\ Cardinality(ApprovalsOf(c)) \in Nat
<1>1. IsFiniteSet(ExecutionsOf(c))
    <2>1. ExecutionsOf(c) \subseteq executed /\ IsFiniteSet(executed)
        BY DEF ExecutionsOf, PlaceTypes
    <2> QED
        BY <2>1, FS_Subset
<1>2. IsFiniteSet(ApprovalsOf(c))
    <2>1. IsFiniteSet(1 .. MaxButtons)
        BY Limits, FS_Interval
    <2>2. ApprovalsOf(c) \subseteq 1 .. MaxButtons
        BY DEF ApprovalsOf, ButtonId
    <2> QED
        BY <2>1, <2>2, FS_Subset
<1> QED
    BY <1>1, <1>2, FS_CardinalityType

LEMMA StartsEven == Init => ExecutionsAreApproved
<1> SUFFICES ASSUME Init, NEW c \in Calls
             PROVE  Cardinality(ExecutionsOf(c)) + Left(c) <= Cardinality(ApprovalsOf(c))
    BY DEF ExecutionsAreApproved, Left
<1>1. ExecutionsOf(c) = {} /\ ApprovalsOf(c) = {}
    BY DEF Init, ExecutionsOf, ApprovalsOf
<1>2. Left(c) = 0
    BY TelegramAssumption, StoreAssumption
       DEF TelegramAssumption, StoreAssumption, Init, Left, NoApproval
<1> QED
    BY <1>1, <1>2, FS_EmptySet

LEMMA ButtonsAddedKeepBooks ==
    ASSUME PlaceTypes, ButtonInv, ExecutionsAreApproved, NEW c \in Calls, AskApproval(c)
    PROVE  ExecutionsAreApproved'
<1>1. \A i \in 1 .. Len(buttons) : buttons'[i] = buttons[i]
    BY ButtonsAdded
<1>2. UNCHANGED <<executed, pendingApprovals, submissions>>
    BY DEF AskApproval, chainVars, storeVars
<1>3. \A n \in ButtonId : submissions[n] > 0 => n \in 1 .. Len(buttons)
    BY DEF ButtonInv, SubmittedOnce, ButtonTypes, ButtonId
<1>4. ASSUME NEW d \in Calls PROVE ApprovalsOf(d)' = ApprovalsOf(d)
    BY <1>1, <1>2, <1>3 DEF ApprovalsOf
<1>5. ASSUME NEW d \in Calls PROVE ExecutionsOf(d)' = ExecutionsOf(d)
    BY <1>2 DEF ExecutionsOf
<1> QED
    BY <1>2, <1>4, <1>5 DEF ExecutionsAreApproved

\* One more approval, and one button more that is paid for.
LEMMA SubmitKeepsBooks ==
    ASSUME PlaceTypes, ButtonInv, ExecutionsAreApproved, NEW h \in Handlers, Submit(h)
    PROVE  ExecutionsAreApproved'
<1> DEFINE n == pressed[h]
           c == CallAt(h)
<1>1. UNCHANGED <<executed, buttons>> /\ n \in ButtonId /\ submissions[n] = 0
    BY SubmitKeepsButtons DEF Submit
<1>2. CASE UNCHANGED <<storeVars, submissions>>
    BY <1>1, <1>2 DEF ExecutionsAreApproved, ExecutionsOf, ApprovalsOf, storeVars
<1>3. CASE /\ SubmitApproval(Agent, Account, c)
           /\ submissions' = [submissions EXCEPT ![n] = 1]
    <2>1. buttons[n].call = c
        BY DEF CallAt, ButtonOf
    <2>2. submissions \in [ButtonId -> Nat]
        BY DEF ButtonInv, ButtonTypes
    <2>3. pendingApprovals'[Account].call = c
        BY <1>3, TelegramAssumption DEF SubmitApproval, TelegramAssumption, PlaceTypes, StoreTypeOK
    <2> SUFFICES ASSUME NEW d \in Calls
                 PROVE  Cardinality(ExecutionsOf(d)') + Left(d)' <= Cardinality(ApprovalsOf(d)')
        BY DEF ExecutionsAreApproved, Left
    <2>4. ExecutionsOf(d)' = ExecutionsOf(d)
        BY <1>1 DEF ExecutionsOf
    <2>5. Cardinality(ExecutionsOf(d)) + Left(d) <= Cardinality(ApprovalsOf(d))
        BY DEF ExecutionsAreApproved, Left
    <2>6. Left(d) \in {0, 1} /\ Left(d)' = IF d = c THEN 1 ELSE 0
        BY <2>3 DEF Left
    <2> HIDE DEF c, n
    <2>7. CASE d = c
        <3>1. ApprovalsOf(d)' = ApprovalsOf(d) \cup {n}
            BY <1>1, <1>3, <2>1, <2>2, <2>7 DEF ApprovalsOf
        <3>2. n \notin ApprovalsOf(d)
            BY <1>1 DEF ApprovalsOf
        <3>3. Cardinality(ApprovalsOf(d)') = Cardinality(ApprovalsOf(d)) + 1
            BY <3>1, <3>2, CountedSets, FS_AddElement
        <3> QED
            BY <2>4, <2>5, <2>6, <2>7, <3>3, CountedSets
    <2>8. CASE d # c
        <3>1. ApprovalsOf(d)' = ApprovalsOf(d)
            BY <1>1, <1>3, <2>1, <2>2, <2>8 DEF ApprovalsOf
        <3> QED
            BY <2>4, <2>5, <2>6, <2>8, <3>1, CountedSets
    <2> QED
        BY <2>7, <2>8
<1> QED
    BY <1>2, <1>3, SubmitKeepsButtons

\* One execution more, and one approval less that is left.
LEMMA ExecuteKeepsBooks ==
    ASSUME PlaceTypes, ExecutionsAreApproved, NEW o \in UserOps, ExecuteUserOp(o)
    PROVE  ExecutionsAreApproved'
<1> DEFINE c == CallOf[o]
<1>1. /\ o \notin executed /\ executed' = executed \cup {o}
      /\ UNCHANGED <<buttons, submissions>>
      /\ pendingApprovals[Account].call = c
      /\ pendingApprovals' = [pendingApprovals EXCEPT ![Account] = NoApproval]
    BY DEF ExecuteUserOp, Passes, ConsumeApproval, telegramVars
<1>2. pendingApprovals'[Account].call \notin Calls
    BY <1>1, TelegramAssumption, StoreAssumption
       DEF TelegramAssumption, StoreAssumption, PlaceTypes, StoreTypeOK, NoApproval
<1> SUFFICES ASSUME NEW d \in Calls
             PROVE  Cardinality(ExecutionsOf(d)') + Left(d)' <= Cardinality(ApprovalsOf(d)')
    BY DEF ExecutionsAreApproved, Left
<1>3. ApprovalsOf(d)' = ApprovalsOf(d)
    BY <1>1 DEF ApprovalsOf
<1>4. Cardinality(ExecutionsOf(d)) + Left(d) <= Cardinality(ApprovalsOf(d))
    BY DEF ExecutionsAreApproved, Left
<1>5. Left(d) = (IF d = c THEN 1 ELSE 0) /\ Left(d)' = 0
    BY <1>1, <1>2 DEF Left
<1> HIDE DEF c
<1>6. CASE d = c
    <2>1. ExecutionsOf(d)' = ExecutionsOf(d) \cup {o} /\ o \notin ExecutionsOf(d)
        BY <1>1, <1>6 DEF ExecutionsOf, c
    <2>2. Cardinality(ExecutionsOf(d)') = Cardinality(ExecutionsOf(d)) + 1
        BY <2>1, CountedSets, FS_AddElement
    <2> QED
        BY <1>3, <1>4, <1>5, <1>6, <2>2, CountedSets
<1>7. CASE d # c
    <2>1. ExecutionsOf(d)' = ExecutionsOf(d)
        BY <1>1, <1>7 DEF ExecutionsOf, c
    <2> QED
        BY <1>3, <1>4, <1>5, <1>7, <2>1, CountedSets
<1> QED
    BY <1>6, <1>7

\* Whoever acts keeps the books.
LEMMA BooksKept ==
    PlaceTypes /\ ButtonInv /\ ExecutionsAreApproved /\ [Next]_vars => ExecutionsAreApproved'
<1> SUFFICES ASSUME PlaceTypes, ButtonInv, ExecutionsAreApproved, [Next]_vars
             PROVE  ExecutionsAreApproved'
    OBVIOUS
<1> DEFINE Quiet == UNCHANGED <<storeVars, executed, buttons, submissions>>
<1>1. Quiet => ExecutionsAreApproved'
    BY DEF ExecutionsAreApproved, ExecutionsOf, ApprovalsOf, storeVars
<1>2. ASSUME NEW k \in Chats \cup {NoChat}, LinkChat(k) PROVE Quiet
    BY <1>2 DEF LinkChat, chainVars
<1>3. ASSUME NEW c \in Calls, NotifyReview(c) PROVE Quiet
    BY <1>3 DEF NotifyReview, chainVars
<1>4. ASSUME NEW c \in Calls, AskApproval(c) PROVE ExecutionsAreApproved'
    BY <1>4, ButtonsAddedKeepBooks
<1>5. ASSUME NEW o \in UserOps, BeginUpsert(o) PROVE Quiet
    BY <1>5 DEF BeginUpsert, telegramVars, chainVars
<1>6. ASSUME NEW u, EndUpsert(u) PROVE Quiet
    BY <1>6 DEF EndUpsert, telegramVars, chainVars
<1>7. ASSUME NEW h \in Handlers,
             \/ \E n \in ButtonId : ReceiveCallback(h, n)
             \/ ConsumeOnce(h) \/ Decline(h) \/ FindPending(h) \/ Relay(h)
             \/ AwaitReceipt(h) \/ MarkSubmitted(h) \/ MarkFailed(h)
      PROVE  Quiet
    <2>1. UNCHANGED <<storeVars, executed, submissions>>
        BY <1>7 DEF ReceiveCallback, ConsumeOnce, Decline, FindPending, Relay, AwaitReceipt,
                    MarkSubmitted, MarkFailed, chainVars
    <2>2. UNCHANGED buttons
        BY <1>7 DEF ReceiveCallback, ConsumeOnce, Decline, FindPending, Relay, AwaitReceipt,
                    MarkSubmitted, MarkFailed, GoTo, Finish, telegramVars
    <2> QED
        BY <2>1, <2>2
<1>8. ASSUME NEW h \in Handlers, Submit(h) PROVE ExecutionsAreApproved'
    BY <1>8, SubmitKeepsBooks
<1>9. ASSUME NEW o \in UserOps, SendUserOp(o) \/ DropUserOp(o) PROVE Quiet
    BY <1>9 DEF SendUserOp, DropUserOp, telegramVars
<1>10. ASSUME NEW o \in UserOps, ExecuteUserOp(o) PROVE ExecutionsAreApproved'
    BY <1>10, ExecuteKeepsBooks
<1>11. ASSUME Tick PROVE Quiet
    BY <1>11 DEF Tick, telegramVars
<1>12. ASSUME Restart PROVE Quiet
    BY <1>12 DEF Restart, chainVars
<1>13. ASSUME UNCHANGED vars PROVE Quiet
    BY <1>13 DEF vars, telegramVars, chainVars
<1> QED
    BY <1>1, <1>2, <1>3, <1>4, <1>5, <1>6, <1>7, <1>8, <1>9, <1>10, <1>11, <1>12, <1>13
       DEF Next, AppStep, HandlerStep, ChainStep

-----------------------------------------------------------------------------
(* Records and what they say. *)

RecordTypes ==
    /\ status \in [Calls -> Statuses] /\ held \in [Handlers -> Upsert \cup {NoRecord}]
    /\ unstored \subseteq UserOps /\ storing \subseteq Upsert /\ mempool \subseteq UserOps
    /\ pendingUserOps \in Seq(PendingUserOp)

\* A record takes the operation it was made for as its id, and later holds others only of
\* the same call.
SameCalls(r) == CallOf[r.id] = CallOf[r.op]

RecordsTrue ==
    \A r \in ToSet(pendingUserOps) :
        SameCalls(r) /\ (r.status = "submitted" => ExecutionsOf(CallOf[r.op]) # {})

MessagesTrue == \A c \in Calls : status[c] = "Success" => ExecutionsOf(c) # {}

Holding == {"relaying", "waiting", "marking", "failing"}

\* A handler's record is of the call on its button, and what it is about to mark has been
\* executed.
HolderTrue(h) ==
    pc[h] \in Holding =>
        /\ held[h] \in Upsert /\ SameCalls(held[h]) /\ CallOf[held[h].op] = CallAt(h)
        /\ pc[h] = "marking" => held[h].op \in executed

RecordInv ==
    /\ RecordTypes /\ RecordsTrue /\ MessagesTrue
    /\ \A u \in storing : SameCalls(u)
    /\ \A h \in Handlers : HolderTrue(h)

LEMMA Operations == CallOf \in [UserOps -> Calls] /\ NoOp \notin UserOps
BY TelegramAssumption DEF TelegramAssumption

TelegramInv == PlaceTypes /\ ButtonInv /\ ExecutionsAreApproved /\ RecordInv

LEMMA StartsWithoutRecords == Init => RecordInv
<1> SUFFICES ASSUME Init PROVE RecordInv
    OBVIOUS
<1>1. RecordTypes /\ ToSet(pendingUserOps) = {}
    <2>1. pendingUserOps = <<>>
        BY DEF Init
    <2>2. pendingUserOps \in Seq(PendingUserOp) /\ ToSet(pendingUserOps) = {}
        BY <2>1 DEF ToSet
    <2> QED
        BY <2>2 DEF Init, RecordTypes, Statuses
<1>2. MessagesTrue /\ (\A u \in storing : SameCalls(u)) /\ \A h \in Handlers : HolderTrue(h)
    BY DEF Init, MessagesTrue, HolderTrue, Holding
<1> QED
    BY <1>1, <1>2 DEF RecordInv, RecordsTrue

\* What is executed stays executed.
LEMMA ExecutedStays == [Next]_vars => executed \subseteq executed'
<1> SUFFICES ASSUME [Next]_vars PROVE executed \subseteq executed'
    OBVIOUS
<1>1. ASSUME NEW h \in Handlers,
             \/ \E n \in ButtonId : ReceiveCallback(h, n)
             \/ ConsumeOnce(h) \/ Decline(h) \/ Submit(h) \/ FindPending(h) \/ Relay(h)
             \/ AwaitReceipt(h) \/ MarkSubmitted(h) \/ MarkFailed(h)
      PROVE  UNCHANGED executed
    BY <1>1 DEF ReceiveCallback, ConsumeOnce, Decline, Submit, FindPending, Relay, AwaitReceipt,
                MarkSubmitted, MarkFailed, chainVars
<1>2. AppStep \/ ChainStep \/ Restart \/ UNCHANGED vars => executed \subseteq executed'
    BY DEF AppStep, LinkChat, NotifyReview, AskApproval, BeginUpsert, EndUpsert, ChainStep, Tick,
           SendUserOp, ExecuteUserOp, DropUserOp, Restart, vars, chainVars
<1> QED
    BY <1>1, <1>2 DEF Next, HandlerStep

LEMMA ExecutionsStay ==
    ASSUME executed \subseteq executed', NEW c, ExecutionsOf(c) # {}
    PROVE  ExecutionsOf(c)' # {}
BY DEF ExecutionsOf

\* A list's elements are those of its elements' set.
LEMMA Listed ==
    ASSUME NEW E, NEW s \in Seq(E)
    PROVE  /\ \A x \in ToSet(s) : x \in E
           /\ \A i \in 1 .. Len(s) : s[i] \in ToSet(s)
BY DEF ToSet

\* The records of a call are records.
LEMMA Found ==
    ASSUME RecordInv, NEW c, NEW r \in ToSet(RecordsOf(c))
    PROVE  /\ r \in ToSet(pendingUserOps) /\ r \in PendingUserOp /\ CallOf[r.op] = c
           /\ CallOf[r.id] = c
<1>1. PICK P : P = {q \in PendingUserOp : CallOf[q.op] = c}
    OBVIOUS
<1>2. pendingUserOps \in Seq(PendingUserOp)
    BY DEF RecordInv, RecordTypes
<1>3. RecordsOf(c) = Filter(pendingUserOps, P)
    BY <1>1 DEF RecordsOf
<1>4. r \in ToSet(pendingUserOps) \cap P
    BY <1>2, <1>3, FilterGives
<1>5. SameCalls(r)
    BY <1>4 DEF RecordInv, RecordsTrue
<1> QED
    BY <1>1, <1>4, <1>5 DEF SameCalls

LEMMA RecordsListed ==
    ASSUME RecordInv, NEW c
    PROVE  RecordsOf(c) \in Seq(PendingUserOp)
<1>1. pendingUserOps \in Seq(PendingUserOp)
    BY DEF RecordInv, RecordTypes
<1> QED
    BY <1>1, FilterGives DEF RecordsOf

\* The upsert keeps the id of the record it will replace, which is of the same call.
LEMMA BeginKeepsCalls ==
    ASSUME RecordInv, NEW o \in UserOps, BeginUpsert(o)
    PROVE  storing' \subseteq Upsert /\ \A u \in storing' : SameCalls(u)
<1>1. PICK existing : existing = RecordsOf(CallOf[o])
    OBVIOUS
<1>2. existing \in Seq(PendingUserOp)
    BY <1>1, RecordsListed
<1>3. PICK d : d = IF existing = <<>> THEN o ELSE existing[1].id
    OBVIOUS
<1>4. storing' = storing \cup {[op |-> o, id |-> d]}
    BY <1>1, <1>3 DEF BeginUpsert
<1>5. d \in UserOps /\ CallOf[d] = CallOf[o]
    <2>1. CASE existing = <<>>
        BY <1>3, <2>1
    <2>2. CASE existing # <<>>
        <3>1. 1 \in 1 .. Len(existing)
            BY <1>2, <2>2
        <3>2. existing[1] \in ToSet(existing)
            BY <1>2, <3>1, Listed
        <3>3. existing[1] \in PendingUserOp /\ CallOf[existing[1].id] = CallOf[o]
            BY <1>1, <3>2, Found
        <3> QED
            BY <1>3, <2>2, <3>3 DEF PendingUserOp
    <2> QED
        BY <2>1, <2>2
<1> QED
    BY <1>4, <1>5 DEF RecordInv, RecordTypes, Upsert, SameCalls

\* The upsert's write leaves the other records, and its own is pending.
LEMMA EndKeepsRecords ==
    ASSUME RecordInv, NEW u \in storing, EndUpsert(u)
    PROVE  pendingUserOps' \in Seq(PendingUserOp) /\ RecordsTrue'
<1>1. u \in Upsert /\ SameCalls(u)
    BY DEF RecordInv, RecordTypes
<1>2. PICK P : P = {r \in PendingUserOp : r.id # u.id}
    OBVIOUS
<1>3. PICK rest : rest = Filter(pendingUserOps, P)
    OBVIOUS
<1>4. PICK new : new = [id |-> u.id, op |-> u.op, status |-> "pending"]
    OBVIOUS
<1>5. pendingUserOps' = Append(rest, new) /\ UNCHANGED executed
    BY <1>2, <1>3, <1>4 DEF EndUpsert, chainVars
<1>6. new \in PendingUserOp /\ SameCalls(new) /\ new.status # "submitted"
    BY <1>1, <1>4 DEF Upsert, PendingUserOp, SameCalls
<1>7. pendingUserOps \in Seq(PendingUserOp)
    BY DEF RecordInv, RecordTypes
<1>8. rest \in Seq(PendingUserOp) /\ ToSet(rest) \subseteq ToSet(pendingUserOps)
    BY <1>3, <1>7, FilterGives
<1>9. pendingUserOps' \in Seq(PendingUserOp)
    BY <1>5, <1>6, <1>8
<1>10. ToSet(pendingUserOps') = ToSet(rest) \cup {new}
    BY <1>5, <1>6, <1>8, ToSetAppend
<1>11. \A c : ExecutionsOf(c)' = ExecutionsOf(c)
    BY <1>5 DEF ExecutionsOf
<1>12. ASSUME NEW r \in ToSet(pendingUserOps')
       PROVE  SameCalls(r) /\ (r.status = "submitted" => ExecutionsOf(CallOf[r.op])' # {})
    BY <1>6, <1>8, <1>10, <1>11 DEF RecordInv, RecordsTrue
<1> QED
    BY <1>9, <1>12 DEF RecordsTrue, SameCalls

\* A mark changes the status of the records with its id, and nothing else.
LEMMA Marked ==
    ASSUME RecordTypes, NEW d \in UserOps, NEW m \in {"submitted", "failed"}
    PROVE  /\ WithStatus(d, m) \in Seq(PendingUserOp)
           /\ \A r \in ToSet(WithStatus(d, m)) :
                 \E q \in ToSet(pendingUserOps) :
                    /\ r.id = q.id /\ r.op = q.op
                    /\ r.status = q.status \/ (r.id = d /\ r.status = m)
<1>1. PICK s \in Seq(PendingUserOp) : s = pendingUserOps
    BY DEF RecordTypes
<1>2. PICK t : t = WithStatus(d, m)
    OBVIOUS
<1>3. t = [i \in DOMAIN s |-> IF s[i].id = d THEN [s[i] EXCEPT !.status = m] ELSE s[i]]
    BY <1>1, <1>2 DEF WithStatus
<1>4. ASSUME NEW i \in DOMAIN s
      PROVE  /\ t[i] \in PendingUserOp /\ s[i] \in ToSet(s)
             /\ t[i].id = s[i].id /\ t[i].op = s[i].op
             /\ t[i].status = s[i].status \/ (t[i].id = d /\ t[i].status = m)
    <2>1. PICK q \in PendingUserOp : q = s[i]
        BY <1>1
    <2>2. t[i] = IF q.id = d THEN [q EXCEPT !.status = m] ELSE q
        BY <1>3, <1>4, <2>1
    <2>3. s[i] \in ToSet(s)
        BY DEF ToSet
    <2> QED
        BY <2>1, <2>2, <2>3 DEF PendingUserOp
<1>5. t \in Seq(PendingUserOp)
    <2>1. PICK n \in Nat : DOMAIN s = 1 .. n
        BY <1>1
    <2>2. DOMAIN t = 1 .. n
        BY <1>3, <2>1
    <2>3. t \in [1 .. n -> PendingUserOp]
        BY <1>3, <1>4, <2>1
    <2> QED
        BY <2>1, <2>3
<1>6. ToSet(t) = {t[i] : i \in DOMAIN s}
    BY <1>3 DEF ToSet
<1> QED
    BY <1>1, <1>2, <1>4, <1>5, <1>6

\* What a handler marks as submitted has been executed, or else what it holds by now is of
\* a call that has.
LEMMA MarksKeepRecords ==
    ASSUME RecordInv, NEW h \in Handlers, MarkSubmitted(h) \/ MarkFailed(h)
    PROVE  pendingUserOps' \in Seq(PendingUserOp) /\ RecordsTrue'
<1>1. /\ held[h] \in Upsert /\ SameCalls(held[h])
      /\ pc[h] = "marking" => held[h].op \in executed
      /\ UNCHANGED executed
    BY DEF RecordInv, HolderTrue, Holding, MarkSubmitted, MarkFailed, chainVars
<1>2. PICK d \in UserOps : d = held[h].id /\ CallOf[d] = CallOf[held[h].op]
    BY <1>1 DEF Upsert, SameCalls
<1>3. \A c : ExecutionsOf(c)' = ExecutionsOf(c)
    BY <1>1 DEF ExecutionsOf
<1>4. CASE UNCHANGED pendingUserOps
    BY <1>3, <1>4 DEF RecordInv, RecordTypes, RecordsTrue, SameCalls
<1>5. ASSUME NEW m \in {"submitted", "failed"}, pendingUserOps' = WithStatus(d, m),
             m = "submitted" => held[h].op \in executed
      PROVE  pendingUserOps' \in Seq(PendingUserOp) /\ RecordsTrue'
    <2>1. m = "submitted" => ExecutionsOf(CallOf[d]) # {}
        BY <1>2, <1>5 DEF ExecutionsOf
    <2>2. ASSUME NEW r \in ToSet(pendingUserOps')
          PROVE  SameCalls(r) /\ (r.status = "submitted" => ExecutionsOf(CallOf[r.op])' # {})
        <3>1. PICK q \in ToSet(pendingUserOps) :
                 /\ r.id = q.id /\ r.op = q.op
                 /\ r.status = q.status \/ (r.id = d /\ r.status = m)
            BY <1>5, <2>2, Marked DEF RecordInv
        <3>2. SameCalls(q) /\ (q.status = "submitted" => ExecutionsOf(CallOf[q.op]) # {})
            BY DEF RecordInv, RecordsTrue
        <3>3. SameCalls(r) /\ CallOf[r.id] = CallOf[r.op]
            BY <3>1, <3>2 DEF SameCalls
        <3> QED
            BY <1>3, <2>1, <3>1, <3>2, <3>3
    <2>3. pendingUserOps' \in Seq(PendingUserOp)
        BY <1>5, Marked DEF RecordInv
    <2> QED
        BY <2>2, <2>3 DEF RecordsTrue, SameCalls
<1>6. CASE MarkSubmitted(h)
    <2>1. pc[h] = "marking" /\ (UNCHANGED pendingUserOps \/ pendingUserOps' = WithStatus(d, "submitted"))
        BY <1>2, <1>6 DEF MarkSubmitted
    <2> QED
        BY <1>1, <1>4, <1>5, <2>1
<1>7. CASE MarkFailed(h)
    <2>1. UNCHANGED pendingUserOps \/ pendingUserOps' = WithStatus(d, "failed")
        BY <1>2, <1>7 DEF MarkFailed
    <2> QED
        BY <1>4, <1>5, <2>1
<1> QED
    BY <1>6, <1>7

\* Handlers that keep their buttons and records, and have seen a receipt when they come to
\* mark.
LEMMA HoldersGoOn ==
    ASSUME ButtonInv, RecordInv, executed \subseteq executed',
           \A i \in 1 .. Len(buttons) : buttons'[i] = buttons[i],
           \A g \in Handlers : pc'[g] \in Holding =>
              /\ pc[g] \in Holding /\ pressed'[g] = pressed[g] /\ held'[g] = held[g]
              /\ pc'[g] = "marking" => pc[g] = "marking" \/ held[g].op \in executed
    PROVE  \A g \in Handlers : HolderTrue(g)'
<1> SUFFICES ASSUME NEW g \in Handlers, pc'[g] \in Holding PROVE HolderTrue(g)'
    BY DEF HolderTrue, Holding
<1>1. /\ pc[g] \in Holding /\ pressed'[g] = pressed[g] /\ held'[g] = held[g]
      /\ pc'[g] = "marking" => held[g].op \in executed
      /\ held[g] \in Upsert /\ SameCalls(held[g]) /\ CallOf[held[g].op] = CallAt(g)
    BY DEF RecordInv, HolderTrue
<1>2. pressed[g] \in 1 .. Len(buttons)
    BY <1>1 DEF ButtonInv, HandlerHolds, Holding
<1>3. CallAt(g)' = CallAt(g)
    BY <1>1, <1>2 DEF CallAt, ButtonOf
<1> QED
    BY <1>1, <1>3 DEF HolderTrue, SameCalls

\* The record a handler takes is of the call on its button.
LEMMA FindHolds ==
    ASSUME ButtonInv, RecordInv, NEW h \in Handlers, FindPending(h)
    PROVE  held' \in [Handlers -> Upsert \cup {NoRecord}] /\ \A g \in Handlers : HolderTrue(g)'
<1>1. /\ UNCHANGED <<buttons, executed>> /\ pc[h] = "replaying"
      /\ pc \in [Handlers -> Steps] /\ pressed \in [Handlers -> ButtonId \cup {0}]
      /\ held \in [Handlers -> Upsert \cup {NoRecord}]
    BY DEF FindPending, Finish, telegramVars, chainVars, ButtonInv, ButtonTypes, RecordInv,
           RecordTypes
<1>2. NoRecord \in Upsert \cup {NoRecord}
    OBVIOUS
<1>3. CASE Rest(h)
    <2>1. \A g \in Handlers : pc'[g] \in Holding =>
             pc[g] \in Holding /\ pc'[g] = pc[g] /\ pressed'[g] = pressed[g] /\ held'[g] = held[g]
        BY <1>1, <1>3 DEF Rest, Holding
    <2>2. held' \in [Handlers -> Upsert \cup {NoRecord}]
        BY <1>1, <1>2, <1>3 DEF Rest
    <2> QED
        BY <1>1, <2>1, <2>2, HoldersGoOn
<1>4. CASE ~Rest(h)
    <2>1. PICK P : P = {r \in PendingUserOp : r.status = "pending"}
        OBVIOUS
    <2>2. PICK pending : pending = Filter(RecordsOf(CallAt(h)), P)
        OBVIOUS
    <2>3. PICK last : last = pending[Len(pending)]
        OBVIOUS
    <2>4. /\ pending # <<>> /\ UNCHANGED pressed
          /\ pc' = [pc EXCEPT ![h] = "relaying"]
          /\ held' = [held EXCEPT ![h] = [id |-> last.id, op |-> last.op]]
        BY <1>4, <2>1, <2>2, <2>3 DEF FindPending, Finish, telegramVars
    <2>5. RecordsOf(CallAt(h)) \in Seq(PendingUserOp)
        BY RecordsListed
    <2>6. pending \in Seq(PendingUserOp) /\ ToSet(pending) \subseteq ToSet(RecordsOf(CallAt(h)))
        BY <2>2, <2>5, FilterGives
    <2>7. last \in ToSet(pending)
        <3>1. Len(pending) \in 1 .. Len(pending)
            BY <2>4, <2>6
        <3> QED
            BY <2>3, <2>6, <3>1, Listed
    <2>8. last \in PendingUserOp /\ CallOf[last.op] = CallAt(h) /\ CallOf[last.id] = CallAt(h)
        BY <2>6, <2>7, Found
    <2>9. PICK r \in Upsert : r = [id |-> last.id, op |-> last.op]
        BY <2>8 DEF Upsert, PendingUserOp
    <2>10. held' = [held EXCEPT ![h] = r] /\ SameCalls(r) /\ CallOf[r.op] = CallAt(h)
        BY <2>4, <2>8, <2>9 DEF SameCalls
    <2>11. held' \in [Handlers -> Upsert \cup {NoRecord}]
        BY <1>1, <2>10
    <2>12. CallAt(h)' = CallAt(h)
        BY <1>1, <2>4 DEF CallAt, ButtonOf
    <2>13. HolderTrue(h)'
        BY <1>1, <2>4, <2>10, <2>12 DEF HolderTrue, SameCalls
    <2>14. ASSUME NEW g \in Handlers, g # h PROVE HolderTrue(g)'
        <3>1. pc'[g] = pc[g] /\ held'[g] = held[g] /\ CallAt(g)' = CallAt(g)
            BY <1>1, <2>4, <2>10, <2>14 DEF CallAt, ButtonOf
        <3> QED
            BY <1>1, <3>1 DEF RecordInv, HolderTrue, SameCalls
    <2> QED
        BY <2>11, <2>13, <2>14
<1> QED
    BY <1>3, <1>4

\* Messages, once true, are kept so by a step that says Success of an executed call only.
LEMMA MessagesStay ==
    ASSUME RecordInv, executed \subseteq executed',
           NEW c \in Calls, NEW s \in Statuses, s = "Success" => ExecutionsOf(c) # {},
           status' = status \/ status' = [status EXCEPT ![c] = s]
    PROVE  status' \in [Calls -> Statuses] /\ MessagesTrue'
<1>1. status \in [Calls -> Statuses] /\ MessagesTrue
    BY DEF RecordInv, RecordTypes
<1>2. status' \in [Calls -> Statuses]
    BY <1>1
<1>3. ASSUME NEW d \in Calls, status'[d] = "Success" PROVE ExecutionsOf(d)' # {}
    <2>1. ExecutionsOf(d) # {}
        BY <1>1, <1>3 DEF MessagesTrue
    <2> QED
        BY <2>1, ExecutionsStay
<1> QED
    BY <1>2, <1>3 DEF MessagesTrue

\* A longer list of executions makes no record or message false.
LEMMA RecordsStay ==
    ASSUME RecordInv, executed \subseteq executed', UNCHANGED <<pendingUserOps, status, storing>>
    PROVE  RecordsTrue' /\ MessagesTrue' /\ \A u \in storing' : SameCalls(u)
<1>1. \A c : ExecutionsOf(c) # {} => ExecutionsOf(c)' # {}
    BY ExecutionsStay
<1> QED
    BY <1>1 DEF RecordInv, RecordsTrue, MessagesTrue, SameCalls

\* What a handler does to the message of its call.
LEMMA HandlersTellTruly ==
    ASSUME ButtonInv, RecordInv, NEW h \in Handlers, executed \subseteq executed',
           \/ \E n \in ButtonId : ReceiveCallback(h, n)
           \/ ConsumeOnce(h) \/ Decline(h) \/ Submit(h) \/ FindPending(h) \/ Relay(h)
           \/ AwaitReceipt(h) \/ MarkSubmitted(h) \/ MarkFailed(h)
    PROVE  status' \in [Calls -> Statuses] /\ MessagesTrue'
<1>1. CASE pc[h] = "idle"
    <2>1. UNCHANGED status
        BY <1>1 DEF ReceiveCallback, ConsumeOnce, Decline, Submit, FindPending, Relay, AwaitReceipt,
                    MarkSubmitted, MarkFailed, telegramVars
    <2> QED
        BY <2>1, ExecutionsStay DEF RecordInv, RecordTypes, MessagesTrue
<1>2. CASE pc[h] # "idle"
    <2>1. pressed[h] \in 1 .. Len(buttons) /\ buttons \in Seq(Button)
        BY <1>2 DEF ButtonInv, ButtonTypes, HandlerHolds
    <2>2. buttons[pressed[h]] \in Button
        BY <2>1
    <2>3. PICK c \in Calls : c = CallAt(h)
        BY <2>2 DEF CallAt, ButtonOf, Button
    <2>4. status \in [Calls -> Statuses]
        BY DEF RecordInv, RecordTypes
    <2>5. PICK s \in Statuses :
             /\ status' = status \/ status' = [status EXCEPT ![c] = s]
             /\ s = "Success" => pc[h] = "marking"
        <3>1. {"Open", "Success", "Failed", "Rejected"} \subseteq Statuses
            BY DEF Statuses
        <3>2. CASE ConsumeOnce(h)
            <4>1. status' = status \/ status' = [status EXCEPT ![c] = "Failed"]
                  \/ status' = [status EXCEPT ![c] = "Open"] \/ status' = [status EXCEPT ![c] = @]
                BY <2>3, <3>2 DEF ConsumeOnce, Finish, telegramVars
            <4>2. [status EXCEPT ![c] = @] = status
                BY <2>4
            <4> QED
                BY <3>1, <4>1, <4>2
        <3>3. CASE \/ \E n \in ButtonId : ReceiveCallback(h, n)
                   \/ Decline(h) \/ Submit(h) \/ FindPending(h) \/ Relay(h)
                   \/ AwaitReceipt(h) \/ MarkFailed(h)
            BY <2>3, <3>1, <3>3 DEF ReceiveCallback, Decline, Submit, FindPending, Relay, AwaitReceipt,
                                    MarkFailed, GoTo, Finish, telegramVars
        <3>4. CASE MarkSubmitted(h)
            BY <2>3, <3>1, <3>4 DEF MarkSubmitted, GoTo, Finish, telegramVars
        <3> QED
            BY <3>2, <3>3, <3>4
    <2>6. pc[h] = "marking" => ExecutionsOf(c) # {}
        <3>1. SUFFICES ASSUME pc[h] = "marking" PROVE ExecutionsOf(c) # {}
            OBVIOUS
        <3>2. held[h].op \in executed /\ CallOf[held[h].op] = c
            BY <2>3, <3>1 DEF RecordInv, HolderTrue, Holding
        <3> QED
            BY <3>2 DEF ExecutionsOf
    <2> QED
        BY <2>5, <2>6, MessagesStay
<1> QED
    BY <1>1, <1>2

\* What a handler does to records and to what is held.
LEMMA HandlersHoldTruly ==
    ASSUME ButtonInv, RecordInv, NEW h \in Handlers, executed \subseteq executed',
           \/ \E n \in ButtonId : ReceiveCallback(h, n)
           \/ ConsumeOnce(h) \/ Decline(h) \/ Submit(h) \/ Relay(h)
           \/ AwaitReceipt(h) \/ MarkSubmitted(h) \/ MarkFailed(h)
    PROVE  held' \in [Handlers -> Upsert \cup {NoRecord}] /\ \A g \in Handlers : HolderTrue(g)'
<1>1. /\ pc \in [Handlers -> Steps] /\ pressed \in [Handlers -> ButtonId \cup {0}]
      /\ held \in [Handlers -> Upsert \cup {NoRecord}]
    BY DEF ButtonInv, ButtonTypes, RecordInv, RecordTypes
<1>2. UNCHANGED buttons
    BY DEF ReceiveCallback, ConsumeOnce, Decline, Submit, Relay, AwaitReceipt, MarkSubmitted,
           MarkFailed, GoTo, Finish, telegramVars
<1>3. PICK step : pc' = [pc EXCEPT ![h] = step]
    BY DEF ReceiveCallback, ConsumeOnce, Decline, Submit, Relay, AwaitReceipt, MarkSubmitted,
           MarkFailed, GoTo, Finish, Rest
<1>4. held' = held \/ held' = [held EXCEPT ![h] = NoRecord]
    BY DEF ReceiveCallback, ConsumeOnce, Decline, Submit, Relay, AwaitReceipt, MarkSubmitted,
           MarkFailed, GoTo, Finish, Rest
<1>5. held' \in [Handlers -> Upsert \cup {NoRecord}]
    BY <1>1, <1>4
<1>6. \A g \in Handlers : g # h => pc'[g] = pc[g] /\ pressed'[g] = pressed[g] /\ held'[g] = held[g]
    <2>1. PICK n : pressed' = pressed \/ pressed' = [pressed EXCEPT ![h] = n]
        BY DEF ReceiveCallback, ConsumeOnce, Decline, Submit, Relay, AwaitReceipt, MarkSubmitted,
               MarkFailed, GoTo, Finish, Rest
    <2> QED
        BY <1>1, <1>3, <1>4, <2>1
<1>7. pc'[h] = step
    BY <1>1, <1>3
<1>8. step \in Holding =>
         /\ pc[h] \in Holding /\ UNCHANGED <<pressed, held>>
         /\ step = "marking" => held[h].op \in executed
    <2>1. CASE \/ \E n \in ButtonId : ReceiveCallback(h, n)
               \/ ConsumeOnce(h) \/ Decline(h) \/ Submit(h)
        <3>1. pc'[h] \in {"verified", "idle", "submitting", "declining", "replaying"}
            BY <1>1, <2>1 DEF ReceiveCallback, ConsumeOnce, Decline, Submit, GoTo, Finish, Rest
        <3> QED
            BY <1>7, <3>1 DEF Holding
    <2>2. CASE Relay(h)
        <3>1. pc[h] = "relaying" /\ pc'[h] \in {"waiting", "failing"} /\ UNCHANGED <<pressed, held>>
            BY <1>1, <2>2 DEF Relay, GoTo
        <3> QED
            BY <1>7, <3>1 DEF Holding
    <2>3. CASE AwaitReceipt(h)
        <3>1. /\ pc[h] = "waiting" /\ UNCHANGED <<pressed, held>>
              /\ (pc'[h] = "marking" /\ held[h].op \in executed) \/ pc'[h] = "failing"
            BY <1>1, <2>3 DEF AwaitReceipt, HasReceipt, GoTo
        <3> QED
            BY <1>7, <3>1 DEF Holding
    <2>4. CASE MarkSubmitted(h) \/ MarkFailed(h)
        <3>1. /\ pc[h] \in {"marking", "failing"}
              /\ pc'[h] = "idle" \/ (pc'[h] = "failing" /\ UNCHANGED <<pressed, held>>)
            BY <1>1, <2>4 DEF MarkSubmitted, MarkFailed, GoTo, Finish, Rest
        <3> QED
            BY <1>7, <3>1 DEF Holding
    <2> QED
        BY <2>1, <2>2, <2>3, <2>4
<1>9. \A g \in Handlers : pc'[g] \in Holding =>
         /\ pc[g] \in Holding /\ pressed'[g] = pressed[g] /\ held'[g] = held[g]
         /\ pc'[g] = "marking" => pc[g] = "marking" \/ held[g].op \in executed
    BY <1>6, <1>7, <1>8
<1> QED
    BY <1>2, <1>5, <1>9, HoldersGoOn

\* Whoever acts, records and messages stay true.
LEMMA RecordsKept == PlaceTypes /\ ButtonInv /\ RecordInv /\ [Next]_vars => RecordInv'
<1> SUFFICES ASSUME PlaceTypes, ButtonInv, RecordInv, [Next]_vars PROVE RecordInv'
    OBVIOUS
<1>1. executed \subseteq executed'
    BY ExecutedStays
<1>2. /\ status \in [Calls -> Statuses] /\ held \in [Handlers -> Upsert \cup {NoRecord}]
      /\ unstored \subseteq UserOps /\ storing \subseteq Upsert /\ mempool \subseteq UserOps
      /\ pendingUserOps \in Seq(PendingUserOp)
      /\ RecordsTrue /\ \A u \in storing : SameCalls(u)
    BY DEF RecordInv, RecordTypes
<1>3. \A u : SameCalls(u)' <=> SameCalls(u)
    BY DEF SameCalls
<1>4. ASSUME UNCHANGED <<handlerVars, buttons>>
      PROVE  held' \in [Handlers -> Upsert \cup {NoRecord}] /\ \A g \in Handlers : HolderTrue(g)'
    BY <1>1, <1>2, <1>4, HoldersGoOn DEF handlerVars
<1>5. ASSUME UNCHANGED <<handlerVars, buttons, status, pendingUserOps, storing>>,
             unstored' \subseteq UserOps, mempool' \subseteq UserOps
      PROVE  RecordInv'
    BY <1>1, <1>2, <1>3, <1>4, <1>5, RecordsStay DEF RecordInv, RecordTypes
<1>6. ASSUME NEW k \in Chats \cup {NoChat}, LinkChat(k) PROVE RecordInv'
    BY <1>2, <1>5, <1>6 DEF LinkChat, userOpVars, chainVars
<1>7. ASSUME NEW c \in Calls, NotifyReview(c) \/ AskApproval(c) PROVE RecordInv'
    <2>1. /\ status' = [status EXCEPT ![c] = "Open"]
          /\ UNCHANGED <<handlerVars, unstored, pendingUserOps, storing, mempool, executed>>
        BY <1>7 DEF NotifyReview, AskApproval, userOpVars, chainVars
    <2>2. \A i \in 1 .. Len(buttons) : buttons'[i] = buttons[i]
        BY <1>7, ButtonsAdded DEF NotifyReview
    <2>3. "Open" \in Statuses /\ "Open" # "Success"
        BY DEF Statuses
    <2>4. status' \in [Calls -> Statuses] /\ MessagesTrue'
        BY <1>1, <2>1, <2>3, MessagesStay
    <2>5. \A g \in Handlers : HolderTrue(g)'
        BY <1>1, <2>1, <2>2, HoldersGoOn DEF handlerVars
    <2>6. RecordsTrue'
        BY <1>2, <2>1 DEF RecordsTrue, SameCalls, ExecutionsOf
    <2> QED
        BY <1>2, <1>3, <2>1, <2>4, <2>5, <2>6 DEF RecordInv, RecordTypes, handlerVars
<1>8. ASSUME NEW o \in UserOps, BeginUpsert(o) PROVE RecordInv'
    <2>1. UNCHANGED <<telegramVars, pendingUserOps, handlerVars, chainVars>> /\ unstored' \subseteq UserOps
        BY <1>2, <1>8 DEF BeginUpsert
    <2>2. storing' \subseteq Upsert /\ \A u \in storing' : SameCalls(u)
        BY <1>8, BeginKeepsCalls
    <2>3. MessagesTrue' /\ RecordsTrue'
        BY <1>2, <2>1 DEF RecordInv, MessagesTrue, RecordsTrue, SameCalls, ExecutionsOf, telegramVars,
                          chainVars
    <2> QED
        BY <1>2, <1>3, <1>4, <2>1, <2>2, <2>3 DEF RecordInv, RecordTypes, telegramVars, chainVars
<1>9. ASSUME NEW u \in storing, EndUpsert(u) PROVE RecordInv'
    <2>1. UNCHANGED <<telegramVars, unstored, handlerVars, chainVars>> /\ storing' \subseteq storing
        BY <1>9 DEF EndUpsert
    <2>2. pendingUserOps' \in Seq(PendingUserOp) /\ RecordsTrue'
        BY <1>9, EndKeepsRecords
    <2>3. MessagesTrue'
        BY <2>1 DEF RecordInv, MessagesTrue, ExecutionsOf, telegramVars, chainVars
    <2> QED
        BY <1>2, <1>3, <1>4, <2>1, <2>2, <2>3 DEF RecordInv, RecordTypes, telegramVars, chainVars
<1>10. ASSUME NEW h \in Handlers,
              \/ \E n \in ButtonId : ReceiveCallback(h, n)
              \/ ConsumeOnce(h) \/ Decline(h) \/ Submit(h) \/ FindPending(h) \/ Relay(h)
              \/ AwaitReceipt(h) \/ MarkSubmitted(h) \/ MarkFailed(h)
       PROVE  RecordInv'
    <2>1. UNCHANGED <<unstored, storing, executed>>
        BY <1>10 DEF ReceiveCallback, ConsumeOnce, Decline, Submit, FindPending, Relay, AwaitReceipt,
                     MarkSubmitted, MarkFailed, userOpVars, chainVars
    <2>2. mempool' \subseteq UserOps
        <3>1. CASE Relay(h)
            <4>1. pc[h] = "relaying" /\ mempool' \subseteq mempool \cup {held[h].op}
                BY <3>1 DEF Relay
            <4>2. held[h] \in Upsert
                BY <4>1 DEF RecordInv, HolderTrue, Holding
            <4> QED
                BY <1>2, <4>1, <4>2 DEF Upsert
        <3>2. CASE ~Relay(h)
            BY <1>2, <1>10, <3>2 DEF ReceiveCallback, ConsumeOnce, Decline, Submit, FindPending,
                       AwaitReceipt, MarkSubmitted, MarkFailed, chainVars
        <3> QED
            BY <3>1, <3>2
    <2>3. pendingUserOps' \in Seq(PendingUserOp) /\ RecordsTrue'
        <3>1. CASE MarkSubmitted(h) \/ MarkFailed(h)
            BY <3>1, MarksKeepRecords
        <3>2. CASE ~(MarkSubmitted(h) \/ MarkFailed(h))
            <4>1. UNCHANGED pendingUserOps
                BY <1>10, <3>2 DEF ReceiveCallback, ConsumeOnce, Decline, Submit, FindPending, Relay,
                           AwaitReceipt, userOpVars
            <4> QED
                BY <1>2, <2>1, <4>1 DEF RecordsTrue, SameCalls, ExecutionsOf
        <3> QED
            BY <3>1, <3>2
    <2>4. status' \in [Calls -> Statuses] /\ MessagesTrue'
        BY <1>1, <1>10, HandlersTellTruly
    <2>5. held' \in [Handlers -> Upsert \cup {NoRecord}] /\ \A g \in Handlers : HolderTrue(g)'
        BY <1>1, <1>10, FindHolds, HandlersHoldTruly
    <2> QED
        BY <1>2, <1>3, <2>1, <2>2, <2>3, <2>4, <2>5 DEF RecordInv, RecordTypes
<1>11. ASSUME NEW o \in UserOps, SendUserOp(o) \/ ExecuteUserOp(o) \/ DropUserOp(o) PROVE RecordInv'
    BY <1>2, <1>5, <1>11 DEF SendUserOp, ExecuteUserOp, DropUserOp, telegramVars, userOpVars
<1>12. ASSUME Tick PROVE RecordInv'
    BY <1>2, <1>5, <1>12 DEF Tick, telegramVars, userOpVars
<1>13. ASSUME Restart PROVE RecordInv'
    <2>1. /\ UNCHANGED <<buttons, status, unstored, pendingUserOps, mempool, executed>>
          /\ storing' = {} /\ held' = [h \in Handlers |-> NoRecord]
          /\ pc' = [h \in Handlers |-> "idle"]
        BY <1>13 DEF Restart, chainVars
    <2>2. RecordsTrue' /\ MessagesTrue'
        BY <2>1 DEF RecordInv, RecordsTrue, MessagesTrue, SameCalls, ExecutionsOf
    <2>3. \A g \in Handlers : HolderTrue(g)'
        BY <2>1 DEF HolderTrue, Holding
    <2> QED
        BY <1>2, <2>1, <2>2, <2>3 DEF RecordInv, RecordTypes
<1>14. ASSUME UNCHANGED vars PROVE RecordInv'
    BY <1>2, <1>5, <1>14 DEF vars, telegramVars, userOpVars, chainVars
<1> QED
    BY <1>6, <1>7, <1>8, <1>9, <1>10, <1>11, <1>12, <1>13, <1>14
       DEF Next, AppStep, HandlerStep, ChainStep

LEMMA InvTyped == PlaceTypes /\ ButtonInv /\ RecordInv => TypeOK
BY DEF PlaceTypes, ButtonInv, ButtonTypes, RecordInv, RecordTypes, TypeOK

LEMMA RecordInvImplies == RecordInv => ToldTruly
<1> SUFFICES ASSUME RecordInv, NEW c \in Calls,
                    \/ status[c] = "Success"
                    \/ \E i \in 1 .. Len(pendingUserOps) :
                          /\ CallOf[pendingUserOps[i].op] = c
                          /\ pendingUserOps[i].status = "submitted"
             PROVE  ExecutionsOf(c) # {}
    BY DEF ToldTruly
<1>1. CASE status[c] = "Success"
    BY <1>1 DEF RecordInv, MessagesTrue
<1>2. CASE status[c] # "Success"
    <2>1. PICK i \in 1 .. Len(pendingUserOps) :
             CallOf[pendingUserOps[i].op] = c /\ pendingUserOps[i].status = "submitted"
        BY <1>2
    <2>2. pendingUserOps[i] \in ToSet(pendingUserOps)
        BY Listed DEF RecordInv, RecordTypes
    <2> QED
        BY <2>1, <2>2 DEF RecordInv, RecordsTrue
<1> QED
    BY <1>1, <1>2

-----------------------------------------------------------------------------
(* Theorems. *)

\* What is said above of places, buttons, handlers, the books and the records holds in
\* every state of the approval path.
THEOREM TelegramInvariant == Spec => []TelegramInv
<1>1. Init => TelegramInv
    BY StartsInPlace, StartsWithoutButtons, StartsEven, StartsWithoutRecords DEF TelegramInv
<1>2. TelegramInv /\ [Next]_vars => TelegramInv'
    BY PlacesKept, ButtonsKept, BooksKept, RecordsKept DEF TelegramInv
<1> QED
    BY <1>1, <1>2, PTL DEF Spec

\* Whatever callbacks arrive twice or at once, consumeOnce makes a button worth one
\* approval, and a Decline none.
THEOREM ButtonsSubmitOnce == Spec => []OneSubmissionPerButton
<1>1. TelegramInv => OneSubmissionPerButton
    BY ButtonInvImplies DEF TelegramInv
<1> QED
    BY <1>1, TelegramInvariant, PTL

\* The account executes a blocked call no more often than an approval of it was pressed,
\* after any retries, duplicates, lost answers and restarts.
THEOREM ExecutionsWereApproved == Spec => []ExecutionsAreApproved
<1>1. TelegramInv => ExecutionsAreApproved
    BY DEF TelegramInv
<1> QED
    BY <1>1, TelegramInvariant, PTL

\* Every variable of the approval path keeps its type.
THEOREM TelegramTyped == Spec => []TypeOK
<1>1. TelegramInv => TypeOK
    BY InvTyped DEF TelegramInv
<1> QED
    BY <1>1, TelegramInvariant, PTL

\* A call whose message says Success, or of which a record is marked as submitted, has been
\* executed, though the record may by now hold another operation of the call.
THEOREM ToldTheTruth == Spec => []ToldTruly
<1>1. TelegramInv => ToldTruly
    BY RecordInvImplies DEF TelegramInv
<1> QED
    BY <1>1, TelegramInvariant, PTL
=============================================================================
