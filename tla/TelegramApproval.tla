-------------------------- MODULE TelegramApproval --------------------------
(***************************************************************************)
(* The path of a blocked transaction through Telegram: the agent shows     *)
(* Approve and Decline buttons in the owner's chat, a callback handler     *)
(* submits the one-time approval to RiskGuardApprovalStore and relays the  *)
(* UserOperation the app has stored, and the chain executes it.            *)
(*                                                                         *)
(* Rules of the abstraction:                                               *)
(*  - a handler runs from one await on shared state to the next in one     *)
(*    step; callbacks come from the poller and the API, so several         *)
(*    handlers may run at once, and a callback may be delivered again;     *)
(*  - nonces and the audit log live in memory, stored UserOperations in a  *)
(*    database that outlives a restart, approvals on the chain;            *)
(*  - one smart account, whose agent key and validator are registered;     *)
(*  - an operation passes the validator with a valid approval; what the    *)
(*    policy lets through or the agent review approved does not come here. *)
(***************************************************************************)
EXTENDS RiskGuardApprovalStore, FiniteSets, Lists

CONSTANTS
    Account, Agent, Validator,
    Chats, NoChat,
    Handlers,           \* callbacks handled at a time
    UserOps, NoOp,      \* signed UserOperations
    CallOf,             \* what each is to execute
    ButtonTtl,          \* life of a button's nonce
    MaxButtons          \* bound

ASSUME TelegramAssumption ==
    /\ Account \in Accounts /\ Agent \in Agents /\ Validator \in Hooks
    /\ NoChat \notin Chats /\ NoOp \notin UserOps
    /\ CallOf \in [UserOps -> Calls]
    /\ ButtonTtl \in Nat \ {0} /\ MaxButtons \in Nat

VARIABLES
    chat,               \* the chat bound to the owner's wallet
    buttons,            \* every button ever made: what its nonce stands for
    liveNonces, consumedNonces,
    messageChat,        \* where a call's message is, as the audit log knows it
    status,             \* what the last edit of a call's message says
    unstored,           \* signed by the app, and neither sent nor stored yet
    pendingUserOps, storing,
    pc, pressed, held,  \* of a handler: its next step, its button, its record
    mempool, executed,
    submissions         \* history: approvals submitted for each button

telegramVars == <<chat, buttons, liveNonces, consumedNonces, messageChat, status>>
userOpVars == <<unstored, pendingUserOps, storing>>
handlerVars == <<pc, pressed, held>>
chainVars == <<now, storeVars, mempool, executed>>
vars == <<telegramVars, userOpVars, handlerVars, chainVars, submissions>>

ButtonId == 1 .. MaxButtons
\* chat: the one bound when the button was made; shownIn: the one whose message has it.
Button == [action : {"Approve", "Decline"}, call : Calls, chat : Chats, shownIn : Chats,
           expiresAt : Nat]
\* "Failed" stands for an expired request too.
Statuses == {"Open", "Success", "Failed", "Rejected"}
PendingUserOp == [id : UserOps, op : UserOps, status : {"pending", "submitted", "failed"}]
Upsert == [id : UserOps, op : UserOps]
NoRecord == [id |-> NoOp, op |-> NoOp]
Steps == {"idle", "verified", "declining", "submitting", "replaying", "relaying", "waiting",
          "marking", "failing"}

TypeOK ==
    /\ StoreTypeOK
    /\ chat \in Chats \cup {NoChat}
    /\ buttons \in Seq(Button) /\ Len(buttons) <= MaxButtons
    /\ consumedNonces \subseteq liveNonces /\ liveNonces \subseteq 1 .. Len(buttons)
    /\ messageChat \in [Calls -> Chats \cup {NoChat}] /\ status \in [Calls -> Statuses]
    /\ unstored \subseteq UserOps /\ storing \subseteq Upsert
    /\ pendingUserOps \in Seq(PendingUserOp)
    /\ pc \in [Handlers -> Steps] /\ pressed \in [Handlers -> ButtonId \cup {0}]
    /\ held \in [Handlers -> Upsert \cup {NoRecord}]
    /\ mempool \subseteq UserOps /\ executed \subseteq UserOps
    /\ submissions \in [ButtonId -> Nat]

Init ==
    /\ now = 0
    /\ pendingApprovals = [a \in Accounts |-> NoApproval]
    /\ registeredAgent = [a \in Accounts |-> Agent]
    /\ registeredHook = [a \in Accounts |-> Validator]
    /\ chat \in Chats
    /\ buttons = <<>> /\ liveNonces = {} /\ consumedNonces = {}
    /\ messageChat = [c \in Calls |-> NoChat] /\ status = [c \in Calls |-> "Open"]
    /\ unstored = UserOps /\ pendingUserOps = <<>> /\ storing = {}
    /\ pc = [h \in Handlers |-> "idle"] /\ pressed = [h \in Handlers |-> 0]
    /\ held = [h \in Handlers |-> NoRecord]
    /\ mempool = {} /\ executed = {}
    /\ submissions = [n \in ButtonId |-> 0]

-----------------------------------------------------------------------------
(* The chat and its messages. *)

LinkChat(k) ==
    /\ chat' = k
    /\ UNCHANGED <<buttons, liveNonces, consumedNonces, messageChat, status, userOpVars,
                   handlerVars, chainVars, submissions>>

\* Mutant: only the message on record is looked at.
RecordedChat(c) == messageChat[c]

\* The message on record is edited where it is; without one, a new message is sent.
TargetChat(c) == IF messageChat[c] # NoChat THEN messageChat[c] ELSE chat

\* A review has been requested: the message says so, and has no buttons.
NotifyReview(c) ==
    /\ chat # NoChat
    /\ messageChat' = [messageChat EXCEPT ![c] = TargetChat(c)]
    /\ status' = [status EXCEPT ![c] = "Open"]
    /\ UNCHANGED <<chat, buttons, liveNonces, consumedNonces, userOpVars, handlerVars, chainVars,
                   submissions>>

\* A review's decision, or a pending approval.  Buttons that reach no chat cannot be
\* pressed, so a failed delivery is no action.
AskApproval(c) ==
    LET n == Len(buttons)
        New(action) == [action |-> action, call |-> c, chat |-> chat, shownIn |-> TargetChat(c),
                        expiresAt |-> now + ButtonTtl]
    IN
    /\ chat # NoChat
    /\ n + 2 <= MaxButtons
    /\ buttons' = Append(Append(buttons, New("Approve")), New("Decline"))
    /\ liveNonces' = liveNonces \cup {n + 1, n + 2}
    /\ messageChat' = [messageChat EXCEPT ![c] = TargetChat(c)]
    /\ status' = [status EXCEPT ![c] = "Open"]
    /\ UNCHANGED <<chat, consumedNonces, userOpVars, handlerVars, chainVars, submissions>>

-----------------------------------------------------------------------------
(* Stored UserOperations. *)

RecordsOf(c) == Filter(pendingUserOps, {r \in PendingUserOp : CallOf[r.op] = c})

\* An operation that was blocked is stored once.  The upsert looks for a record of the
\* same call first, and writes later.
BeginUpsert(o) ==
    LET existing == RecordsOf(CallOf[o]) IN
    /\ o \in unstored
    /\ unstored' = unstored \ {o}
    /\ storing' = storing \cup {[op |-> o, id |-> IF existing = <<>> THEN o ELSE existing[1].id]}
    /\ UNCHANGED <<telegramVars, pendingUserOps, handlerVars, chainVars, submissions>>

EndUpsert(u) ==
    /\ storing' = storing \ {u}
    /\ pendingUserOps' = Append(Filter(pendingUserOps, {r \in PendingUserOp : r.id # u.id}),
                                [id |-> u.id, op |-> u.op, status |-> "pending"])
    /\ UNCHANGED <<telegramVars, unstored, handlerVars, chainVars, submissions>>

WithStatus(id, s) ==
    [i \in DOMAIN pendingUserOps |->
        IF pendingUserOps[i].id = id THEN [pendingUserOps[i] EXCEPT !.status = s]
        ELSE pendingUserOps[i]]

-----------------------------------------------------------------------------
(* Callbacks. *)

ButtonOf(h) == buttons[pressed[h]]
CallAt(h) == ButtonOf(h).call

GoTo(h, step) ==
    /\ pc' = [pc EXCEPT ![h] = step]
    /\ UNCHANGED <<pressed, held, telegramVars>>

Rest(h) ==
    /\ pc' = [pc EXCEPT ![h] = "idle"]
    /\ pressed' = [pressed EXCEPT ![h] = 0]
    /\ held' = [held EXCEPT ![h] = NoRecord]

\* The handler is done, and the message says how it went.
Finish(h, s) ==
    /\ Rest(h)
    /\ status' = [status EXCEPT ![CallAt(h)] = s]
    /\ UNCHANGED <<chat, buttons, liveNonces, consumedNonces, messageChat>>

\* A callback comes from the chat that shows the button, for the first time or again.
ReceiveCallback(h, n) ==
    /\ pc[h] = "idle"
    /\ n \in liveNonces
    /\ buttons[n].chat = buttons[n].shownIn
    /\ chat = buttons[n].chat
    /\ pc' = [pc EXCEPT ![h] = "verified"]
    /\ pressed' = [pressed EXCEPT ![h] = n]
    /\ UNCHANGED <<held, telegramVars, userOpVars, chainVars, submissions>>

\* Mutant: a nonce on record is good.
ConsumableAnyway(n) == n \in liveNonces

Consumable(n) == n \notin consumedNonces

\* consumeOnce is reached after the binding has been read; what others did meanwhile
\* counts.
ConsumeOnce(h) ==
    LET n == pressed[h] IN
    /\ pc[h] = "verified"
    /\ \/ /\ ~Consumable(n)
          /\ Rest(h)
          /\ UNCHANGED telegramVars
       \/ /\ Consumable(n) /\ buttons[n].expiresAt <= now
          /\ Finish(h, "Failed")
       \/ /\ Consumable(n) /\ buttons[n].expiresAt > now
          /\ consumedNonces' = consumedNonces \cup {n}
          /\ pc' = [pc EXCEPT ![h] =
                IF buttons[n].action = "Approve" THEN "submitting" ELSE "declining"]
          /\ status' = [status EXCEPT ![CallAt(h)] =
                IF buttons[n].action = "Approve" THEN "Open" ELSE @]
          /\ UNCHANGED <<pressed, held, chat, buttons, liveNonces, messageChat>>
    /\ UNCHANGED <<userOpVars, chainVars, submissions>>

Decline(h) ==
    /\ pc[h] = "declining"
    /\ Finish(h, "Rejected")
    /\ UNCHANGED <<userOpVars, chainVars, submissions>>

\* submitApproval: the transaction is mined, or refused, or mined without the handler
\* learning of it.
Submit(h) ==
    /\ pc[h] = "submitting"
    /\ \/ /\ SubmitApproval(Agent, Account, CallAt(h))
          /\ submissions' = [submissions EXCEPT ![pressed[h]] = @ + 1]
          /\ GoTo(h, "replaying") \/ Finish(h, "Failed")
       \/ /\ Finish(h, "Failed")
          /\ UNCHANGED <<storeVars, submissions>>
    /\ UNCHANGED <<userOpVars, now, mempool, executed>>

\* replayApproved takes the last pending record of the call, if there is one and the store
\* answers.
FindPending(h) ==
    LET pending == Filter(RecordsOf(CallAt(h)), {r \in PendingUserOp : r.status = "pending"})
        last == pending[Len(pending)]
    IN
    /\ pc[h] = "replaying"
    /\ \/ Finish(h, "Failed")
       \/ pending = <<>> /\ Finish(h, "Open")
       \/ /\ pending # <<>>
          /\ pc' = [pc EXCEPT ![h] = "relaying"]
          /\ held' = [held EXCEPT ![h] = [id |-> last.id, op |-> last.op]]
          /\ UNCHANGED <<pressed, telegramVars>>
    /\ UNCHANGED <<userOpVars, chainVars, submissions>>

\* What the bundler's simulation, and later the entry point, accept.
Passes(o) == o \notin executed /\ HasValidApproval(Account, CallOf[o])

\* bundleUserOp: accepted, accepted without the handler learning of it, or refused.
Relay(h) ==
    LET o == held[h].op IN
    /\ pc[h] = "relaying"
    /\ \/ /\ Passes(o)
          /\ mempool' = mempool \cup {o}
          /\ GoTo(h, "waiting") \/ GoTo(h, "failing")
       \/ GoTo(h, "failing") /\ UNCHANGED mempool
    /\ UNCHANGED <<userOpVars, now, storeVars, executed, submissions>>

\* Mutant: the operation counts as executed once the bundler has it.
ReceiptAtOnce(o) == o \in mempool \cup executed

HasReceipt(o) == o \in executed

\* waitForUserOpReceipt gives up after a while.
AwaitReceipt(h) ==
    /\ pc[h] = "waiting"
    /\ (HasReceipt(held[h].op) /\ GoTo(h, "marking")) \/ GoTo(h, "failing")
    /\ UNCHANGED <<userOpVars, chainVars, submissions>>

\* markSubmitted finds the record by its id; it may fail, done or not.
MarkSubmitted(h) ==
    /\ pc[h] = "marking"
    /\ \/ pendingUserOps' = WithStatus(held[h].id, "submitted") /\ Finish(h, "Success")
       \/ /\ pendingUserOps' \in {pendingUserOps, WithStatus(held[h].id, "submitted")}
          /\ GoTo(h, "failing")
    /\ UNCHANGED <<unstored, storing, chainVars, submissions>>

MarkFailed(h) ==
    /\ pc[h] = "failing"
    /\ pendingUserOps' \in {pendingUserOps, WithStatus(held[h].id, "failed")}
    /\ Finish(h, "Failed")
    /\ UNCHANGED <<unstored, storing, chainVars, submissions>>

\* What is in memory is lost; the chain and the stored UserOperations are not.
Restart ==
    /\ liveNonces' = {} /\ consumedNonces' = {}
    /\ messageChat' = [c \in Calls |-> NoChat]
    /\ pc' = [h \in Handlers |-> "idle"] /\ pressed' = [h \in Handlers |-> 0]
    /\ held' = [h \in Handlers |-> NoRecord]
    /\ storing' = {}
    /\ UNCHANGED <<chat, buttons, status, unstored, pendingUserOps, chainVars, submissions>>

-----------------------------------------------------------------------------
(* The chain. *)

\* The app tries to send an operation first; only one that is blocked gets stored.
SendUserOp(o) ==
    /\ o \in unstored /\ Passes(o)
    /\ unstored' = unstored \ {o}
    /\ mempool' = mempool \cup {o}
    /\ UNCHANGED <<telegramVars, pendingUserOps, storing, handlerVars, now, storeVars, executed,
                   submissions>>

\* The entry point: the validator consumes the approval, the account's nonce is used.
ExecuteUserOp(o) ==
    /\ o \in mempool /\ Passes(o)
    /\ ConsumeApproval(Validator, Account, CallOf[o])
    /\ executed' = executed \cup {o}
    /\ mempool' = mempool \ {o}
    /\ UNCHANGED <<telegramVars, userOpVars, handlerVars, now, submissions>>

DropUserOp(o) ==
    /\ o \in mempool
    /\ mempool' = mempool \ {o}
    /\ UNCHANGED <<telegramVars, userOpVars, handlerVars, now, storeVars, executed, submissions>>

Tick ==
    /\ now < MaxTime
    /\ now' = now + 1
    /\ UNCHANGED <<telegramVars, userOpVars, handlerVars, storeVars, mempool, executed,
                   submissions>>

-----------------------------------------------------------------------------

AppStep ==
    \/ \E k \in Chats \cup {NoChat} : LinkChat(k)
    \/ \E c \in Calls : NotifyReview(c) \/ AskApproval(c)
    \/ \E o \in UserOps : BeginUpsert(o)
    \/ \E u \in storing : EndUpsert(u)

HandlerStep ==
    \E h \in Handlers :
        \/ \E n \in ButtonId : ReceiveCallback(h, n)
        \/ ConsumeOnce(h) \/ Decline(h) \/ Submit(h) \/ FindPending(h) \/ Relay(h)
        \/ AwaitReceipt(h) \/ MarkSubmitted(h) \/ MarkFailed(h)

ChainStep == Tick \/ \E o \in UserOps : SendUserOp(o) \/ ExecuteUserOp(o) \/ DropUserOp(o)

Next == AppStep \/ HandlerStep \/ ChainStep \/ Restart

Spec == Init /\ [][Next]_vars

-----------------------------------------------------------------------------
(* Properties. *)

\* A button is worth one approval, however often its callback comes and however many
\* handlers take it at once, and a Decline is worth none.
OneSubmissionPerButton ==
    \A n \in ButtonId :
        submissions[n] <= IF n <= Len(buttons) /\ buttons[n].action = "Approve" THEN 1 ELSE 0

ExecutionsOf(c) == {o \in executed : CallOf[o] = c}

ApprovalsOf(c) == {n \in ButtonId : submissions[n] > 0 /\ buttons[n].call = c}

\* The account executes a blocked call, and is ready to execute it, no more often than
\* the owner pressed Approve: not after retries, duplicates, lost answers or restarts.
ExecutionsAreApproved ==
    \A c \in Calls :
        Cardinality(ExecutionsOf(c)) + (IF pendingApprovals[Account].call = c THEN 1 ELSE 0)
            <= Cardinality(ApprovalsOf(c))

\* A message that says Success, and a record marked as submitted, is about a call that
\* has been executed.  This is said of the call: the record may by then hold another
\* operation of it, which was never sent.
ToldTruly ==
    \A c \in Calls :
        (\/ status[c] = "Success"
         \/ \E i \in 1 .. Len(pendingUserOps) :
               CallOf[pendingUserOps[i].op] = c /\ pendingUserOps[i].status = "submitted")
        => ExecutionsOf(c) # {}
=============================================================================
