------------------------------- MODULE Pacing -------------------------------
(***************************************************************************)
(* One connection in time (connection.rs, state.rs, transport.rs): the     *)
(* deadline for registering, the idle timeout, the limit on the messages   *)
(* it sends (MessageRateLimiter) and the budget for what is sent to it     *)
(* (OutboundBudget).                                                       *)
(*                                                                         *)
(* What its messages do to the lobbies is in Lobby and Relay.  Time is in  *)
(* ticks.  The runtime is prompt: time does not pass while the task has    *)
(* something to do, but a handler may take time of its own (a slow send,   *)
(* the probe of a node).                                                   *)
(***************************************************************************)
EXTENDS Windows

CONSTANTS
  RegistrationTimeout,  \* REGISTRATION_TIMEOUT_SECS
  IdleTimeout,          \* REGISTERED_IDLE_TIMEOUT_SECS
  RateWindow,           \* MESSAGE_RATE_WINDOW_SECS
  MaxMessages,          \* MAX_MESSAGES_PER_WINDOW
  BudgetWindow,         \* OUTBOUND_BUDGET_WINDOW_SECS
  MaxFrames,            \* MAX_OUTBOUND_FRAMES_PER_WINDOW
  MaxBytes,             \* MAX_OUTBOUND_BYTES_PER_WINDOW
  Sizes,                \* bytes of outbound messages
  ChallengeBytes,       \* bytes of the challenge
  MaxReady,             \* bound on the messages waiting in the socket
  MaxHandling           \* bound on the time one handler takes

ASSUME PacingAssumption ==
  /\ {RegistrationTimeout, IdleTimeout, RateWindow, MaxMessages, BudgetWindow,
      MaxFrames, MaxBytes, MaxReady} \subseteq Nat \ {0}
  /\ Sizes \subseteq Nat
  /\ ChallengeBytes \in 0..MaxBytes
  /\ MaxHandling \in Nat

VARIABLES
  pace,       \* "reading", "handling" or "gone"
  registered,  \* is_registered
  told,        \* the disconnect watch holds true
  ready,       \* messages waiting to be read
  opened,      \* time since the loop began, up to RegistrationTimeout + 1
  waited,      \* time since the read began, or the handler, up to LongestWait
  limiter,     \* MessageRateLimiter: age of the window, messages in it
  budget,      \* OutboundBudget: age of the window, frames and bytes in it
  handled,     \* messages let through, by age
  sent,        \* frames and bytes let through, by age
  arrived      \* time since a message last arrived, up to IdleTimeout

timers == <<opened, waited>>
pacing_vars == <<pace, registered, told, ready, timers, limiter, budget, handled, sent, arrived>>

RateAges == 0..(RateWindow - 1)
BudgetAges == 0..(BudgetWindow - 1)
LongestWait == RegistrationTimeout + IdleTimeout + MaxHandling

\* One type invariant.
PacingTypeOK ==
  /\ pace \in {"reading", "handling", "gone"}
  /\ registered \in BOOLEAN
  /\ told \in BOOLEAN
  /\ ready \in 0..MaxReady
  /\ opened \in 0..(RegistrationTimeout + 1)
  /\ waited \in 0..LongestWait
  /\ limiter \in [age : 0..RateWindow, messages : 0..MaxMessages]
  /\ budget \in [age : 0..BudgetWindow, frames : 0..MaxFrames, bytes : 0..MaxBytes]
  /\ handled \in [RateAges -> Nat]
  /\ sent \in [BudgetAges -> [frames : Nat, bytes : Nat]]
  /\ arrived \in 0..IdleTimeout

NewLimiter == [age |-> 0, messages |-> 0]
NewBudget == [age |-> 0, frames |-> 0, bytes |-> 0]
NothingSent == [frames |-> 0, bytes |-> 0]

\* The challenge has gone out, and is the first to count.
PacingInit ==
  /\ pace = "reading"
  /\ registered = FALSE
  /\ told = FALSE
  /\ ready = 0
  /\ opened = 0
  /\ waited = 0
  /\ limiter = NewLimiter
  /\ budget = [age |-> 0, frames |-> 1, bytes |-> ChallengeBytes]
  /\ handled = [a \in RateAges |-> 0]
  /\ sent = [a \in BudgetAges |->
       IF a = 0 THEN [frames |-> 1, bytes |-> ChallengeBytes] ELSE NothingSent]
  /\ arrived = 0

-----------------------------------------------------------------------------
\* The limiter as allow() finds it, in a new window once the old one is over.
CurrentLimiter == IF limiter.age >= RateWindow THEN NewLimiter ELSE limiter

MayHandle == CurrentLimiter.messages < MaxMessages

\* MUTANT of CurrentBudget: the bytes of the old window still count.
BudgetKeepingBytes ==
  IF budget.age >= BudgetWindow THEN [NewBudget EXCEPT !.bytes = budget.bytes] ELSE budget

\* MUTANT of CurrentBudget: the length of the window is not looked at.
BudgetOfThisTick == IF budget.age > 0 THEN NewBudget ELSE budget

CurrentBudget == IF budget.age >= BudgetWindow THEN NewBudget ELSE budget

MaySend(n) ==
  /\ n <= MaxBytes
  /\ CurrentBudget.frames < MaxFrames
  /\ CurrentBudget.bytes + n <= MaxBytes

-----------------------------------------------------------------------------
\* The peer sends a message, and the socket has room.
PeerSends ==
  /\ pace # "gone" /\ ready < MaxReady
  /\ ready' = ready + 1
  /\ arrived' = 0
  /\ UNCHANGED <<pace, registered, told, timers, limiter, budget, handled, sent>>

End ==
  /\ pace' = "gone"
  /\ UNCHANGED <<registered, told, ready, timers, limiter, budget, handled, sent, arrived>>

\* read.next() has a message: it is counted and handled.  A timeout that is due
\* at the same moment gives way.
Read ==
  /\ pace = "reading" /\ ready > 0
  /\ MayHandle
  /\ pace' = "handling"
  /\ waited' = 0
  /\ ready' = ready - 1
  /\ limiter' = [CurrentLimiter EXCEPT !.messages = @ + 1]
  /\ handled' = [handled EXCEPT ![0] = @ + 1]
  /\ UNCHANGED <<registered, told, opened, budget, sent, arrived>>

\* Too many messages: a close frame, as far as the budget allows, and the end.
OverRate ==
  /\ pace = "reading" /\ ready > 0
  /\ ~MayHandle
  /\ End

\* The handler of a message returns to the loop; registration may have succeeded.
Handled(registers) ==
  /\ pace = "handling"
  /\ registers => ~registered
  /\ pace' = "reading"
  /\ registered' = (registered \/ registers)
  /\ waited' = 0
  /\ UNCHANGED <<told, ready, opened, limiter, budget, handled, sent, arrived>>

\* Leave, a refused registration, a message that needs a registration: break.
HandlerBreaks == pace = "handling" /\ End

\* The stream ends.
PeerCloses == pace = "reading" /\ ready = 0 /\ End

DeadlineDue == opened >= RegistrationTimeout

MissesDeadline ==
  /\ pace = "reading" /\ ~registered
  /\ ready = 0 /\ DeadlineDue
  /\ End

IdleDue == waited >= IdleTimeout

IsIdle ==
  /\ pace = "reading" /\ registered
  /\ ready = 0 /\ IdleDue
  /\ End

\* The disconnect branch of the select!.
Disconnected == pace = "reading" /\ registered /\ told /\ End

-----------------------------------------------------------------------------
\* MUTANT of Sends: what is sent to a client counts as a sign of life from it.
SendsProlonging(n) ==
  /\ pace = "handling" \/ (registered /\ pace # "gone")
  /\ MaySend(n)
  /\ budget' = [CurrentBudget EXCEPT !.frames = @ + 1, !.bytes = @ + n]
  /\ sent' = [sent EXCEPT ![0] = [frames |-> @.frames + 1, bytes |-> @.bytes + n]]
  /\ waited' = 0
  /\ UNCHANGED <<pace, registered, told, ready, opened, limiter, handled, arrived>>

\* send_message to this client: its own handler replies, or, once it is a member,
\* another task sends to it.
Sends(n) ==
  /\ pace = "handling" \/ (registered /\ pace # "gone")
  /\ MaySend(n)
  /\ budget' = [CurrentBudget EXCEPT !.frames = @ + 1, !.bytes = @ + n]
  /\ sent' = [sent EXCEPT ![0] = [frames |-> @.frames + 1, bytes |-> @.bytes + n]]
  /\ UNCHANGED <<pace, registered, told, ready, timers, limiter, handled, arrived>>

\* A reply over the budget is dropped.
ReplyDropped(n) ==
  /\ pace = "handling"
  /\ ~MaySend(n)
  /\ budget' = CurrentBudget
  /\ UNCHANGED <<pace, registered, told, ready, timers, limiter, handled, sent, arrived>>

\* Another task's message over the budget ends the connection.
SendRefused(n) ==
  /\ registered /\ pace # "gone" /\ ~told
  /\ ~MaySend(n)
  /\ budget' = CurrentBudget
  /\ told' = TRUE
  /\ UNCHANGED <<pace, registered, ready, timers, limiter, handled, sent, arrived>>

-----------------------------------------------------------------------------
Capped(n, max) == IF n < max THEN n + 1 ELSE max

\* The task waits for a message or for its handler.
Waits ==
  \/ pace = "handling" /\ waited < MaxHandling
  \/ /\ pace = "reading" /\ ready = 0
     /\ registered => ~told /\ ~IdleDue
     /\ ~registered => ~DeadlineDue

Tick ==
  /\ Waits
  /\ opened' = Capped(opened, RegistrationTimeout + 1)
  /\ waited' = Capped(waited, LongestWait)
  /\ limiter' = [limiter EXCEPT !.age = Capped(@, RateWindow)]
  /\ budget' = [budget EXCEPT !.age = Capped(@, BudgetWindow)]
  /\ handled' = ATickLater(handled)
  /\ sent' = [a \in BudgetAges |-> IF a = 0 THEN NothingSent ELSE sent[a - 1]]
  /\ arrived' = Capped(arrived, IdleTimeout)
  /\ UNCHANGED <<pace, registered, told, ready>>

\* What the task does by itself, other tasks and the peer apart.
TaskStep ==
  \/ Read \/ OverRate \/ MissesDeadline \/ IsIdle \/ Disconnected
  \/ HandlerBreaks \/ \E r \in BOOLEAN : Handled(r)

PacingNext ==
  \/ TaskStep \/ PeerSends \/ PeerCloses \/ Tick
  \/ \E n \in Sizes : Sends(n) \/ ReplyDropped(n) \/ SendRefused(n)

PacingSpec == PacingInit /\ [][PacingNext]_pacing_vars

\* The runtime polls a task that can go on, and time goes on.
FairPacing == PacingSpec /\ WF_pacing_vars(TaskStep) /\ WF_pacing_vars(Tick)

-----------------------------------------------------------------------------
FramesSent == SumTo([a \in BudgetAges |-> sent[a].frames], BudgetWindow - 1)
BytesSent == SumTo([a \in BudgetAges |-> sent[a].bytes], BudgetWindow - 1)

\* In no stretch of RateWindow ticks are more than two windows' messages handled.
RateHolds == SumTo(handled, RateWindow - 1) <= 2 * MaxMessages

\* In no stretch of BudgetWindow ticks is a client sent more than two budgets.
BudgetHolds == FramesSent <= 2 * MaxFrames /\ BytesSent <= 2 * MaxBytes

\* Both, with the types.
WindowsHold == PacingTypeOK /\ RateHolds /\ BudgetHolds

\* A client loses its connection to the budget only for what was sent to it just
\* now (as many frames as a window has, more bytes, or a message that is too
\* long), to the rate only if it has just sent that many messages, and to the
\* idle timeout only after a pause that long.
ClosedForCause ==
  [][/\ \A n \in Sizes : SendRefused(n) =>
          FramesSent >= MaxFrames \/ BytesSent + n > MaxBytes
     /\ OverRate => SumTo(handled, RateWindow - 1) >= MaxMessages
     /\ IsIdle => arrived >= IdleTimeout]_pacing_vars

\* A client that falls silent, registered or not, loses its connection, whatever
\* others keep sending to it and however long its last handlers take (the timeouts
\* of the loop, connection.rs 178-206).
SilentAreReclaimed == <>[](ready = 0) => <>(pace = "gone")

\* What the README (line 149) and the test of the absolute deadline say: a connection
\* that does not register is reclaimed after the timeout, whatever it sends.  The
\* deadline is absolute, but timeout_at polls the read first and a message that is
\* ready goes before it; and if handlers are slow enough (a reply to a peer that
\* does not read takes up to SEND_TIMEOUT) the rate limit does not run out either.
UnregisteredAreReclaimed == (~registered) ~> (registered \/ pace = "gone")
=============================================================================
