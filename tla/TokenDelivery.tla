---------------------------- MODULE TokenDelivery ----------------------------
(***************************************************************************)
(* The chat token of a lobby: its rotation on every change of membership,  *)
(* and the notifications that carry it to the members' sockets.            *)
(*                                                                         *)
(* The token is rotated inside the critical section that changes the       *)
(* membership (a step of Membership), together with a snapshot of the      *)
(* sockets to notify.  The task that made the change then checks, under a  *)
(* read lock, that its token is still the one in force, and sends outside  *)
(* any lock, one socket at a time, while other tasks do the same.          *)
(***************************************************************************)
EXTENDS Membership, Naturals

CONSTANT Lost  \* what a socket has when its RegisterSuccess was lost

VARIABLES
  token,   \* lobby -> chat token in force, or None if the lobby does not exist
  births,  \* lobby -> how many times it was created
  step,    \* connection -> where its task stands
  job,     \* connection -> the notification its task carries, or None
  newest,  \* connection -> newest token that reached its peer, None before
           \* RegisterSuccess, Lost if that was lost and none came since
  told     \* the connections whose disconnect watch holds true

vars == <<membership, token, births, step, job, newest, told>>

\* generate_chat_token never repeats a value: a token is identified by the
\* creation of the lobby and chat_token_epoch.
Token == [lobby_id : LobbyIds, birth : Nat, epoch : Nat \ {0}]

(***************************************************************************)
(* idle -> committed (handle_v3 after the lock) -> welcoming (checked, to  *)
(* send RegisterSuccess) -> rotating (to call send_chat_token_rotation) -> *)
(* sending (its sends) -> live (in the loop); kicking: kick_player after   *)
(* the lock; leaving: out of the loop; gone: returned.                     *)
(***************************************************************************)
Steps == {"idle", "committed", "welcoming", "rotating", "sending", "live",
          "kicking", "leaving", "gone"}

\* A notification: the token, the sockets to notify, the kicked socket to
\* signal first, and where the task goes on.
Job == [token : Token, targets : SUBSET Conns, victim : Conns \cup {None},
        after : {"live", "gone"}]

\* What the values for what is absent are not.
ASSUME AbsentAssumption == None \notin Token \cup Job /\ Lost \notin Token \cup {None}

IdsIn(l) == {id \in ClientIds : member[id] # None /\ member[id].lobby_id = l}

\* The sockets of the members of lobby l other than id.
OtherSockets(l, id) == {member[i].sender : i \in IdsIn(l) \ {id}}

Sockets(l) == {member[i].sender : i \in IdsIn(l)}

\* The client ids whose session is on socket c: one or none.
IdsOn(c) == {id \in ClientIds : member[id] # None /\ member[id].sender = c}

\* MUTANT of Rotated: the token stays.
Unrotated(t) == t

\* rotate_chat_token
Rotated(t) == [t EXCEPT !.epoch = @ + 1]

NewToken(l) == [lobby_id |-> l, birth |-> births[l] + 1, epoch |-> 1]

GoTo(c, s) == step' = [step EXCEPT ![c] = s]

\* Token t was made after token u of the same lobby.
Newer(t, u) == t.birth > u.birth \/ (t.birth = u.birth /\ t.epoch > u.epoch)

\* Token t reaches the peer of socket d.
Reaches(d, t) ==
  newest' = [newest EXCEPT ![d] =
               IF @ \in {None, Lost} THEN t ELSE IF Newer(t, @) THEN t ELSE @]

-----------------------------------------------------------------------------
\* handle_v3

\* The commit: a lobby with members gets a new token, for them to be told of;
\* the socket a reconnect replaces is signalled.
Join(c, id, l, g) ==
  LET t == IF token[l] = None THEN NewToken(l) ELSE Rotated(token[l])
  IN  /\ step[c] = "idle"
      /\ Enter(c, id, l, g)
      /\ token' = [token EXCEPT ![l] = t]
      /\ births' = [births EXCEPT ![l] = t.birth]
      /\ told' = IF member[id] = None THEN told ELSE told \cup {member[id].sender}
      /\ job' = [job EXCEPT ![c] = [token |-> t, targets |-> OtherSockets(l, id),
                                    victim |-> None, after |-> "live"]]
      /\ GoTo(c, "committed")
      /\ UNCHANGED newest

\* After the lock: a session that is no longer current gets no token.
CheckCommit(c) ==
  /\ step[c] = "committed"
  /\ IF c \in told \/ IdsOn(c) = {}
     THEN GoTo(c, "leaving") /\ job' = [job EXCEPT ![c] = None]
     ELSE GoTo(c, "welcoming") /\ UNCHANGED job
  /\ UNCHANGED <<membership, token, births, newest, told>>

\* MUTANT of Welcomed: the other members are not told of the new token.
WelcomedSilently(c) == GoTo(c, "live") /\ job' = [job EXCEPT ![c] = None]

\* After its RegisterSuccess a task notifies the others, if there were any.
Welcomed(c) ==
  IF job[c].targets = {}
  THEN GoTo(c, "live") /\ job' = [job EXCEPT ![c] = None]
  ELSE GoTo(c, "rotating") /\ UNCHANGED job

\* RegisterSuccess carries the token of the commit, whatever is in force now.
SendWelcome(c) ==
  /\ step[c] = "welcoming"
  /\ Reaches(c, job[c].token)
  /\ Welcomed(c)
  /\ UNCHANGED <<membership, token, births, told>>

\* send_response ignores that the send failed: the session goes on without.
LoseWelcome(c) ==
  /\ step[c] = "welcoming"
  /\ newest' = [newest EXCEPT ![c] = IF @ = None THEN Lost ELSE @]
  /\ Welcomed(c)
  /\ UNCHANGED <<membership, token, births, told>>

-----------------------------------------------------------------------------
\* Departures

\* kick_player, by the current session of the lobby's host (any member may be).
Kick(c, id) ==
  LET l == member[id].lobby_id
  IN  /\ step[c] = "live"
      /\ member[id] # None
      /\ c \in OtherSockets(l, id)
      /\ token' = [token EXCEPT ![l] = Rotated(@)]
      /\ job' = [job EXCEPT ![c] = [token |-> Rotated(token[l]),
                                    targets |-> OtherSockets(l, id),
                                    victim |-> member[id].sender, after |-> "live"]]
      /\ Depart(id)
      /\ GoTo(c, "kicking")
      /\ UNCHANGED <<births, newest, told>>

SignalKicked(c) ==
  /\ step[c] = "kicking"
  /\ told' = told \cup {job[c].victim}
  /\ GoTo(c, "rotating")
  /\ UNCHANGED <<membership, token, births, job, newest>>

\* The loop ends: the peer is gone, misbehaves or is silent, or the disconnect
\* watch was set.
EndLoop(c) ==
  /\ step[c] = "live"
  /\ GoTo(c, "leaving")
  /\ UNCHANGED <<membership, token, births, job, newest, told>>

\* Cleanup of the session that is still this socket's: the lobby is deleted
\* with its token, or the remaining members are to be told of a new one.
Leave(c, id) ==
  LET l == member[id].lobby_id
      rest == OtherSockets(l, id)
  IN  /\ step[c] = "leaving"
      /\ id \in IdsOn(c)
      /\ Depart(id)
      /\ IF rest = {}
         THEN /\ token' = [token EXCEPT ![l] = None]
              /\ GoTo(c, "gone")
              /\ UNCHANGED job
         ELSE /\ token' = [token EXCEPT ![l] = Rotated(@)]
              /\ job' = [job EXCEPT ![c] = [token |-> Rotated(token[l]), targets |-> rest,
                                            victim |-> None, after |-> "gone"]]
              /\ GoTo(c, "rotating")
      /\ UNCHANGED <<births, newest, told>>

LeaveReplaced(c) ==
  /\ step[c] = "leaving"
  /\ IdsOn(c) = {}
  /\ GoTo(c, "gone")
  /\ UNCHANGED <<membership, token, births, job, newest, told>>

-----------------------------------------------------------------------------
\* send_chat_token_rotation

Finish(c) ==
  /\ GoTo(c, job[c].after)
  /\ job' = [job EXCEPT ![c] = None]

\* Under the read lock: a token that is no longer in force is not sent, and of
\* the targets those whose record is still theirs are kept.
CheckRotation(c) ==
  LET t == job[c].token
  IN  /\ step[c] = "rotating"
      /\ IF token[t.lobby_id] = t
         THEN /\ job' = [job EXCEPT ![c].targets = @ \cap Sockets(t.lobby_id)]
              /\ GoTo(c, "sending")
         ELSE Finish(c)
      /\ UNCHANGED <<membership, token, births, newest, told>>

\* One of the concurrent sends, outside the lock, gets through.
Deliver(c, d) ==
  /\ step[c] = "sending"
  /\ d \in job[c].targets
  /\ Reaches(d, job[c].token)
  /\ job' = [job EXCEPT ![c].targets = @ \ {d}]
  /\ UNCHANGED <<membership, token, births, step, told>>

\* MUTANT of DeliveryFails: the target is not told to end.
DeliveryFailsSilently(c, d) ==
  /\ step[c] = "sending"
  /\ d \in job[c].targets
  /\ job' = [job EXCEPT ![c].targets = @ \ {d}]
  /\ UNCHANGED <<membership, token, births, step, newest, told>>

\* It fails or times out: the target is told to end.
DeliveryFails(c, d) ==
  /\ step[c] = "sending"
  /\ d \in job[c].targets
  /\ told' = told \cup {d}
  /\ job' = [job EXCEPT ![c].targets = @ \ {d}]
  /\ UNCHANGED <<membership, token, births, step, newest>>

RotationSent(c) ==
  /\ step[c] = "sending"
  /\ job[c].targets = {}
  /\ Finish(c)
  /\ UNCHANGED <<membership, token, births, newest, told>>

-----------------------------------------------------------------------------
Init ==
  /\ MembershipInit
  /\ token = [l \in LobbyIds |-> None]
  /\ births = [l \in LobbyIds |-> 0]
  /\ step = [c \in Conns |-> "idle"]
  /\ job = [c \in Conns |-> None]
  /\ newest = [c \in Conns |-> None]
  /\ told = {}

\* The steps a task takes by itself.
Proceed(c) ==
  \/ CheckCommit(c) \/ SendWelcome(c) \/ LoseWelcome(c)
  \/ SignalKicked(c) \/ CheckRotation(c) \/ RotationSent(c)
  \/ \E d \in Conns : Deliver(c, d) \/ DeliveryFails(c, d)
  \/ LeaveReplaced(c) \/ \E id \in ClientIds : Leave(c, id)

Next ==
  \E c \in Conns :
    \/ \E id \in ClientIds, l \in LobbyIds, g \in Generations : Join(c, id, l, g)
    \/ \E id \in ClientIds : Kick(c, id)
    \/ EndLoop(c)
    \/ Proceed(c)

\* Sends time out and locks are fair, so a handler gets on; a task that is back
\* in its loop sees its disconnect watch.
Fairness ==
  \A c \in Conns : WF_vars(Proceed(c)) /\ SF_vars(c \in told /\ EndLoop(c))

Spec == Init /\ [][Next]_vars

FairSpec == Spec /\ Fairness

-----------------------------------------------------------------------------
\* Every variable holds a value of its kind: a token has a lobby, a creation of
\* it and an epoch from 1 on.
TypeOK ==
  /\ MembershipTypeOK
  /\ token \in [LobbyIds -> Token \cup {None}]
  /\ births \in [LobbyIds -> Nat]
  /\ step \in [Conns -> Steps]
  /\ job \in [Conns -> Job \cup {None}]
  /\ newest \in [Conns -> Token \cup {None, Lost}]
  /\ told \subseteq Conns

\* The token in force is known to no socket but those of the present members:
\* not to one that left, was kicked or was replaced by a reconnect, even if a
\* notification was on its way to it at that moment.
TokenKnownOnlyToMembers ==
  \A l \in LobbyIds : token[l] # None =>
    \A d \in Conns : newest[d] = token[l] => d \in Sockets(l)

\* Task c will still send token t to socket d, or make a newer one.
Owes(c, t, d) ==
  \/ /\ step[c] \in {"committed", "welcoming", "kicking", "rotating", "sending"}
     /\ job[c].token = t
     /\ d \in job[c].targets \/ (d = c /\ step[c] \in {"committed", "welcoming"})
  \/ step[c] = "leaving" /\ c \in Sockets(t.lobby_id)

\* Every member has the token in force, or some task owes it to them: dropping a
\* superseded rotation leaves nobody out.  Excepted are a member told to end
\* because a send to it failed, and one whose RegisterSuccess was lost.
EveryMemberServed ==
  \A l \in LobbyIds : token[l] # None =>
    \A d \in Sockets(l) :
      \/ newest[d] \in {token[l], Lost}
      \/ d \in told
      \/ \E c \in Conns : Owes(c, token[l], d)

\* The same, with the types: nobody is left out by overlapping rotations.
NoMemberForgotten == TypeOK /\ EveryMemberServed

\* Once membership settles, all members share the token in force (a member
\* whose RegisterSuccess was lost aside).
MembersShareToken ==
  <>[](\A l \in LobbyIds : token[l] # None =>
        \A d \in Sockets(l) : newest[d] \in {token[l], Lost})

\* Tokens of one lobby reach a socket in the order of their epochs, as
\* send_chat_token_rotation says: dropping stale epochs "prevents old tokens
\* from arriving after new ones".
TokensArriveInOrder ==
  [][\A c, d \in Conns :
       /\ Deliver(c, d) \/ (c = d /\ SendWelcome(c))
       /\ newest[d] \notin {None, Lost}
       => Newer(job[c].token, newest[d])
    ]_vars
=============================================================================
