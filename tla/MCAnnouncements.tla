--------------------------- MODULE MCAnnouncements ---------------------------
(***************************************************************************)
(* Small instances of Announcements, with three connections: two of the    *)
(* same identity and one other, or three identities.                       *)
(***************************************************************************)
EXTENDS Announcements, TLC

CONSTANTS c1, c2, c3, i1, i2, i3

ThreeConns == {c1, c2, c3}
TwoIds == {i1, i2}
ThreeIds == {i1, i2, i3}
FirstTwoShare == c1 :> i1 @@ c2 :> i1 @@ c3 :> i2
\* Two connections of one identity are interchangeable.
SharersSwap == Permutations({c1, c2})
NoneShare == c1 :> i1 @@ c2 :> i2 @@ c3 :> i3

\* Bound of the run: once the host's request was made, what follows when a send to a
\* member fails is left alone (such a member expects no notice and is about to go).
MCFailuresFirst == requests > 0 => \A c \in Conns : Current(c) => Expects(c)
=============================================================================
