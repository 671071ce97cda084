--------------------------- MODULE MCFeatureState ---------------------------
(***************************************************************************)
(* Two payments of one actor and one of another.  A decision that takes a   *)
(* while, with an event available meanwhile; two decisions at one instant;  *)
(* a second decision of one payment; an event that may come late; two       *)
(* observations under one id.                                               *)
(***************************************************************************)
EXTENDS FeatureState

Event(id, at, decide, actor, counterparty, kind, payment) ==
    [id |-> id, at |-> at, decide |-> decide, actor |-> actor,
     counterparty |-> counterparty, kind |-> kind, payment |-> payment]

MCEvents ==
    {Event(1, 1, 3, "a", "x", "authorization", 1),
     Event(2, 4, 0, "b", "x", "clearing", 2),
     Event(2, 4, 0, "b", "x", "refund", 2),
     Event(3, 3, 3, "b", "x", "authorization", 2),
     Event(4, 2, 0, "a", "x", "clearing", 1),
     Event(5, 4, 5, "a", "x", "declined", 1),
     Event(6, 6, 6, "a", "y", "authorization", 3),
     Event(7, 2, 6, "b", "x", "declined", 2),
     Event(8, 5, 0, "a", "y", "refund", 3)}
=============================================================================
