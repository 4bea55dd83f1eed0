------------------------------ MODULE MCCanvas ------------------------------
(***************************************************************************)
(* Pictures for Canvas: namespaces without an edge, which make two rows of *)
(* the grid and blocks of several cells, and a view where two cards are    *)
(* joined by an edge, or where the filters leave nothing.                  *)
(***************************************************************************)
EXTENDS Canvas

Workload(id, h, ns) == [id |-> id, w |-> 168, h |-> h, group |-> ns]

FourNamespaces ==
  [view |-> "all", edges |-> {}, peers |-> {},
   cards |-> <<Workload("a", 231, "n1"), Workload("b", 36, "n2"),
               Workload("c", 231, "n3"), Workload("d", 231, "n4")>>]
TwoNamespaces ==
  [view |-> "all", edges |-> {<<"any", "a">>}, peers |-> {"any"},
   cards |-> <<Workload("b", 36, "n2"), Workload("a", 231, "n1"),
               Workload("c", 36, "n2"), Workload("d", 57, "n2")>>]
Joined ==
  [view |-> "exposed", edges |-> {<<"a", "b">>, <<"b", "b">>}, peers |-> {},
   cards |-> <<Workload("a", 120, "n1"), [Workload("b", 36, "n2") EXCEPT !.w = 268],
               Workload("e", 78, "n1")>>]

Nothing == [view |-> "exposed", edges |-> {}, peers |-> {}, cards |-> << >>]

MCPictures == {FourNamespaces, TwoNamespaces, Joined, Nothing}

ASSUME MCRoom == RoomForOne
=============================================================================
