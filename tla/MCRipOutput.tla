----------------------------- MODULE MCRipOutput -----------------------------
(***************************************************************************)
(* RipOutput on a disc with two areas, of two tracks and of one, and four  *)
(* requests: a decoded track that takes a sector of the next one along,    *)
(* its area's last track, the raw sectors across the border of an area,    *)
(* and the whole of the other area, decoded.                               *)
(***************************************************************************)
EXTENDS RipOutput

Request(kind, area, number, start, length, decode) ==
    [kind |-> kind, area |-> area, track |-> number, start |-> start,
     length |-> length, decode |-> decode]

MCTrackStart == [a \in {1, 2} |-> IF a = 1 THEN [t \in {0, 1} |-> 2 + 2 * t]
                                           ELSE [t \in {0} |-> 6]]
MCRequests == {Request("track", 1, 0, 0, 0, TRUE),
               Request("track", 1, 1, 0, 0, FALSE),
               Request("raw", 1, 0, 1, 2, FALSE),
               Request("edit master", 2, 0, 0, 0, TRUE)}
MCTwoRequests == {Request("track", 1, 1, 0, 0, TRUE),
                  Request("edit master", 2, 0, 0, 0, FALSE)}
==============================================================================
