------------------------------ MODULE Selection ------------------------------
(* The elements of a sequence that pass a test, in the order they have: what *)
(* filter and retain do in the code.                                         *)
EXTENDS Naturals, Sequences

(* The elements at the given positions. *)
ElementsAt(s, positions) ==
    LET upTo[n \in 0 .. Len(s)] ==
          IF n = 0 THEN <<>>
          ELSE IF n \in positions THEN Append(upTo[n - 1], s[n]) ELSE upTo[n - 1]
    IN  upTo[Len(s)]

Keep(s, Test(_)) == ElementsAt(s, {n \in DOMAIN s : Test(s[n])})

==============================================================================
