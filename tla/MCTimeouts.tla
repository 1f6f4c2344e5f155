----------------------------- MODULE MCTimeouts -----------------------------
(***************************************************************************)
(* Settings and clocks for TLC: the limits of every setting and the values *)
(* next to them, and requests that begin shortly before the low word of    *)
(* the clock wraps, before midnight, long enough before it, and after it.  *)
(***************************************************************************)
EXTENDS Timeouts, TLC

Typed(n) == [num |-> n, digits |-> TRUE, junk |-> FALSE]
Word_ == [num |-> 0, digits |-> FALSE, junk |-> TRUE]

MCTexts == {Typed(n) : n \in {-1, 0, 1, 2, 3, 56, 57, 64, 254, 255, 559, 560, 1500, 1501,
                              65534, 65536, 65537}}
             \cup {Word_, [num |-> 2, digits |-> TRUE, junk |-> TRUE]}

MCInstalls == {<<>>, "PORT" :> Typed(65534) @@ "MTU" :> Typed(560),
               "PORT" :> Typed(65536), "MTU" :> Typed(1501)}

MCMounts == {<<>>,
             "MIN_RCV_TMO" :> Typed(3) @@ "MAX_RCV_TMO" :> Typed(2) @@ "MAX_RETRIES" :> Typed(2),
             "MAX_RETRIES" :> Typed(0) @@ "MIN_READ_LEN" :> Typed(16),
             "MIN_READ_LEN" :> Typed(3), "MIN_READ_LEN" :> Typed(320), "MIN_RCV_TMO" :> Word_}

MCClocks == {100, Word - 30, Day - 60, Day - 400}
=============================================================================
