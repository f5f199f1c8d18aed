--------------------------- MODULE MCIdempotency ---------------------------
(* Instances of Idempotency for TLC: a profile selects the requests that   *)
(* are sent.                                                               *)
EXTENDS Idempotency, TLC

CONSTANTS a, b, c, d, e, f, g, h, i, j, k1, k2, k3, k4, s1, s2

VARIABLE profile

\* Four requests with the key of an ordinary route, the last of them with
\* another body.
RouteRequests == {a, b, c, d}

\* Two requests with the key of a file operation, three with the key of an
\* operation that is one transaction, one of them with another body, and a
\* file operation that an expired reservation does not refuse.
FileRequests == {e, f, g, h, i, j}

MCKeyOf == [r \in Requests |-> CASE r \in RouteRequests -> k1
                                 [] r \in {e, f} -> k2
                                 [] r \in {g, h, i} -> k3
                                 [] OTHER -> k4]

MCKindOf == (k1 :> "route") @@ (k2 :> "file") @@ (k3 :> "single") @@ (k4 :> "unguarded")

TwoBodies == [r \in Requests |-> IF r \in {d, h} THEN "y" ELSE "x"]

MCServiceOf == [r \in Requests |-> IF r \in {a, d, e, h} THEN s1 ELSE s2]

Sent == IF profile = "route" THEN RouteRequests ELSE FileRequests

MCNext ==
    \/ \E r \in Sent \cap Requests : RequestStep(r)
    \/ \E s \in Services : Crash(s)
    \/ \E k \in Keys : Expire(k) \/ Redact(k)

MCInit == Init /\ profile \in {"route", "files"}

MCSpec == MCInit /\ [][MCNext /\ UNCHANGED profile]_<<vars, profile>>
=============================================================================
