------------------------------- MODULE MCDuty -------------------------------
(* Instances of Duty for TLC. *)
EXTENDS Duty, TLC

CONSTANTS a, b, s, d, e, k1

(* Short hours on two days, earlier ones on one, and some too long. *)
MCProposals ==
  {[start |-> 0, end |-> 1, days |-> {1, 2}],
   [start |-> 1, end |-> 2, days |-> {1}],
   [start |-> 0, end |-> 2, days |-> {1, 2}]}

(* Two clicks on one session while its hours change or a server stops, one *)
(* session after another, one who rules as the session ends, a general     *)
(* admin beside a sub-admin, two sub-admins who accept one dispute at once *)
(* and both rule, and one whose ruling names the escrow of another dispute *)
(* that is open or that a general admin accepted.                          *)
MCScopes ==
  {[who |-> {a}, about |-> {d}, ticks |-> {k1},
    resume |-> 2, accept |-> 0, resolve |-> 0,
    edits |-> 1, faults |-> 1, until |-> 5],
   [who |-> {a}, about |-> {d}, ticks |-> {k1},
    resume |-> 1, accept |-> 1, resolve |-> 0,
    edits |-> 0, faults |-> 0, until |-> 6],
   [who |-> {a}, about |-> {d}, ticks |-> {k1},
    resume |-> 1, accept |-> 1, resolve |-> 1,
    edits |-> 0, faults |-> 0, until |-> 5],
   [who |-> {a, s}, about |-> {d}, ticks |-> {},
    resume |-> 1, accept |-> 2, resolve |-> 1,
    edits |-> 0, faults |-> 0, until |-> 3],
   [who |-> {a, b}, about |-> {d}, ticks |-> {},
    resume |-> 2, accept |-> 2, resolve |-> 2,
    edits |-> 0, faults |-> 0, until |-> 3],
   [who |-> {a}, about |-> {d, e}, ticks |-> {},
    resume |-> 1, accept |-> 1, resolve |-> 2,
    edits |-> 0, faults |-> 0, until |-> 3],
   [who |-> {a, s}, about |-> {d, e}, ticks |-> {},
    resume |-> 1, accept |-> 2, resolve |-> 1,
    edits |-> 0, faults |-> 0, until |-> 3]}
=============================================================================
