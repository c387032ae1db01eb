----------------------------- MODULE MCTerminal -----------------------------
(* Constants of Terminal.  The scenarios: keys of each kind with nobody    *)
(* else printing; keys against one process that prints; two processes that *)
(* print at the same time; numbers.                                        *)
EXTENDS Terminal

MCBytes == {0, ACK} \cup UNION {ToSet(Codes[k].make) \cup ToSet(Codes[k].break) : k \in DOMAIN Codes}
Silent == [p \in {"A", "B"} |-> <<>>]

\* early: keys may be pressed before init_keyboard is through.
Keys(n, early, menu) == [keys |-> n, early |-> early, menu |-> menu, jobs |-> Silent]

\* One number printed; int has 6 bits (Wrap).
Number(conversion, v) == [Keys(0, FALSE, {}) EXCEPT !.jobs["A"] = << <<<<conversion, v>>>> >>]

MCScenarios == {Number(conversion, v) : conversion \in {"d", "x", "X"}, v \in {-32, -31, -10, -1, 0, 9, 10, 31}} \cup {
  Keys(1, TRUE, {"UPFAKE", "PRTSCR", "PAUSE", "KPEN", "RCTRL", "LALT", "RALT"}),
  Keys(2, FALSE, {"A", "LSHIFT", "CAPS"}),
  Keys(2, FALSE, {"UP", "KPEN"}),
  Keys(2, FALSE, {"LSHIFT", "RSHIFT"}),
  Keys(2, FALSE, {"NUM", "KP8"}),
  [Keys(1, FALSE, {"A", "ENTER", "BKSP"}) EXCEPT
     !.jobs["A"] = << <<<<"d", -1>>, <<"s", <<CR>>>>>> >>],
  [Keys(0, FALSE, {}) EXCEPT
     !.jobs = [A |-> << <<<<"s", <<65, 66>>>>>> >>,
               B |-> << <<<<"s", <<LF>>>>, <<"d", 3>>>> >>]]}
=============================================================================
