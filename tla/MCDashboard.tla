---------------------------- MODULE MCDashboard ----------------------------
(* Dialogs over a list of two containers, without log streams; log streams *)
(* and the two kinds of list with one container; and a container that      *)
(* writes more lines than the channel of a log stream takes.               *)
EXTENDS Dashboard

Dialogs == [keys |-> {"s", "R", "y", "S", "c", "C", "i", "m", "l", "/", "esc", "enter", "up", "down",
                      "f", "x", "E", "?", "r", "q"},
            containers |-> {1, 2}, streams |-> 0, lines |-> 1]
Streams == [keys |-> {"L", " ", "l", "a", "s", "esc", "q"},
            containers |-> {1}, streams |-> 2, lines |-> 2]
Overflow == [keys |-> {"l", "q"}, containers |-> {1}, streams |-> 2, lines |-> 3]
MCLoads == {Dialogs, Streams, Overflow}

=============================================================================
