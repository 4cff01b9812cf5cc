------------------------------- MODULE MCChat -------------------------------
(* Instances of Chat for TLC.                                               *)
EXTENDS Chat, TLC

CONSTANTS A, B, C, t1, f1

\* Two pages and a text; a page may complete two key exchanges.
Repeats ==
    [pages |-> {A, B}, reachable |-> {{A, B}}, writers |-> {A, B}, items |-> {t1},
     faults |-> {}, maxFaults |-> 0, maxFinals |-> 2]

\* The connection is lost or a page is reloaded; two reloads; and with a file.
Losses == [Repeats EXCEPT !.maxFinals = 1, !.faults = {"lose", "reload"}, !.maxFaults = 1]
Reloads == [Losses EXCEPT !.faults = {"reload"}, !.maxFaults = 2]
FileLosses == [Losses EXCEPT !.items = {f1}]

\* Three pages of which A and C cannot reach each other; A writes.
Relay ==
    [pages |-> {A, B, C}, reachable |-> {{A, B}, {B, C}}, writers |-> {A},
     items |-> {t1}, faults |-> {}, maxFaults |-> 0, maxFinals |-> 1]

ChatScenes == {Repeats, Losses, Reloads, FileLosses, Relay}
=============================================================================
