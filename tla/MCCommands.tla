----------------------------- MODULE MCCommands -----------------------------
EXTENDS Commands

Load(commands, ups, sigterms, failures) ==
    [script |-> commands, updates |-> ups, terms |-> sigterms, faults |-> failures]

\* Alarms that overlap, the other signals beside them, keycards and what waits
\* behind them, the two goroutines that save, restarts.
MCLoads ==
    { Load(<<"alarm", "alarm", "alarm_off", "alarm">>, 0, 0, 0),
      Load(<<"alarm", "alarm_off", "alarm", "alarm_off">>, 0, 0, 1),
      Load(<<"locate", "honk", "alarm", "honk">>, 0, 0, 1),
      Load(<<"blinker", "locate", "locate", "alarm_off">>, 0, 1, 1),
      Load(<<"alarm", "keycard", "alarm_off">>, 0, 1, 1),
      Load(<<"keycard", "keycard", "keycard", "keycard">>, 0, 1, 2),
      Load(<<"set", "save", "relay", "unlock", "save">>, 2, 1, 1),
      Load(<<"honk", "restart", "save", "keycard">>, 1, 0, 1) }
=============================================================================
