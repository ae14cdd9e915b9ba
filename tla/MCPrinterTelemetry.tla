------------------------- MODULE MCPrinterTelemetry -------------------------
(* PrinterTelemetry on a small instance. *)
EXTENDS PrinterTelemetry

Fine ==
  [enabled |-> TRUE, accepting |-> TRUE, printing |-> FALSE, state |-> 3, reasons |-> <<>>,
   hp |-> [found |-> TRUE, printer |-> TRUE, none |-> FALSE]]
Empty == [Fine EXCEPT !.reasons = <<"other", "PAPER_OUT">>]

\* Pulled from its socket in the middle of a print, which CUPS still shows; a probe
\* that reads one half before and one half after sees neither of the two.
Unplugged ==
  [Fine EXCEPT !.printing = TRUE, !.state = 4,
               !.hp = [found |-> TRUE, printer |-> FALSE, none |-> TRUE]]

MCConditions == {Fine, Empty, Unplugged}
=============================================================================
