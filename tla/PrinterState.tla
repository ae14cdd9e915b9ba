---------------------------- MODULE PrinterState ----------------------------
(***************************************************************************)
(* What the agent says of the printer, from what the commands of one probe *)
(* told (app/printer_telemetry/normalize.py), and what the health snapshot *)
(* makes of it (app/health.py).                                            *)
(*                                                                         *)
(* A printer-state-reasons token is abstracted to its kind: the condition  *)
(* it names, ERROR for an error or warning of no known name, OFFLINE for   *)
(* a marker that the device is out of reach, other for the rest.           *)
(***************************************************************************)
EXTENDS Naturals, Sequences

NamedReasons ==
  {"PAPER_OUT", "PAPER_JAM", "TONER_LOW", "TONER_OUT", "COVER_OPEN", "PAUSED", "DISABLED"}
Reasons == NamedReasons \cup {"ERROR", "OFFLINE", "other"}

\* printer-state: 3 idle, 4 processing, 5 stopped, 0 unknown.
PrinterStates == {0, 3, 4, 5}
UsbPresences  == {"present", "absent", "unknown"}

\* What the adapters gather in one probe.
Signals ==
  [scheduler : BOOLEAN, exists : BOOLEAN, enabled : BOOLEAN, accepting : BOOLEAN,
   printing : BOOLEAN, state : PrinterStates, reasons : Seq(Reasons), usb : UsbPresences]

ConnectionStates  == {"ONLINE", "OFFLINE", "UNKNOWN"}
OperationalStates == NamedReasons \cup {"IDLE", "PRINTING", "ERROR", "UNKNOWN"}
DisplayStates     == NamedReasons \cup {"READY", "PRINTING", "OFFLINE", "ERROR", "UNKNOWN"}

\* The fields of a snapshot that state_key compares; make, model and the kind of
\* the connection stay the same.
Snapshots ==
  [connection : ConnectionStates, operational : OperationalStates,
   display : DisplayStates, reasons : Seq(Reasons)]

-----------------------------------------------------------------------------

\* What hp-probe prints, as far as it is looked at; a "no devices found" has a
\* "found" in it.
HpOutputs ==
  {o \in [found : BOOLEAN, printer : BOOLEAN, none : BOOLEAN] : o.none => o.found}

UsbPresence(o) ==
  IF o.found /\ o.printer THEN "present" ELSE IF o.none THEN "absent" ELSE "unknown"

NoCondition == "none"
Says(rs, kinds) == \E i \in DOMAIN rs : rs[i] \in kinds

\* The first token in the list that names a condition.
FirstNamed(rs) ==
  rs[CHOOSE i \in DOMAIN rs :
       rs[i] \in NamedReasons /\ \A k \in DOMAIN rs : k < i => rs[k] \notin NamedReasons]

\* operational_from_reasons
OperationalFromReasons(rs) ==
  IF Says(rs, NamedReasons) THEN FirstNamed(rs)
  ELSE IF Says(rs, {"ERROR"}) THEN "ERROR"
  ELSE NoCondition

\* has_connectivity_evidence; backend_unreachable is set nowhere.
ConnectivityEvidence(p) ==
  p.usb = "present" \/ p.state = 4 \/ p.printing \/ p.reasons # <<>>

Connection(p) ==
  IF ~p.scheduler \/ ~p.exists THEN "UNKNOWN"
  ELSE IF p.usb = "absent" \/ Says(p.reasons, {"OFFLINE"}) THEN "OFFLINE"
  ELSE IF ConnectivityEvidence(p) THEN "ONLINE"
  ELSE "UNKNOWN"

\* The operational state of a printer that is online; a job that prints, or is
\* said to, hides every reason.
OnlineState(p, hint) ==
  LET named == OperationalFromReasons(p.reasons)
  IN  IF p.state = 5 \/ ~p.enabled THEN "DISABLED"
      ELSE IF p.state = 4 \/ p.printing \/ hint THEN "PRINTING"
      ELSE IF named # NoCondition THEN named
      ELSE IF p.accepting THEN "IDLE"
      ELSE "PAUSED"

\* The operational state of a printer that is not.
AbsentState(p) ==
  LET named == OperationalFromReasons(p.reasons)
  IN  IF Connection(p) = "OFFLINE" /\ p.usb # "absent" /\ named # NoCondition
      THEN named ELSE "UNKNOWN"

DisplayState(connection, operational) ==
  IF connection = "OFFLINE" THEN "OFFLINE"
  ELSE IF operational # "IDLE" THEN operational
  ELSE IF connection = "ONLINE" THEN "READY"
  ELSE "UNKNOWN"

\* normalize_probe; hint says that a row of the jobs table is PRINTING.
Normalize(p, hint) ==
  LET operational == IF Connection(p) = "ONLINE" THEN OnlineState(p, hint) ELSE AbsentState(p)
  IN  [connection |-> Connection(p), operational |-> operational,
       display |-> DisplayState(Connection(p), operational), reasons |-> p.reasons]

\* printer_ok of the health snapshot.
PrinterOk(s) == s.connection = "ONLINE" /\ s.display \in {"READY", "PRINTING"}

=============================================================================
